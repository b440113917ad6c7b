--------------------------- MODULE MigrationProofs ---------------------------
(***************************************************************************)
(* Theorems about the accounts, continued: every step of a migration keeps *)
(* the invariant of AccountsProofs, so that it holds of every behaviour,   *)
(* and what follows from it; then what holds of requests that overlap.     *)
(*                                                                         *)
(* The saves are laid out alike: what the request knows (1), the columns w *)
(* it writes (3), the row r that results, column by column (7), that r is  *)
(* consistent (11), what the request then knows (12), and what Writing     *)
(* asks of a row besides (13 to 17).                                       *)
(***************************************************************************)
EXTENDS AccountsProofs

USE DEF WithDocument, WithAddress, InFinalise, InInitiate, InVerifyNew, InOAuth, InRegister, Stage, At

------------------------------------------------------------------------------
(* The steps that only read: migrations *)

\* The row of the document that a request carries, when it is loaded again.
LEMMA Reloaded ==
    ASSUME Inv, NEW r, Knows(r),
           r.pc \in {"initreload", "bothverified", "finalise", "finreload", "checkbio"},
           NEW d, d = Load(r.doc.id)
    PROVE  d \in Row /\ Current(d) /\ d.id = r.doc.id /\ Current(r.doc)
  <1>1. Current(r.doc)
    BY DEF Knows, Documents
  <1>2. Live(r.doc.id) /\ r.doc.id \in 0..MaxUsers
    BY <1>1 DEF Current, Users
  <1> QED BY <1>1, <1>2, Loaded

\* initiateMigration looks up who holds the new address.
LEMMA InitiateLookupGood ==
    ASSUME Inv, OneAtATime, NEW s \in Slots, InitiateLookup(s) PROVE Good
  <1>1. Knows(req[s]) /\ req[s].pc = "initlookup" /\ Reads
    BY Facts DEF InitiateLookup
  <1>2. InStep(req[s])
    BY <1>1 DEF InStep, Behind
  <1>3. PICK x : x = findUserIdByPrimaryEmail(req[s].e)
    OBVIOUS
  <1>4. req[s].e \in Emails /\ up
    BY <1>1 DEF Knows, Documents
  <1>5. /\ x \in 0..MaxUsers
        /\ Reliable => IF x = 0 THEN \A u \in Users : users[u].email # req[s].e
                       ELSE Live(x) /\ users[x].email = req[s].e
    BY <1>2, <1>3, <1>4, Lookup
  <1>6. Knows([pc |-> "initexists", x |-> x] ++ req[s])
    BY <1>1, <1>5, ZenonT(60)
    DEF Knows, Fields, Documents, Migrating, Lookups, Verifying, Inserting, Generating, ++, Idle, Holder
  <1> QED BY <1>1, <1>2, <1>3, <1>6, Continues DEF InitiateLookup

\* initiateMigration loads the holder of the new address, which must be
\* nobody: no account has that address.
LEMMA InitiateExistsGood ==
    ASSUME Inv, OneAtATime, NEW s \in Slots, InitiateExists(s) PROVE Good
  <1>1. Knows(req[s]) /\ req[s].pc = "initexists" /\ Reads
    BY Facts DEF InitiateExists
  <1>2. InStep(req[s])
    BY <1>1 DEF InStep, Behind
  <1>3. ~(Live(req[s].x) /\ req[s].x = req[s].doc.id) => Knows([pc |-> "initreload"] ++ req[s])
    <2>1. Current(req[s].doc) /\ (Reliable => Holder(req[s]))
      BY <1>1 DEF Knows, Documents, Lookups
    <2>2. Reliable /\ ~(Live(req[s].x) /\ req[s].x = req[s].doc.id) =>
              users[req[s].doc.id].email # req[s].e
      <3>1. req[s].x \in 0..MaxUsers
        BY <1>1 DEF Knows, Fields
      <3>2. \A u, v \in Users : Live(u) /\ Live(v) /\ u # v => users[u].email # users[v].email
        BY DEF Inv, Rows, Apart
      <3> QED BY <2>1, <3>1, <3>2 DEF Holder, Current, Users
    <2> QED
      BY <1>1, <2>2, ZenonT(30)
      DEF Knows, Fields, Documents, Migrating, Lookups, Verifying, Inserting, Generating, ++, Idle
  <1> QED BY <1>1, <1>2, <1>3, Answers, Continues DEF InitiateExists

\* It reloads its own account, whose address is not the new one.
LEMMA InitiateReloadGood ==
    ASSUME Inv, OneAtATime, NEW s \in Slots, InitiateReload(s) PROVE Good
  <1>1. Knows(req[s]) /\ req[s].pc = "initreload" /\ Reads
    BY Facts DEF InitiateReload
  <1>2. InStep(req[s])
    BY <1>1 DEF InStep, Behind
  <1>3. Knows([pc |-> "initsave", doc |-> Load(req[s].doc.id)] ++ req[s])
    <2>2. PICK d : d = Load(req[s].doc.id)
      OBVIOUS
    <2>3. d \in Row /\ Current(d) /\ d.id = req[s].doc.id
      BY <1>1, <2>2, Reloaded
    <2> QED
      BY <1>1, <2>2, <2>3, ZenonT(60)
      DEF Knows, Fields, Documents, Migrating, Lookups, Verifying, Inserting, Generating, ++, Idle
  <1> QED BY <1>1, <1>2, <1>3, Answers, Continues DEF InitiateReload

\* A migration link is looked up by its secret: it was mailed to the address
\* that the row names, and somebody opened it.
LEMMA VerifyMigrationFindGood ==
    ASSUME Inv, OneAtATime, NEW s \in Slots, VerifyMigrationFind(s) PROVE Good
  <1>1. Knows(req[s]) /\ req[s].pc = "findmigration" /\ Reads
    BY Facts DEF VerifyMigrationFind
  <1>2. InStep(req[s])
    BY <1>1 DEF InStep, Behind
  <1>3. ASSUME NEW u \in Users, Live(u), users[u].migrationToken = req[s].link
        PROVE  /\ users[u].newEmailPending # None
               /\ IF req[s].op = "new" THEN Used("new", u, users[u].newEmailPending)
                  ELSE Used("current", u, users[u].email)
    <2>1. req[s].link # 0 /\ req[s].op \in {"current", "new"}
      BY <1>1 DEF Knows, Migrating
    <2>2. PICK l \in opened : l.kind = req[s].op /\ l.secret = req[s].link
      BY <1>1 DEF Knows, Migrating
    <2>3. Tells(l, users[u])
      BY <1>3, <2>1, <2>2 DEF Inv, Mails
    <2>4. Consistent(users[u]) /\ users[u].id = u
      BY <1>3, Facts
    <2>5. l.u = u /\ l.to = IF l.kind = "current" THEN users[u].email ELSE users[u].newEmailPending
      BY <1>3, <2>1, <2>2, <2>3, <2>4 DEF Tells
    <2> QED BY <1>3, <2>1, <2>2, <2>4, <2>5 DEF Consistent, Used
  <1>4. ASSUME NEW u \in Users, Live(u), users[u].migrationToken = req[s].link,
               NEW pc, pc = IF req[s].op = "new" THEN "newlookup" ELSE "saveverified"
        PROVE  Knows([doc |-> Load(u), e |-> users[u].newEmailPending, pc |-> pc] ++ req[s])
    <2>1. PICK d : d = Load(u)
      OBVIOUS
    <2>2. d \in Row /\ Current(d) /\ d.id = u
      BY <1>4, <2>1, Loaded DEF Users
    <2>3. PICK e : e = users[u].newEmailPending
      OBVIOUS
    <2>4. e \in Emails
      BY <1>3, <1>4, <2>3, Facts, RowFields
    <2>5. IF req[s].op = "new" THEN Used("new", d.id, e) ELSE Used("current", d.id, users[d.id].email)
      BY <1>3, <1>4, <2>2, <2>3
    <2>6. e = users[d.id].newEmailPending /\ e # None
      BY <1>3, <1>4, <2>2, <2>3, SMTT(30)
    <2>7. Knows([doc |-> d, e |-> e, pc |-> pc] ++ req[s])
      BY <1>1, <1>4, <2>2, <2>4, <2>5, <2>6, ZenonT(60)
      DEF Knows, Fields, Documents, Migrating, Lookups, Verifying, Inserting, Generating, ++, Idle
    <2> QED BY <2>1, <2>3, <2>7
  <1>5. PICK pc : pc = IF req[s].op = "new" THEN "newlookup" ELSE "saveverified"
    OBVIOUS
  <1> QED BY <1>1, <1>2, <1>4, <1>5, Answers, Continues DEF VerifyMigrationFind

\* The link to the new address: its holder is looked up ...
LEMMA VerifyNewLookupGood ==
    ASSUME Inv, OneAtATime, NEW s \in Slots, VerifyNewLookup(s) PROVE Good
  <1>1. Knows(req[s]) /\ req[s].pc = "newlookup" /\ Reads
    BY Facts DEF VerifyNewLookup
  <1>2. InStep(req[s])
    BY <1>1 DEF InStep, Behind
  <1>3. PICK x : x = findUserIdByPrimaryEmail(req[s].e)
    OBVIOUS
  <1>4. req[s].e \in Emails /\ up
    BY <1>1 DEF Knows, Documents
  <1>5. /\ x \in 0..MaxUsers
        /\ Reliable => IF x = 0 THEN \A u \in Users : users[u].email # req[s].e
                       ELSE Live(x) /\ users[x].email = req[s].e
    BY <1>2, <1>3, <1>4, Lookup
  <1>6. Knows([pc |-> "newexists", x |-> x] ++ req[s])
    BY <1>1, <1>5, ZenonT(60)
    DEF Knows, Fields, Documents, Migrating, Lookups, Verifying, Inserting, Generating, ++, Idle, Holder
  <1> QED BY <1>1, <1>2, <1>3, <1>6, Continues DEF VerifyNewLookup

\* ... and loaded.
LEMMA VerifyNewExistsGood ==
    ASSUME Inv, OneAtATime, NEW s \in Slots, VerifyNewExists(s) PROVE Good
  <1>1. Knows(req[s]) /\ req[s].pc = "newexists" /\ Reads
    BY Facts DEF VerifyNewExists
  <1>2. InStep(req[s])
    BY <1>1 DEF InStep, Behind
  <1>3. Knows([pc |-> "saveverified"] ++ req[s]) /\ Knows([pc |-> "placeholder"] ++ req[s])
    BY <1>1, ZenonT(60)
    DEF Knows, Fields, Documents, Migrating, Lookups, Verifying, Inserting, Generating, ++, Idle
  <1> QED BY <1>1, <1>2, <1>3, Continues DEF VerifyNewExists

\* After a link was used the account is loaded for its history.
LEMMA VerifyHistoryReadGood ==
    ASSUME Inv, OneAtATime, NEW s \in Slots, VerifyHistoryRead(s) PROVE Good
  <1>1. Knows(req[s]) /\ req[s].pc = "readhistory" /\ Reads
    BY Facts DEF VerifyHistoryRead
  <1>2. InStep(req[s])
    BY <1>1 DEF InStep, Behind
  <1>3. PICK d : d = Load(req[s].doc.id)
    OBVIOUS
  <1>4. d \in Row
    BY <1>1, <1>3, Loaded DEF Knows, Documents, Current, Users
  <1>5. d.migrationHistory # <<>> => Knows([pc |-> "savehistory", keep |-> d] ++ req[s])
    BY <1>1, <1>4, ZenonT(60)
    DEF Knows, Fields, Documents, Migrating, Lookups, Verifying, Inserting, Generating, ++, Idle
  <1>6. Knows([pc |-> "bothverified"] ++ req[s])
    BY <1>1, ZenonT(30)
    DEF Knows, Fields, Documents, Migrating, Lookups, Verifying, Inserting, Generating, ++, Idle
  <1> QED BY <1>1, <1>2, <1>3, <1>5, <1>6, Continues DEF VerifyHistoryRead

\* Both links were used: the migration is finalised.
LEMMA VerifyFinaliseGood ==
    ASSUME Inv, OneAtATime, NEW s \in Slots, VerifyFinalise(s) PROVE Good
  <1>1. Knows(req[s]) /\ req[s].pc = "bothverified" /\ Reads
    BY Facts DEF VerifyFinalise
  <1>2. InStep(req[s])
    BY <1>1, SMTT(30) DEF InStep, Behind
  <1>3. PICK d : d = Load(req[s].doc.id)
    OBVIOUS
  <1>4. d \in Row /\ Current(d)
    BY <1>1, <1>3, Reloaded
  <1>5. BothVerified(d) => Knows([pc |-> "finalise", doc |-> d] ++ req[s])
    <2>1. BothVerified(d) => BothVerified(users[d.id])
      BY <1>4 DEF BothVerified, Current
    <2> QED
      BY <1>1, <1>4, <2>1, ZenonT(60)
      DEF Knows, Fields, Documents, Migrating, Lookups, Verifying, Inserting, Generating, ++, Idle
  <1> QED BY <1>1, <1>2, <1>3, <1>5, Answers, Continues DEF VerifyFinalise

\* finalizeMigrationInternal loads the account, with both links used ...
LEMMA FinaliseReadGood ==
    ASSUME Inv, OneAtATime, NEW s \in Slots, FinaliseRead(s) PROVE Good
  <1>1. Knows(req[s]) /\ req[s].pc = "finalise" /\ Reads
    BY Facts DEF FinaliseRead
  <1>2. InStep(req[s])
    BY <1>1, SMTT(30) DEF InStep, Behind
  <1>3. PICK d : d = Load(req[s].doc.id)
    OBVIOUS
  <1>4. d \in Row /\ Current(d) /\ d.id = req[s].doc.id
    BY <1>1, <1>3, Reloaded
  <1>5. d.newEmailPending # None =>
            Knows([pc |-> "finlookup", doc |-> d, keep |-> d, e |-> d.newEmailPending] ++ req[s])
    <2>1. PICK e : e = d.newEmailPending
      OBVIOUS
    <2>2. e \in Emails \cup {None} /\ e = users[d.id].newEmailPending
      BY <1>4, <2>1, RowFields, SMTT(30) DEF Current
    <2>3. e # None => Knows([pc |-> "finlookup", doc |-> d, keep |-> d, e |-> e] ++ req[s])
      BY <1>1, <1>4, <2>2, ZenonT(60)
      DEF Knows, Fields, Documents, Migrating, Lookups, Verifying, Inserting, Generating, ++, Idle
    <2> QED BY <2>1, <2>3
  <1> QED BY <1>1, <1>2, <1>3, <1>5, Answers, Continues DEF FinaliseRead

\* ... looks up who holds the new address ...
LEMMA FinaliseLookupGood ==
    ASSUME Inv, OneAtATime, NEW s \in Slots, FinaliseLookup(s) PROVE Good
  <1>1. Knows(req[s]) /\ req[s].pc = "finlookup" /\ Reads
    BY Facts DEF FinaliseLookup
  <1>2. InStep(req[s])
    BY <1>1 DEF InStep, Behind
  <1>3. PICK x : x = findUserIdByPrimaryEmail(req[s].e)
    OBVIOUS
  <1>4. req[s].e \in Emails /\ up
    BY <1>1 DEF Knows, Documents
  <1>5. /\ x \in 0..MaxUsers
        /\ Reliable => IF x = 0 THEN \A u \in Users : users[u].email # req[s].e
                       ELSE Live(x) /\ users[x].email = req[s].e
    BY <1>2, <1>3, <1>4, Lookup
  <1>6. Knows([pc |-> "finexists", x |-> x] ++ req[s])
    BY <1>1, <1>5, ZenonT(60)
    DEF Knows, Fields, Documents, Migrating, Lookups, Verifying, Inserting, Generating, ++, Idle, Holder
  <1> QED BY <1>1, <1>2, <1>3, <1>6, Continues DEF FinaliseLookup

\* ... loads that account: it is another one ...
LEMMA FinaliseExistsGood ==
    ASSUME Inv, OneAtATime, NEW s \in Slots, FinaliseExists(s) PROVE Good
  <1>1. Knows(req[s]) /\ req[s].pc = "finexists" /\ Reads
    BY Facts DEF FinaliseExists
  <1>2. InStep(req[s])
    BY <1>1 DEF InStep, Behind
  <1>3. Knows([pc |-> "finreload"] ++ req[s])
    BY <1>1, ZenonT(60)
    DEF Knows, Fields, Documents, Migrating, Lookups, Verifying, Inserting, Generating, ++, Idle
  <1>4. Knows([pc |-> "finupdate"] ++ req[s])
    BY <1>1, ZenonT(60)
    DEF Knows, Fields, Documents, Migrating, Lookups, Verifying, Inserting, Generating, ++, Idle
  <1>5. Live(req[s].x) /\ req[s].x # req[s].doc.id => Knows([pc |-> "finrelease"] ++ req[s])
    <2>1. Live(req[s].x) => req[s].x \in Users
      BY <1>1 DEF Knows, Fields, Live, Users
    <2> QED
      BY <1>1, <2>1, ZenonT(60)
      DEF Knows, Fields, Documents, Migrating, Lookups, Verifying, Inserting, Generating, ++, Idle, Holder
  <1> QED BY <1>1, <1>2, <1>3, <1>4, <1>5, Continues DEF FinaliseExists

\* ... or, when nobody has that address, its own row again.
LEMMA FinaliseReloadGood ==
    ASSUME Inv, OneAtATime, NEW s \in Slots, FinaliseReload(s) PROVE Good
  <1>1. Knows(req[s]) /\ req[s].pc = "finreload" /\ Reads
    BY Facts DEF FinaliseReload
  <1>2. InStep(req[s])
    BY <1>1, SMTT(30) DEF InStep, Behind
  <1>3. PICK d : d = Load(req[s].doc.id)
    OBVIOUS
  <1>4. d \in Row /\ Current(d) /\ d.id = req[s].doc.id
    BY <1>1, <1>3, Reloaded
  <1>5. Knows([pc |-> "finsave", doc |-> d, keep |-> d] ++ req[s])
    BY <1>1, <1>4, ZenonT(60)
    DEF Knows, Fields, Documents, Migrating, Lookups, Verifying, Inserting, Generating, ++, Idle
  <1> QED BY <1>1, <1>2, <1>3, <1>5, Answers, Continues DEF FinaliseReload

\* After the sync it compares the profile with the one it began with.
LEMMA FinaliseCheckBioGood ==
    ASSUME Inv, OneAtATime, NEW s \in Slots, FinaliseCheckBio(s) PROVE Good
  <1>1. Knows(req[s]) /\ req[s].pc = "checkbio" /\ Reads
    BY Facts DEF FinaliseCheckBio
  <1>2. InStep(req[s])
    BY <1>1 DEF InStep, Behind
  <1>3. Load(req[s].doc.id).bio = req[s].keep.bio
    <2>1. PICK d : d = Load(req[s].doc.id)
      OBVIOUS
    <2>3. Current(d) /\ d.id = req[s].doc.id /\ Current(req[s].doc)
      BY <1>1, <2>1, Reloaded
    <2>4. req[s].keep.bio = req[s].doc.bio
      BY <1>1 DEF Knows, Documents
    <2> QED BY <2>1, <2>3, <2>4 DEF Current
  <1> QED BY <1>1, <1>2, <1>3, Answers DEF FinaliseCheckBio

\* After a duplicate it looks the holder of the new address up again ...
LEMMA RecoverLookupGood ==
    ASSUME Inv, OneAtATime, NEW s \in Slots, RecoverLookup(s) PROVE Good
  <1>1. Knows(req[s]) /\ req[s].pc = "duplicate" /\ Reads
    BY Facts DEF RecoverLookup
  <1>2. InStep(req[s])
    BY <1>1 DEF InStep, Behind
  <1>3. PICK x : x = findUserIdByPrimaryEmail(req[s].e)
    OBVIOUS
  <1>4. req[s].e \in Emails /\ up
    BY <1>1 DEF Knows, Documents
  <1>5. /\ x \in 0..MaxUsers
        /\ Reliable => IF x = 0 THEN \A u \in Users : users[u].email # req[s].e
                       ELSE Live(x) /\ users[x].email = req[s].e
    BY <1>2, <1>3, <1>4, Lookup
  <1>6. Knows([pc |-> "recover", x |-> x] ++ req[s])
    BY <1>1, <1>5, ZenonT(60)
    DEF Knows, Fields, Documents, Migrating, Lookups, Verifying, Inserting, Generating, ++, Idle, Holder
  <1> QED BY <1>1, <1>2, <1>3, <1>6, Continues DEF RecoverLookup

\* ... and loads it: it is another account.
LEMMA RecoverFindGood ==
    ASSUME Inv, OneAtATime, NEW s \in Slots, RecoverFind(s) PROVE Good
  <1>1. Knows(req[s]) /\ req[s].pc = "recover" /\ Reads
    BY Facts DEF RecoverFind
  <1>2. InStep(req[s])
    BY <1>1 DEF InStep, Behind
  <1>3. Live(req[s].x) /\ req[s].x # req[s].doc.id => Knows([pc |-> "recrelease"] ++ req[s])
    <2>1. Live(req[s].x) => req[s].x \in Users
      BY <1>1 DEF Knows, Fields, Live, Users
    <2> QED
      BY <1>1, <2>1, ZenonT(60)
      DEF Knows, Fields, Documents, Migrating, Lookups, Verifying, Inserting, Generating, ++, Idle, Holder
  <1> QED BY <1>1, <1>2, <1>3, Answers, Continues DEF RecoverFind

\* login loads the account the address resolves to.
LEMMA LoginUserGood ==
    ASSUME Inv, OneAtATime, NEW s \in Slots, LoginUser(s) PROVE Good
  <1>1. Knows(req[s]) /\ req[s].pc = "loginuser" /\ Reads
    BY Facts DEF LoginUser
  <1>2. InStep(req[s])
    BY <1>1 DEF InStep, Behind
  <1>3. PICK d : d = Load(req[s].x)
    OBVIOUS
  <1>4. d \in Row /\ (d.newEmailPending # None => Live(req[s].x) /\ Current(d))
    BY <1>1, <1>3, Loaded DEF Knows, Fields, NoRow
  <1>5. d.newEmailPending = req[s].e /\ BothVerified(d) =>
            Knows([pc |-> "loginsave", doc |-> d] ++ req[s])
    <2>1. d.newEmailPending = req[s].e /\ BothVerified(d) =>
              Current(d) /\ users[d.id].newEmailPending = req[s].e /\ BothVerified(users[d.id])
      BY <1>4 DEF BothVerified, Current
    <2> QED
      BY <1>1, <1>4, <2>1, ZenonT(60)
      DEF Knows, Fields, Documents, Migrating, Lookups, Verifying, Inserting, Generating, ++, Idle
  <1> QED BY <1>1, <1>2, <1>3, <1>5, Answers, Continues DEF LoginUser

------------------------------------------------------------------------------
(* A migration starts, a link is opened, links are mailed *)

\* resendMigration,
LEMMA ResendMigrationGood ==
    ASSUME Inv, OneAtATime, NEW s \in Slots, NEW u \in Users, ResendMigration(s, u) PROVE Good
  <1>1. up /\ req[s].pc = "idle" /\ Reads
    BY DEF ResendMigration, Begin
  <1>2. PICK r : r = [Idle EXCEPT !.op = "resend"]
    OBVIOUS
  <1>3. Fields(r) /\ r.op = "resend" /\ r.cont = "idle"
    BY <1>2, Created
  <1>4. Load(u) \in Row /\ Current(Load(u)) /\ Load(u).newEmailPending # None /\ gen < MaxTokens
    BY Loaded, SMTT(30) DEF ResendMigration, Users, Authentic, CanGenerate
  <1>5. Knows([pc |-> "resendsave", doc |-> Load(u)] ++ r)
    BY <1>1, <1>3, <1>4, Zenon
    DEF Knows, Fields, Documents, Migrating, Lookups, Verifying, Inserting, Generating, ++, Idle
  <1> QED BY <1>1, <1>2, <1>5, Begins DEF ResendMigration

\* finalizeMigration,
LEMMA FinalizeMigrationGood ==
    ASSUME Inv, OneAtATime, NEW s \in Slots, NEW u \in Users, FinalizeMigration(s, u) PROVE Good
  <1>1. up /\ req[s].pc = "idle" /\ Reads
    BY DEF FinalizeMigration, Begin
  <1>2. PICK r : r = [Idle EXCEPT !.op = "finalise"]
    OBVIOUS
  <1>3. Fields(r) /\ r.op = "finalise" /\ r.cont = "idle"
    BY <1>2, Created
  <1>4. Load(u) \in Row /\ Current(Load(u)) /\ Load(u).id = u /\ BothVerified(users[u])
    BY Loaded, SMTT(30) DEF FinalizeMigration, Users, Authentic
  <1>5. Knows([pc |-> "finalise", doc |-> Load(u)] ++ r)
    BY <1>1, <1>3, <1>4, Zenon
    DEF Knows, Fields, Documents, Migrating, Lookups, Verifying, Inserting, Generating, ++, Idle
  <1> QED BY <1>1, <1>2, <1>5, Begins DEF FinalizeMigration

\* the daily clean-up of former addresses,
LEMMA CleanupExpiredGood ==
    ASSUME Inv, OneAtATime, NEW s \in Slots, NEW u \in Users, CleanupExpired(s, u) PROVE Good
  <1>1. up /\ req[s].pc = "idle" /\ Reads
    BY DEF CleanupExpired, Begin
  <1>2. PICK r : r = [Idle EXCEPT !.op = "cleanup"]
    OBVIOUS
  <1>3. Fields(r) /\ r.op = "cleanup" /\ r.cont = "idle"
    BY <1>2, Created
  <1>4. Load(u) \in Row /\ Current(Load(u))
    BY Loaded, SMTT(30) DEF CleanupExpired, Users
  <1>5. Knows([pc |-> "cleanup", doc |-> Load(u)] ++ r)
    BY <1>1, <1>3, <1>4, Zenon
    DEF Knows, Fields, Documents, Migrating, Lookups, Verifying, Inserting, Generating, ++, Idle
  <1> QED BY <1>1, <1>2, <1>5, Begins DEF CleanupExpired

\* login,
LEMMA LoginGood ==
    ASSUME Inv, OneAtATime, NEW s \in Slots, NEW e \in Emails, Login(s, e) PROVE Good
  <1>1. up /\ req[s].pc = "idle" /\ Reads
    BY DEF Login, Begin
  <1>2. PICK r : r = [Idle EXCEPT !.op = "login"]
    OBVIOUS
  <1>3. Fields(r) /\ r.op = "login" /\ r.cont = "idle"
    BY <1>2, Created
  <1>4. 1 \in 1..5 /\ 1 # 4 /\ 1 # 5
    OBVIOUS
  <1>5. Knows([pc |-> "resolve", k |-> 1, cont |-> "loginuser", e |-> e] ++ r)
    BY <1>1, <1>3, <1>4, ZenonT(60)
    DEF Knows, Fields, Documents, Migrating, Lookups, Verifying, Inserting, Generating, ++, Idle
  <1> QED BY <1>1, <1>2, <1>5, Begins DEF Login

\* and initiateMigration, which checks the cooldown first.
LEMMA InitiateMigrationGood ==
    ASSUME Inv, OneAtATime, NEW s \in Slots, NEW u \in Users, NEW e \in Emails,
           InitiateMigration(s, u, e)
    PROVE  Good
  <1>1. up /\ req[s].pc = "idle" /\ Reads
    BY DEF InitiateMigration, Begin
  <1>2. PICK r : r = [Idle EXCEPT !.op = "initiate"]
    OBVIOUS
  <1>3. Fields(r) /\ r.op = "initiate" /\ r.cont = "idle"
    BY <1>2, Created
  <1>4. PICK d : d = Load(u)
    OBVIOUS
  <1>5. d \in Row /\ Current(d) /\ d.id = u /\ gen < MaxTokens
    BY <1>4, Loaded DEF InitiateMigration, Users, Authentic, CanGenerate
  <1>6. /\ users[u].isEmailVerified /\ users[u].newEmailPending = None
        /\ movedAt[u] # 0 => now - movedAt[u] >= Cooldown
    <2>1. movedAt[u] <= users[u].lastMigrationDate /\ movedAt[u] \in Nat
      BY Facts DEF InitiateMigration, Authentic, Consistent, Inv, Types
    <2>2. now \in Nat /\ Cooldown \in Nat /\ users[u].lastMigrationDate \in Nat
      BY StoreAssumption, Facts, RowFields, SMTT(30) DEF Inv, Types, Ends
    <2> QED BY <2>1, <2>2 DEF InitiateMigration, Authentic, MayInitiate
  <1>7. /\ users[d.id].isEmailVerified /\ users[d.id].newEmailPending = None
        /\ movedAt[d.id] # 0 => now - movedAt[d.id] >= Cooldown
    BY <1>5, <1>6
  <1>8. \A yes : Knows([pc |-> "initlookup", doc |-> d, e |-> e, confirm |-> yes] ++ r)
    <2> SUFFICES ASSUME NEW yes, NEW q, q = [pc |-> "initlookup", doc |-> d, e |-> e, confirm |-> yes] ++ r
                 PROVE  Knows(q)
      OBVIOUS
    <2>1. /\ q.pc = "initlookup" /\ q.doc = d /\ q.e = e /\ q.op = "initiate" /\ q.cont = "idle"
          /\ Fields(q)
      BY <1>3, <1>5 DEF Fields, ++, Idle
    <2>2. Documents(q)
      BY <1>5, <2>1 DEF Documents
    <2>3. Migrating(q)
      BY <1>7, <2>1 DEF Migrating
    <2>4. Lookups(q) /\ Verifying(q) /\ ~Inserting(q)
      BY <2>1 DEF Lookups, Verifying, Inserting
    <2> QED BY <1>1, <1>5, <2>1, <2>2, <2>3, <2>4 DEF Knows, Generating
  <1> QED BY <1>1, <1>2, <1>4, <1>8, Begins DEF InitiateMigration

\* A link of a migration is opened: its holder proves that address.
LEMMA VerifyMigrationGood ==
    ASSUME Inv, OneAtATime, NEW s \in Slots, NEW l \in links, VerifyMigration(s, l) PROVE Good
  <1>1. /\ up /\ req[s].pc = "idle" /\ l.kind \in {"current", "new"} /\ Consume(l)
        /\ l \in Link
    BY DEF VerifyMigration, Begin, Inv, Types
  <1>2. PICK r : r = [Idle EXCEPT !.op = l.kind]
    OBVIOUS
  <1>3. Fields(r) /\ r.op = l.kind /\ r.cont = "idle"
    BY <1>2, Created
  <1>4. PICK q : q = [pc |-> "findmigration", link |-> l.secret] ++ r
    OBVIOUS
  <1>5. Knows(q)'
    <2>1. up' /\ l.secret # 0 /\ l \in opened'
      BY <1>1 DEF Consume, Inv, Mails, health
    <2>2. l.kind = "new" => nextId' <= MaxUsers
      BY <1>1, RoomForOne DEF VerifyMigration, Consume, store
    <2> QED
      BY <1>1, <1>3, <1>4, <2>1, <2>2
      DEF Knows, Fields, Documents, Migrating, Lookups, Verifying, Inserting, Generating, ++, Idle
  <1>6. InStep(req[s]) /\ req' = [req EXCEPT ![s] = q]
    BY <1>1, <1>2, <1>4 DEF InStep, Behind, VerifyMigration, Begin
  <1>7. Ownership!Next
    <2>1. l.u \in Users /\ l.to \in Emails
      BY <1>1 DEF Link
    <2>2. proved' = proved \cup {<<l.u, l.kind, l.to>>}
      BY <1>1 DEF Consume, proved
    <2>3. owner' = owner
      BY <1>1 DEF Consume, owner, store, Live
    <2>4. Ownership!Prove(l.u, l.kind, l.to)
      BY <2>2, <2>3 DEF Ownership!Prove, owner, proved
    <2> QED BY <1>1, <2>1, <2>4 DEF Ownership!Next
  <1>8. /\ gen' \in 0..MaxTokens /\ gen <= gen' /\ links' \subseteq links
        /\ links' \cup opened' = links \cup opened /\ opened \subseteq opened'
        /\ links \subseteq Link /\ opened \subseteq Link /\ \A m \in links : m.secret # 0
    BY <1>1 DEF Consume, Inv, Types, Mails
  <1>9. UNCHANGED <<store, now, health, movedAt>>
    BY <1>1 DEF Consume
  <1> QED BY <1>5, <1>6, <1>7, <1>8, <1>9, Posting

\* initiateMigration and resendMigration mail one link to each address.
LEMMA MigrationMailGood ==
    ASSUME Inv, OneAtATime, NEW s \in Slots, MigrationMail(s) PROVE Good
  <1>1. Knows(req[s]) /\ req[s].pc = "mailmigrate"
    BY Facts DEF MigrationMail
  <1>2. InStep(req[s])
    BY <1>1 DEF InStep, Behind
  <1> DEFINE d == req[s].sd
             To(kind, e) == [kind |-> kind, secret |-> d.migrationToken, u |-> d.id, to |-> e]
             batch == {To("current", d.email), To("new", d.newEmailPending)}
  <1>3. Current(d) /\ d.newEmailPending # None /\ d.migrationToken # 0
    BY <1>1 DEF Knows, Documents
  <1>4. /\ d.id \in Users /\ Live(d.id) /\ users[d.id] \in Row /\ users[d.id].id = d.id
        /\ d.migrationToken = users[d.id].migrationToken
        /\ d.email = users[d.id].email /\ d.newEmailPending = users[d.id].newEmailPending
        /\ Consistent(users[d.id])
    BY <1>3, Facts DEF Current
  <1>5. /\ d.migrationToken \in Secrets /\ d.migrationToken \in 0..(MaxTokens + 1)
        /\ d.email \in Emails /\ d.newEmailPending \in Emails
    BY <1>3, <1>4, RowFields, Zenon DEF Consistent, Live
  <1>6. ASSUME NEW l \in batch
        PROVE  /\ l \in Link /\ l.secret # 0 /\ l.secret \in Secrets
               /\ \A u \in Users : Live(u) => Tells(l, users[u])
    <2>1. ASSUME NEW u \in Users, Live(u) PROVE Tells(l, users[u])
      BY <1>3, <1>4, <2>1, SecretOf DEF Tells
    <2> QED BY <1>3, <1>4, <1>5, <2>1 DEF Link
  <1>7. Mail(batch) /\ Answer(s) /\ UNCHANGED <<store, gen, opened, now, health, movedAt>>
    BY DEF MigrationMail
  <1> HIDE DEF batch
  <1> QED BY <1>2, <1>6, <1>7, MailGood

------------------------------------------------------------------------------
(* Saves of a migration *)

\* A sequence with one entry replaced is a sequence of the same entries.
LEMMA Replaced ==
    ASSUME NEW S, NEW h \in Seq(S), NEW v \in S, NEW i
    PROVE  [h EXCEPT ![i] = v] \in Seq(S)
  <1>1. h \in [1..Len(h) -> S] /\ Len(h) \in Nat
    OBVIOUS
  <1>2. PICK g : g = [h EXCEPT ![i] = v]
    OBVIOUS
  <1>3. g \in [1..Len(h) -> S]
    BY <1>1, <1>2
  <1> QED BY <1>1, <1>2, <1>3

\* The history of the migrations stays a history.
LEMMA Histories ==
    ASSUME NEW e \in Emails, NEW h \in Seq(History)
    PROVE  /\ Append(h, Pending(e)) \in Seq(History)
           /\ MarkSuccess(h, e) \in Seq(History)
  <1>1. Pending(e) \in History /\ Success(e) \in History
    BY DEF Pending, Success, History
  <1>2. PICK i : i = SelectInSeq(h, LAMBDA m : m.status = "pending" /\ m.to = e)
    OBVIOUS
  <1>3. MarkSuccess(h, e) = IF i = 0 THEN Append(h, Success(e)) ELSE [h EXCEPT ![i] = Success(e)]
    BY <1>2 DEF MarkSuccess
  <1>4. [h EXCEPT ![i] = Success(e)] \in Seq(History)
    BY <1>1, Replaced
  <1> QED BY <1>1, <1>3, <1>4

\* initiateMigration saves the pending address and a new secret.
LEMMA InitiateSaveGood ==
    ASSUME Inv, OneAtATime, NEW s \in Slots, InitiateSave(s) PROVE Good
  <1>1. /\ Knows(req[s]) /\ Fields(req[s]) /\ req[s].pc = "initsave" /\ up
        /\ Current(req[s].doc) /\ req[s].doc \in Row /\ req[s].keep \in Row
        /\ req[s].e \in Emails /\ req[s].e # None /\ gen < MaxTokens
        /\ users[req[s].doc.id].isEmailVerified
        /\ movedAt[req[s].doc.id] # 0 => now - movedAt[req[s].doc.id] >= Cooldown
        /\ Reliable => users[req[s].doc.id].email # req[s].e
    <2>1. Knows(req[s]) /\ Fields(req[s]) /\ req[s].pc = "initsave" /\ up
      BY Facts DEF InitiateSave
    <2>2. Current(req[s].doc) /\ req[s].doc \in Row /\ req[s].keep \in Row
      BY <2>1, StoreAssumption DEF Knows, Documents, Fields
    <2>3. req[s].e \in Emails
      BY <2>1, <2>2, StoreAssumption DEF Knows, Documents, Migrating, Lookups, Verifying, Generating
    <2>4. req[s].e # None
      BY <2>1, <2>2, StoreAssumption DEF Knows, Documents, Migrating, Lookups, Verifying, Generating
    <2>5. gen < MaxTokens
      BY <2>1, <2>2, StoreAssumption DEF Knows, Documents, Migrating, Lookups, Verifying, Generating
    <2>6. users[req[s].doc.id].isEmailVerified
      BY <2>1, <2>2, StoreAssumption DEF Knows, Documents, Migrating, Lookups, Verifying, Generating
    <2>7. movedAt[req[s].doc.id] # 0 => now - movedAt[req[s].doc.id] >= Cooldown
      BY <2>1, <2>2, StoreAssumption DEF Knows, Documents, Migrating, Lookups, Verifying, Generating
    <2>8. Reliable => users[req[s].doc.id].email # req[s].e
      BY <2>1, <2>2, StoreAssumption DEF Knows, Documents, Migrating, Lookups, Verifying, Generating
    <2> QED BY <2>1, <2>2, <2>3, <2>4, <2>5, <2>6, <2>7, <2>8
  <1>2. PICK u : u = req[s].doc.id
    OBVIOUS
  <1>3. PICK w : w = [newEmailPending |-> req[s].e, migrationToken |-> Fresh,
                      migrationTokenExpires |-> now + TokenTtl,
                      currentEmailVerified |-> FALSE, newEmailVerified |-> FALSE,
                      migrationHistory |-> Append(req[s].doc.migrationHistory, Pending(req[s].e))]
    OBVIOUS
  <1>4. DOMAIN w \subseteq DOMAIN NoRow \ {"id"}
    BY <1>3 DEF NoRow, Fresh
  <1>5. PICK r, q : /\ u \in Users /\ Live(u) /\ r.id = u
                    /\ Overlaid(r, w, users[u])
                    /\ Syncs(q, r, "mailmigrate", req[s])
                    /\ Writes(s, r, q, "idle")
    <2>1. SaveAndSync(s, w, "mailmigrate", "idle")
      BY <1>3 DEF InitiateSave
    <2> QED BY <1>1, <1>2, <1>4, <2>1, SaveStep
  <1>6. /\ users[u] \in Row /\ Consistent(users[u]) /\ users[u].id = u
        /\ LET d == req[s].doc IN
            /\ d.email = users[u].email /\ d.isEmailVerified = users[u].isEmailVerified
            /\ d.provider = users[u].provider /\ d.bio = users[u].bio
            /\ d.newEmailPending = users[u].newEmailPending
    BY <1>1, <1>2, <1>5, Facts DEF Current
  <1>7. /\ r.email = users[u].email
        /\ r.isEmailVerified = users[u].isEmailVerified
        /\ r.password = users[u].password
        /\ r.provider = users[u].provider
        /\ r.emailVerificationToken = users[u].emailVerificationToken
        /\ r.emailVerificationExpires = users[u].emailVerificationExpires
        /\ r.previousEmail = users[u].previousEmail
        /\ r.migrationExpiry = users[u].migrationExpiry
        /\ r.newEmailPending = req[s].e
        /\ r.migrationToken = gen + 1
        /\ r.migrationTokenExpires = now + TokenTtl
        /\ r.currentEmailVerified = FALSE
        /\ r.newEmailVerified = FALSE
        /\ r.lastMigrationDate = users[u].lastMigrationDate
        /\ r.tokenVersion = users[u].tokenVersion
        /\ r.migrationHistory = Append(req[s].doc.migrationHistory, Pending(req[s].e))
        /\ r.bio = users[u].bio
    BY <1>1, <1>3, <1>5 DEF NoRow, Overlaid, Fresh
  <1>7a. r \in Row
    <2>1. r.migrationHistory \in Seq(History)
      <3>1. req[s].doc.migrationHistory \in Seq(History)
        BY <1>1, RowFields
      <3> QED BY <1>1, <1>7, <3>1, Histories
    <2>2. /\ {0, now, now + TokenTtl, now + GraceTtl} \subseteq Ends
          /\ {0, gen + 1} \subseteq 0..(MaxTokens + 1)
      BY Deadlines
    <2>2a. /\ r.id \in 0..MaxUsers /\ r.email \in Emails \cup {None} /\ r.isEmailVerified \in BOOLEAN
           /\ r.password \in BOOLEAN /\ r.provider \in OAuthIds \cup {Local}
           /\ r.emailVerificationToken \in 0..(MaxTokens + 1) /\ r.emailVerificationExpires \in Ends
           /\ r.previousEmail \in Emails \cup {None} /\ r.migrationExpiry \in Ends
           /\ r.newEmailPending \in Emails \cup {None} /\ r.migrationToken \in 0..(MaxTokens + 1)
           /\ r.migrationTokenExpires \in Ends /\ r.currentEmailVerified \in BOOLEAN
           /\ r.newEmailVerified \in BOOLEAN /\ r.lastMigrationDate \in Ends
           /\ r.tokenVersion \in Nat /\ r.bio \in {"old", "new"}
      BY <1>1, <1>5, <1>6, <1>7, <2>2, RowFields, AccountsAssumption
    <2> QED BY <1>5, <2>1, <2>2a, RowIntro DEF Overlaid
  <1>8. ~Duplicate(r)
    BY <1>1, <1>5, <1>6, <1>7, NotDuplicate
  <1>9. req' = [req EXCEPT ![s] = q] /\ WriteRow(r) /\ gen' = gen + 1 /\ UNCHANGED <<links, opened>>
    BY <1>5, <1>8 DEF InitiateSave, Writes, Fresh
  <1>9a. gen' \in 0..MaxTokens /\ (gen' = gen \/ gen' = gen + 1) /\ gen <= gen'
    BY <1>1, <1>9, Deadlines DEF post
  <1>9b. /\ links' = links /\ opened' \subseteq Link /\ opened \subseteq opened' /\ proved' = proved
         /\ \A l \in opened' : l \notin opened => l.secret = 0
    BY <1>9 DEF post, proved, Inv, Types
  <1>10. UNCHANGED <<nextId, now, up>> /\ movedAt'[u] = movedAt[u] /\ Current(r)' /\ r.email # None
    <2>1. r.email # None
      BY <1>1, <1>5, <1>7, StoreAssumption DEF Live
    <2>2. WriteRow(r)
      BY <1>9
    <2>3. /\ movedAt'[u] = IF r.email # users[u].email THEN now ELSE movedAt[u]
          /\ UNCHANGED <<nextId, now, up>> /\ Current(r)'
      BY <1>5, <1>7a, <2>1, <2>2, Written
    <2> QED BY <1>7, <2>1, <2>3
  <1>11. Consistent(r)'
    <2>1. /\ \A kind, v, e : Used(kind, v, e) => Used(kind, v, e)'
          /\ \A e : Proved(e) => Proved(e)'
          /\ Secrets \subseteq Secrets'
          /\ gen' = gen + 1 => gen + 1 \in Secrets'
      BY <1>9a, <1>9b, StillUsed
    <2> QED
      BY <1>1, <1>2, <1>5, <1>6, <1>7, <1>9, <1>10, <2>1, ZenonT(60) DEF Consistent, Trusted, Reliable
  <1>12. Knows(q)' /\ Behind(q, u) /\ \A v \in Users : Behind(q, v) => v = u
    <2>1. q = ([doc |-> r] ++ SyncFrom(r, "mailmigrate")) ++ req[s]
      BY <1>5 DEF Syncs
    <2>2. /\ Fields(q) /\ q.pc = "sync" /\ q.cont = "mailmigrate" /\ q.sd = r /\ q.doc = r
          /\ q.op = req[s].op /\ q.e = req[s].e /\ q.x = req[s].x /\ q.keep = req[s].keep
          /\ \A v : Behind(q, v) <=> v = u
      BY <1>1, <1>5, <1>7a, <1>10, <2>1, SyncShape DEF Continuations
    <2>3. Documents(q)' /\ Migrating(q)' /\ (Reliable => Lookups(q)')
      BY <1>1, <1>2, <1>6, <1>7, <1>10, <2>2, Deadlines, ZenonT(60) DEF Documents, Migrating, Lookups
    <2> QED BY <1>1, <1>5, <1>7a, <1>10, <2>1, <2>2, <2>3, SyncKnows DEF Continuations
  <1>13. /\ \A v \in Users \ {u} : ~Behind(req[s], v)
         /\ Behind(q, u)
    BY <1>1, <1>2, <1>5, <1>12 DEF Behind
  <1>14. /\ \/ r.migrationToken = 0 \/ r.migrationToken \in (gen + 1)..gen'
            \/ /\ r.migrationToken = users[u].migrationToken
               /\ r.email = users[u].email /\ r.newEmailPending = users[u].newEmailPending
         /\ \/ r.emailVerificationToken = 0 \/ r.emailVerificationToken \in (gen + 1)..gen'
            \/ /\ r.emailVerificationToken = users[u].emailVerificationToken
               /\ \/ r.provider # Local
                  \/ r.provider = users[u].provider /\ r.email = users[u].email
    BY <1>1, <1>6, <1>7, <1>9, Deadlines
  <1>15. users[u].isEmailVerified \/ r.email # users[u].email => r.isEmailVerified
    BY <1>1, <1>2, <1>6, <1>7, Zenon
  <1>16. r.email # users[u].email =>
            /\ movedAt[u] # 0 => now - movedAt[u] >= Cooldown
            /\ Reliable => Used("current", u, users[u].email) /\ Used("new", u, r.email)
    BY <1>7
  <1>17. r.bio = users[u].bio \/ At(s, "savebio")
    BY <1>1, <1>6, <1>7
  <1>18. req' = [req EXCEPT ![s] = q] /\ WriteRow(r)
    BY <1>9
  <1> QED
    BY <1>5, <1>7, <1>7a, <1>8, <1>9a, <1>9b, <1>10, <1>11, <1>12, <1>13, <1>14, <1>15, <1>16, <1>17,
       <1>18, Writing

\* resendMigration saves a new secret: the links mailed before say nothing.
LEMMA ResendSaveGood ==
    ASSUME Inv, OneAtATime, NEW s \in Slots, ResendSave(s) PROVE Good
  <1>1. /\ Knows(req[s]) /\ Fields(req[s]) /\ req[s].pc = "resendsave" /\ up
        /\ Current(req[s].doc) /\ req[s].doc \in Row /\ req[s].keep \in Row
        /\ req[s].doc.newEmailPending # None /\ gen < MaxTokens
    <2>1. Knows(req[s]) /\ Fields(req[s]) /\ req[s].pc = "resendsave" /\ up
      BY Facts DEF ResendSave
    <2>2. Current(req[s].doc) /\ req[s].doc \in Row /\ req[s].keep \in Row
      BY <2>1, StoreAssumption DEF Knows, Documents, Fields
    <2>3. req[s].doc.newEmailPending # None
      BY <2>1, <2>2, StoreAssumption DEF Knows, Documents, Migrating, Lookups, Verifying, Generating
    <2>4. gen < MaxTokens
      BY <2>1, <2>2, StoreAssumption DEF Knows, Documents, Migrating, Lookups, Verifying, Generating
    <2> QED BY <2>1, <2>2, <2>3, <2>4
  <1>2. PICK u : u = req[s].doc.id
    OBVIOUS
  <1>3. PICK w : w = [migrationToken |-> Fresh, migrationTokenExpires |-> now + TokenTtl,
                      migrationHistory |-> req[s].doc.migrationHistory]
    OBVIOUS
  <1>4. DOMAIN w \subseteq DOMAIN NoRow \ {"id"}
    BY <1>3 DEF NoRow, Fresh
  <1>5. PICK r, q : /\ u \in Users /\ Live(u) /\ r.id = u
                    /\ Overlaid(r, w, users[u])
                    /\ Syncs(q, r, "mailmigrate", req[s])
                    /\ Writes(s, r, q, "idle")
    <2>1. SaveAndSync(s, w, "mailmigrate", "idle")
      BY <1>3 DEF ResendSave
    <2> QED BY <1>1, <1>2, <1>4, <2>1, SaveStep
  <1>6. /\ users[u] \in Row /\ Consistent(users[u]) /\ users[u].id = u
        /\ LET d == req[s].doc IN
            /\ d.email = users[u].email /\ d.isEmailVerified = users[u].isEmailVerified
            /\ d.provider = users[u].provider /\ d.bio = users[u].bio
            /\ d.newEmailPending = users[u].newEmailPending
    BY <1>1, <1>2, <1>5, Facts DEF Current
  <1>7. /\ r.email = users[u].email
        /\ r.isEmailVerified = users[u].isEmailVerified
        /\ r.password = users[u].password
        /\ r.provider = users[u].provider
        /\ r.emailVerificationToken = users[u].emailVerificationToken
        /\ r.emailVerificationExpires = users[u].emailVerificationExpires
        /\ r.previousEmail = users[u].previousEmail
        /\ r.migrationExpiry = users[u].migrationExpiry
        /\ r.newEmailPending = users[u].newEmailPending
        /\ r.migrationToken = gen + 1
        /\ r.migrationTokenExpires = now + TokenTtl
        /\ r.currentEmailVerified = users[u].currentEmailVerified
        /\ r.newEmailVerified = users[u].newEmailVerified
        /\ r.lastMigrationDate = users[u].lastMigrationDate
        /\ r.tokenVersion = users[u].tokenVersion
        /\ r.migrationHistory = req[s].doc.migrationHistory
        /\ r.bio = users[u].bio
    BY <1>1, <1>3, <1>5 DEF NoRow, Overlaid, Fresh
  <1>7a. r \in Row
    <2>1. r.migrationHistory \in Seq(History)
      BY <1>1, <1>7, RowFields
    <2>2. /\ {0, now, now + TokenTtl, now + GraceTtl} \subseteq Ends
          /\ {0, gen + 1} \subseteq 0..(MaxTokens + 1)
      BY Deadlines
    <2>2a. /\ r.id \in 0..MaxUsers /\ r.email \in Emails \cup {None} /\ r.isEmailVerified \in BOOLEAN
           /\ r.password \in BOOLEAN /\ r.provider \in OAuthIds \cup {Local}
           /\ r.emailVerificationToken \in 0..(MaxTokens + 1) /\ r.emailVerificationExpires \in Ends
           /\ r.previousEmail \in Emails \cup {None} /\ r.migrationExpiry \in Ends
           /\ r.newEmailPending \in Emails \cup {None} /\ r.migrationToken \in 0..(MaxTokens + 1)
           /\ r.migrationTokenExpires \in Ends /\ r.currentEmailVerified \in BOOLEAN
           /\ r.newEmailVerified \in BOOLEAN /\ r.lastMigrationDate \in Ends
           /\ r.tokenVersion \in Nat /\ r.bio \in {"old", "new"}
      BY <1>1, <1>5, <1>6, <1>7, <2>2, RowFields, AccountsAssumption
    <2> QED BY <1>5, <2>1, <2>2a, RowIntro DEF Overlaid
  <1>8. ~Duplicate(r)
    BY <1>1, <1>5, <1>6, <1>7, NotDuplicate
  <1>9. req' = [req EXCEPT ![s] = q] /\ WriteRow(r) /\ gen' = gen + 1 /\ UNCHANGED <<links, opened>>
    BY <1>5, <1>8 DEF ResendSave, Writes, Fresh
  <1>9a. gen' \in 0..MaxTokens /\ (gen' = gen \/ gen' = gen + 1) /\ gen <= gen'
    BY <1>1, <1>9, Deadlines DEF post
  <1>9b. /\ links' = links /\ opened' \subseteq Link /\ opened \subseteq opened' /\ proved' = proved
         /\ \A l \in opened' : l \notin opened => l.secret = 0
    BY <1>9 DEF post, proved, Inv, Types
  <1>10. UNCHANGED <<nextId, now, up>> /\ movedAt'[u] = movedAt[u] /\ Current(r)' /\ r.email # None
    <2>1. r.email # None
      BY <1>1, <1>5, <1>7, StoreAssumption DEF Live
    <2>2. WriteRow(r)
      BY <1>9
    <2>3. /\ movedAt'[u] = IF r.email # users[u].email THEN now ELSE movedAt[u]
          /\ UNCHANGED <<nextId, now, up>> /\ Current(r)'
      BY <1>5, <1>7a, <2>1, <2>2, Written
    <2> QED BY <1>7, <2>1, <2>3
  <1>11. Consistent(r)'
    <2>1. /\ \A kind, v, e : Used(kind, v, e) => Used(kind, v, e)'
          /\ \A e : Proved(e) => Proved(e)'
          /\ Secrets \subseteq Secrets'
          /\ gen' = gen + 1 => gen + 1 \in Secrets'
      BY <1>9a, <1>9b, StillUsed
    <2> QED
      BY <1>1, <1>2, <1>5, <1>6, <1>7, <1>9, <1>10, <2>1, ZenonT(60) DEF Consistent, Trusted, Reliable
  <1>12. Knows(q)' /\ Behind(q, u) /\ \A v \in Users : Behind(q, v) => v = u
    <2>1. q = ([doc |-> r] ++ SyncFrom(r, "mailmigrate")) ++ req[s]
      BY <1>5 DEF Syncs
    <2>2. /\ Fields(q) /\ q.pc = "sync" /\ q.cont = "mailmigrate" /\ q.sd = r /\ q.doc = r
          /\ q.op = req[s].op /\ q.e = req[s].e /\ q.x = req[s].x /\ q.keep = req[s].keep
          /\ \A v : Behind(q, v) <=> v = u
      BY <1>1, <1>5, <1>7a, <1>10, <2>1, SyncShape, SMTT(30) DEF Continuations
    <2>3. Documents(q)' /\ Migrating(q)' /\ (Reliable => Lookups(q)')
      BY <1>1, <1>2, <1>6, <1>7, <1>10, <2>2, Deadlines, ZenonT(60) DEF Documents, Migrating, Lookups
    <2> QED BY <1>1, <1>5, <1>7a, <1>10, <2>1, <2>2, <2>3, SyncKnows DEF Continuations
  <1>13. /\ \A v \in Users \ {u} : ~Behind(req[s], v)
         /\ Behind(q, u)
    BY <1>1, <1>2, <1>5, <1>12 DEF Behind
  <1>14. /\ \/ r.migrationToken = 0 \/ r.migrationToken \in (gen + 1)..gen'
            \/ /\ r.migrationToken = users[u].migrationToken
               /\ r.email = users[u].email /\ r.newEmailPending = users[u].newEmailPending
         /\ \/ r.emailVerificationToken = 0 \/ r.emailVerificationToken \in (gen + 1)..gen'
            \/ /\ r.emailVerificationToken = users[u].emailVerificationToken
               /\ \/ r.provider # Local
                  \/ r.provider = users[u].provider /\ r.email = users[u].email
    BY <1>1, <1>6, <1>7, <1>9, Deadlines
  <1>15. users[u].isEmailVerified \/ r.email # users[u].email => r.isEmailVerified
    BY <1>1, <1>2, <1>6, <1>7, Zenon
  <1>16. r.email # users[u].email =>
            /\ movedAt[u] # 0 => now - movedAt[u] >= Cooldown
            /\ Reliable => Used("current", u, users[u].email) /\ Used("new", u, r.email)
    BY <1>7
  <1>17. r.bio = users[u].bio \/ At(s, "savebio")
    BY <1>1, <1>6, <1>7
  <1>18. req' = [req EXCEPT ![s] = q] /\ WriteRow(r)
    BY <1>9
  <1> QED
    BY <1>5, <1>7, <1>7a, <1>8, <1>9a, <1>9b, <1>10, <1>11, <1>12, <1>13, <1>14, <1>15, <1>16, <1>17,
       <1>18, Writing

\* The link to one of the two addresses was used: its flag is saved.
LEMMA VerifyMigrationSaveGood ==
    ASSUME Inv, OneAtATime, NEW s \in Slots, VerifyMigrationSave(s) PROVE Good
  <1>1. /\ Knows(req[s]) /\ Fields(req[s]) /\ req[s].pc = "saveverified" /\ up
        /\ Current(req[s].doc) /\ req[s].doc \in Row /\ req[s].keep \in Row
        /\ users[req[s].doc.id].newEmailPending # None
        /\ IF req[s].op = "new" THEN Used("new", req[s].doc.id, users[req[s].doc.id].newEmailPending) ELSE Used("current", req[s].doc.id, users[req[s].doc.id].email)
    <2>1. Knows(req[s]) /\ Fields(req[s]) /\ req[s].pc = "saveverified" /\ up
      BY Facts DEF VerifyMigrationSave
    <2>2. Current(req[s].doc) /\ req[s].doc \in Row /\ req[s].keep \in Row
      BY <2>1, StoreAssumption DEF Knows, Documents, Fields
    <2>3. users[req[s].doc.id].newEmailPending # None
      BY <2>1, <2>2, StoreAssumption DEF Knows, Documents, Migrating, Lookups, Verifying, Generating
    <2>4. IF req[s].op = "new" THEN Used("new", req[s].doc.id, users[req[s].doc.id].newEmailPending) ELSE Used("current", req[s].doc.id, users[req[s].doc.id].email)
      BY <2>1, <2>2, StoreAssumption DEF Knows, Documents, Migrating, Lookups, Verifying, Generating
    <2> QED BY <2>1, <2>2, <2>3, <2>4
  <1>2. PICK u : u = req[s].doc.id
    OBVIOUS
  <1>3. PICK w : w = (IF req[s].op = "new" THEN [newEmailVerified |-> TRUE]
                           ELSE [currentEmailVerified |-> TRUE])
                      ++ [migrationHistory |-> req[s].doc.migrationHistory]
    OBVIOUS
  <1>4. DOMAIN w \subseteq DOMAIN NoRow \ {"id"}
    BY <1>3 DEF NoRow, ++
  <1>5. PICK r, q : /\ u \in Users /\ Live(u) /\ r.id = u
                    /\ Overlaid(r, w, users[u])
                    /\ q = [pc |-> "readhistory", doc |-> r] ++ req[s]
                    /\ Writes(s, r, q, "idle")
    <2>1. u \in Users /\ Live(u) /\ users[u] \in Row /\ users[u].id = u
      BY <1>1, <1>2, Facts DEF Current
    <2>2. PICK r : r = w ++ users[u]
      OBVIOUS
    <2>3. PICK q : q = [pc |-> "readhistory", doc |-> r] ++ req[s]
      OBVIOUS
    <2>4. Writes(s, r, q, "idle")
      BY <1>2, <1>3, <2>1, <2>2, <2>3 DEF VerifyMigrationSave, Save, Updated, Goto, Writes
    <2>5. Overlaid(r, w, users[u])
      BY <1>4, <2>1, <2>2, Merged DEF Overlaid
    <2>6. r.id = u
      BY <1>4, <2>1, <2>5 DEF NoRow, Overlaid
    <2> QED BY <2>1, <2>3, <2>4, <2>5, <2>6
  <1>6. /\ users[u] \in Row /\ Consistent(users[u]) /\ users[u].id = u
        /\ LET d == req[s].doc IN
            /\ d.email = users[u].email /\ d.isEmailVerified = users[u].isEmailVerified
            /\ d.provider = users[u].provider /\ d.bio = users[u].bio
            /\ d.newEmailPending = users[u].newEmailPending
    BY <1>1, <1>2, <1>5, Facts DEF Current
  <1>7. /\ r.email = users[u].email
        /\ r.isEmailVerified = users[u].isEmailVerified
        /\ r.password = users[u].password
        /\ r.provider = users[u].provider
        /\ r.emailVerificationToken = users[u].emailVerificationToken
        /\ r.emailVerificationExpires = users[u].emailVerificationExpires
        /\ r.previousEmail = users[u].previousEmail
        /\ r.migrationExpiry = users[u].migrationExpiry
        /\ r.newEmailPending = users[u].newEmailPending
        /\ r.migrationToken = users[u].migrationToken
        /\ r.migrationTokenExpires = users[u].migrationTokenExpires
        /\ r.currentEmailVerified = IF req[s].op = "new" THEN users[u].currentEmailVerified ELSE TRUE
        /\ r.newEmailVerified = IF req[s].op = "new" THEN TRUE ELSE users[u].newEmailVerified
        /\ r.lastMigrationDate = users[u].lastMigrationDate
        /\ r.tokenVersion = users[u].tokenVersion
        /\ r.migrationHistory = req[s].doc.migrationHistory
        /\ r.bio = users[u].bio
    BY <1>1, <1>3, <1>5 DEF NoRow, Overlaid, ++
  <1>7a. r \in Row
    <2>1. r.migrationHistory \in Seq(History)
      BY <1>1, <1>7, RowFields
    <2>2. /\ {0, now, now + TokenTtl, now + GraceTtl} \subseteq Ends
          /\ {0, gen + 1} \subseteq 0..(MaxTokens + 1)
      BY Deadlines
    <2>2a. /\ r.id \in 0..MaxUsers /\ r.email \in Emails \cup {None} /\ r.isEmailVerified \in BOOLEAN
           /\ r.password \in BOOLEAN /\ r.provider \in OAuthIds \cup {Local}
           /\ r.emailVerificationToken \in 0..(MaxTokens + 1) /\ r.emailVerificationExpires \in Ends
           /\ r.previousEmail \in Emails \cup {None} /\ r.migrationExpiry \in Ends
           /\ r.newEmailPending \in Emails \cup {None} /\ r.migrationToken \in 0..(MaxTokens + 1)
           /\ r.migrationTokenExpires \in Ends /\ r.currentEmailVerified \in BOOLEAN
           /\ r.newEmailVerified \in BOOLEAN /\ r.lastMigrationDate \in Ends
           /\ r.tokenVersion \in Nat /\ r.bio \in {"old", "new"}
      BY <1>1, <1>5, <1>6, <1>7, <2>2, RowFields, AccountsAssumption
    <2> QED BY <1>5, <2>1, <2>2a, RowIntro DEF Overlaid
  <1>8. ~Duplicate(r)
    BY <1>1, <1>5, <1>6, <1>7, NotDuplicate
  <1>9. req' = [req EXCEPT ![s] = q] /\ WriteRow(r) /\ UNCHANGED post
    BY <1>5, <1>8 DEF VerifyMigrationSave, Writes, Fresh
  <1>9a. gen' \in 0..MaxTokens /\ (gen' = gen \/ gen' = gen + 1) /\ gen <= gen'
    BY <1>1, <1>9, Deadlines DEF post
  <1>9b. /\ links' = links /\ opened' \subseteq Link /\ opened \subseteq opened' /\ proved' = proved
         /\ \A l \in opened' : l \notin opened => l.secret = 0
    BY <1>9 DEF post, proved, Inv, Types
  <1>10. UNCHANGED <<nextId, now, up>> /\ movedAt'[u] = movedAt[u] /\ Current(r)' /\ r.email # None
    <2>1. r.email # None
      BY <1>1, <1>5, <1>7, StoreAssumption DEF Live
    <2>2. WriteRow(r)
      BY <1>9
    <2>3. /\ movedAt'[u] = IF r.email # users[u].email THEN now ELSE movedAt[u]
          /\ UNCHANGED <<nextId, now, up>> /\ Current(r)'
      BY <1>5, <1>7a, <2>1, <2>2, Written
    <2> QED BY <1>7, <2>1, <2>3
  <1>11. Consistent(r)'
    <2>1. /\ \A kind, v, e : Used(kind, v, e) => Used(kind, v, e)'
          /\ \A e : Proved(e) => Proved(e)'
          /\ Secrets \subseteq Secrets'
          /\ gen' = gen + 1 => gen + 1 \in Secrets'
      BY <1>9a, <1>9b, StillUsed
    <2> QED
      BY <1>1, <1>2, <1>5, <1>6, <1>7, <1>9, <1>10, <2>1, ZenonT(60) DEF Consistent, Trusted, Reliable
  <1>12. Knows(q)'
    <2>1. /\ q.pc = "readhistory" /\ DOMAIN q = DOMAIN Idle /\ q.cont = req[s].cont /\ q.k = req[s].k
          /\ q.op = req[s].op /\ q.e = req[s].e /\ q.x = req[s].x /\ q.keep = req[s].keep
          /\ q.id = req[s].id /\ q.link = req[s].link /\ q.doc = r /\ q.sd = req[s].sd
      BY <1>1, <1>5 DEF Fields, ++, Idle
    <2>2. Fields(q)'
      BY <1>1, <1>7a, <2>1 DEF Fields
    <2>3. Documents(q)' /\ Migrating(q)' /\ (Reliable => Lookups(q)') /\ Verifying(q)'
      BY <1>1, <1>2, <1>6, <1>7, <1>10, <2>1, Deadlines, Zenon DEF Documents, Migrating, Lookups, Verifying
    <2> QED BY <1>1, <1>10, <2>1, <2>2, <2>3 DEF Knows, Inserting, Generating, Reliable
  <1>13. /\ \A v \in Users \ {u} : ~Behind(req[s], v)
         /\ ~Behind(req[s], u)
    BY <1>1, <1>2, <1>5, <1>12 DEF Behind
  <1>14. /\ \/ r.migrationToken = 0 \/ r.migrationToken \in (gen + 1)..gen'
            \/ /\ r.migrationToken = users[u].migrationToken
               /\ r.email = users[u].email /\ r.newEmailPending = users[u].newEmailPending
         /\ \/ r.emailVerificationToken = 0 \/ r.emailVerificationToken \in (gen + 1)..gen'
            \/ /\ r.emailVerificationToken = users[u].emailVerificationToken
               /\ \/ r.provider # Local
                  \/ r.provider = users[u].provider /\ r.email = users[u].email
    BY <1>1, <1>6, <1>7, <1>9, Deadlines
  <1>15. users[u].isEmailVerified \/ r.email # users[u].email => r.isEmailVerified
    BY <1>1, <1>2, <1>6, <1>7, Zenon
  <1>16. r.email # users[u].email =>
            /\ movedAt[u] # 0 => now - movedAt[u] >= Cooldown
            /\ Reliable => Used("current", u, users[u].email) /\ Used("new", u, r.email)
    BY <1>7
  <1>17. r.bio = users[u].bio \/ At(s, "savebio")
    BY <1>1, <1>6, <1>7
  <1>18. req' = [req EXCEPT ![s] = q] /\ WriteRow(r)
    BY <1>9
  <1> QED
    BY <1>5, <1>7, <1>7a, <1>8, <1>9a, <1>9b, <1>10, <1>11, <1>12, <1>13, <1>14, <1>15, <1>16, <1>17,
       <1>18, Writing

\* login with the new address finalises a migration with both links used.
LEMMA LoginSaveGood ==
    ASSUME Inv, OneAtATime, NEW s \in Slots, LoginSave(s) PROVE Good
  <1>1. /\ Knows(req[s]) /\ Fields(req[s]) /\ req[s].pc = "loginsave" /\ up
        /\ Current(req[s].doc) /\ req[s].doc \in Row /\ req[s].keep \in Row
        /\ BothVerified(users[req[s].doc.id])
        /\ users[req[s].doc.id].newEmailPending = req[s].e
        /\ req[s].e \in Emails /\ req[s].e # None
    <2>1. Knows(req[s]) /\ Fields(req[s]) /\ req[s].pc = "loginsave" /\ up
      BY Facts DEF LoginSave
    <2>2. Current(req[s].doc) /\ req[s].doc \in Row /\ req[s].keep \in Row
      BY <2>1, StoreAssumption DEF Knows, Documents, Fields
    <2>3. BothVerified(users[req[s].doc.id])
      BY <2>1, <2>2, StoreAssumption DEF Knows, Documents, Migrating, Lookups, Verifying, Generating
    <2>4. users[req[s].doc.id].newEmailPending = req[s].e
      BY <2>1, <2>2, StoreAssumption DEF Knows, Documents, Migrating, Lookups, Verifying, Generating
    <2>5. req[s].e \in Emails
      BY <2>1, <2>2, StoreAssumption DEF Knows, Documents, Migrating, Lookups, Verifying, Generating
    <2>6. req[s].e # None
      BY <2>1, <2>2, StoreAssumption DEF Knows, Documents, Migrating, Lookups, Verifying, Generating
    <2> QED BY <2>1, <2>2, <2>3, <2>4, <2>5, <2>6
  <1>2. PICK u : u = req[s].doc.id
    OBVIOUS
  <1>3. PICK w : w = Moved(req[s].doc, req[s].doc.newEmailPending)
                      ++ [migrationHistory |-> req[s].doc.migrationHistory]
    OBVIOUS
  <1>4. DOMAIN w \subseteq DOMAIN NoRow \ {"id"}
    BY <1>3 DEF NoRow, Moved, ++
  <1>5. PICK r, q : /\ u \in Users /\ Live(u) /\ r.id = u
                    /\ Overlaid(r, w, users[u])
                    /\ Syncs(q, r, "idle", req[s])
                    /\ Writes(s, r, q, "idle")
    <2>1. SaveAndSync(s, w, "idle", "idle")
      BY <1>3, SMTT(30) DEF LoginSave
    <2> QED BY <1>1, <1>2, <1>4, <2>1, SaveStep
  <1>6. /\ users[u] \in Row /\ Consistent(users[u]) /\ users[u].id = u
        /\ LET d == req[s].doc IN
            /\ d.email = users[u].email /\ d.isEmailVerified = users[u].isEmailVerified
            /\ d.provider = users[u].provider /\ d.bio = users[u].bio
            /\ d.newEmailPending = users[u].newEmailPending
        /\ users[u].currentEmailVerified /\ users[u].newEmailVerified
        /\ users[u].isEmailVerified /\ users[u].newEmailPending = req[s].e
        /\ Used("current", u, users[u].email) /\ Used("new", u, req[s].e)
        /\ users[u].provider = Local => users[u].emailVerificationToken = 0
        /\ movedAt[u] # 0 => now - movedAt[u] >= Cooldown
        /\ movedAt[u] <= now /\ now <= now
        /\ Reliable => req[s].e # users[u].email
    <2>1. users[u] \in Row /\ Consistent(users[u]) /\ users[u].id = u
      BY <1>1, <1>2, <1>5, Facts
    <2>2. now \in Nat /\ movedAt[u] \in Nat /\ users[u].lastMigrationDate \in Nat
      BY <1>5, <2>1, RowFields, StoreAssumption, SMTT(30) DEF Inv, Types, Ends
    <2>3. /\ users[u].currentEmailVerified /\ users[u].newEmailVerified
          /\ users[u].newEmailPending = req[s].e
      BY <1>1, <1>2 DEF BothVerified
    <2>4. movedAt[u] <= now /\ now <= now
      BY <2>1, <2>2, SMTT(30) DEF Consistent
    <2> QED BY <1>1, <1>2, <1>5, <2>1, <2>3, <2>4, Zenon DEF Current, Consistent
  <1>7. /\ r.email = req[s].e
        /\ r.isEmailVerified = TRUE
        /\ r.password = users[u].password
        /\ r.provider = users[u].provider
        /\ r.emailVerificationToken = users[u].emailVerificationToken
        /\ r.emailVerificationExpires = users[u].emailVerificationExpires
        /\ r.previousEmail = users[u].email
        /\ r.migrationExpiry = now + GraceTtl
        /\ r.newEmailPending = None
        /\ r.migrationToken = 0
        /\ r.migrationTokenExpires = users[u].migrationTokenExpires
        /\ r.currentEmailVerified = FALSE
        /\ r.newEmailVerified = FALSE
        /\ r.lastMigrationDate = now
        /\ r.tokenVersion = users[u].tokenVersion
        /\ r.migrationHistory = req[s].doc.migrationHistory
        /\ r.bio = users[u].bio
    BY <1>1, <1>2, <1>3, <1>5, <1>6, ZenonT(30) DEF NoRow, Overlaid, Moved, ++
  <1>7a. r \in Row
    <2>1. r.migrationHistory \in Seq(History)
      BY <1>1, <1>7, RowFields
    <2>2. /\ {0, now, now + TokenTtl, now + GraceTtl} \subseteq Ends
          /\ {0, gen + 1} \subseteq 0..(MaxTokens + 1)
      BY Deadlines
    <2>2a. /\ r.id \in 0..MaxUsers /\ r.email \in Emails \cup {None} /\ r.isEmailVerified \in BOOLEAN
           /\ r.password \in BOOLEAN /\ r.provider \in OAuthIds \cup {Local}
           /\ r.emailVerificationToken \in 0..(MaxTokens + 1) /\ r.emailVerificationExpires \in Ends
           /\ r.previousEmail \in Emails \cup {None} /\ r.migrationExpiry \in Ends
           /\ r.newEmailPending \in Emails \cup {None} /\ r.migrationToken \in 0..(MaxTokens + 1)
           /\ r.migrationTokenExpires \in Ends /\ r.currentEmailVerified \in BOOLEAN
           /\ r.newEmailVerified \in BOOLEAN /\ r.lastMigrationDate \in Ends
           /\ r.tokenVersion \in Nat /\ r.bio \in {"old", "new"}
      BY <1>1, <1>5, <1>6, <1>7, <2>2, RowFields, AccountsAssumption
    <2> QED BY <1>5, <2>1, <2>2a, RowIntro DEF Overlaid
  <1>8a. Duplicate(r) => Good
    <2> SUFFICES ASSUME Duplicate(r) PROVE Good
      OBVIOUS
    <2>1. GoOn(s, "idle", <<>>)
      BY <1>5 DEF Writes
    <2>2. Reads
      BY <1>5 DEF Writes, Reads, LoginSave
    <2>3. InStep(req[s])
      BY <1>1 DEF InStep, Behind
    <2>4. Answer(s)
      BY <2>1, GoOnTo
    <2> QED BY <2>2, <2>3, <2>4, Answers
  <1>8. SUFFICES ASSUME ~Duplicate(r) PROVE Good
    BY <1>8a
  <1>9. req' = [req EXCEPT ![s] = q] /\ WriteRow(r) /\ UNCHANGED post
    BY <1>5, <1>8 DEF LoginSave, Writes, Fresh, Vouch
  <1>9a. gen' \in 0..MaxTokens /\ (gen' = gen \/ gen' = gen + 1) /\ gen <= gen'
    BY <1>1, <1>9, Deadlines DEF post
  <1>9b. /\ links' = links /\ opened' \subseteq Link /\ opened \subseteq opened' /\ proved' = proved
         /\ \A l \in opened' : l \notin opened => l.secret = 0
    BY <1>9 DEF post, proved, Inv, Types
  <1>10. UNCHANGED <<nextId, now, up>> /\ (r.email # users[u].email => movedAt'[u] = now)
          /\ (r.email = users[u].email => movedAt'[u] = movedAt[u])
           /\ Current(r)' /\ r.email # None
    <2>1. r.email # None
      BY <1>1, <1>5, <1>7, StoreAssumption DEF Live
    <2>2. WriteRow(r)
      BY <1>9
    <2>3. /\ movedAt'[u] = IF r.email # users[u].email THEN now ELSE movedAt[u]
          /\ UNCHANGED <<nextId, now, up>> /\ Current(r)'
      BY <1>5, <1>7a, <2>1, <2>2, Written
    <2> QED BY <1>7, <2>1, <2>3
  <1>11. Consistent(r)'
    <2>1. /\ \A kind, v, e : Used(kind, v, e) => Used(kind, v, e)'
          /\ \A e : Proved(e) => Proved(e)'
          /\ Secrets \subseteq Secrets'
          /\ gen' = gen + 1 => gen + 1 \in Secrets'
      BY <1>9a, <1>9b, StillUsed
    <2>2. Proved(r.email)
      BY <1>6, <1>7 DEF Used, Proved
    <2> QED
      BY <1>1, <1>2, <1>5, <1>6, <1>7, <1>9, <1>10, <2>1, <2>2, Deadlines, ZenonT(60) DEF Consistent, Trusted, Reliable
  <1>12. Knows(q)' /\ Behind(q, u) /\ \A v \in Users : Behind(q, v) => v = u
    <2>1. q = ([doc |-> r] ++ SyncFrom(r, "idle")) ++ req[s]
      BY <1>5 DEF Syncs
    <2>2. /\ Fields(q) /\ q.pc = "sync" /\ q.cont = "idle" /\ q.sd = r /\ q.doc = r
          /\ q.op = req[s].op /\ q.e = req[s].e /\ q.x = req[s].x /\ q.keep = req[s].keep
          /\ \A v : Behind(q, v) <=> v = u
      BY <1>1, <1>5, <1>7a, <1>10, <2>1, SyncShape DEF Continuations
    <2>3. Documents(q)' /\ Migrating(q)' /\ (Reliable => Lookups(q)')
      BY <1>1, <1>2, <1>6, <1>7, <1>10, <2>2, Deadlines, Zenon DEF Documents, Migrating, Lookups
    <2> QED BY <1>1, <1>5, <1>7a, <1>10, <2>1, <2>2, <2>3, SyncKnows DEF Continuations
  <1>13. /\ \A v \in Users \ {u} : ~Behind(req[s], v)
         /\ Behind(q, u)
    BY <1>1, <1>2, <1>5, <1>12 DEF Behind
  <1>14. /\ \/ r.migrationToken = 0 \/ r.migrationToken \in (gen + 1)..gen'
            \/ /\ r.migrationToken = users[u].migrationToken
               /\ r.email = users[u].email /\ r.newEmailPending = users[u].newEmailPending
         /\ \/ r.emailVerificationToken = 0 \/ r.emailVerificationToken \in (gen + 1)..gen'
            \/ /\ r.emailVerificationToken = users[u].emailVerificationToken
               /\ \/ r.provider # Local
                  \/ r.provider = users[u].provider /\ r.email = users[u].email
    BY <1>1, <1>6, <1>7, <1>9, Deadlines
  <1>15. users[u].isEmailVerified \/ r.email # users[u].email => r.isEmailVerified
    BY <1>1, <1>2, <1>6, <1>7, Zenon
  <1>16. r.email # users[u].email =>
            /\ movedAt[u] # 0 => now - movedAt[u] >= Cooldown
            /\ Reliable => Used("current", u, users[u].email) /\ Used("new", u, r.email)
    BY <1>6, <1>7
  <1>17. r.bio = users[u].bio \/ At(s, "savebio")
    BY <1>1, <1>6, <1>7
  <1>18. req' = [req EXCEPT ![s] = q] /\ WriteRow(r)
    BY <1>9
  <1> QED
    BY <1>5, <1>7, <1>7a, <1>8, <1>9a, <1>9b, <1>10, <1>11, <1>12, <1>13, <1>14, <1>15, <1>16, <1>17,
       <1>18, Writing

\* finalizeMigrationInternal moves the account to an address that nobody has.
LEMMA FinaliseSaveGood ==
    ASSUME Inv, OneAtATime, NEW s \in Slots, FinaliseSave(s) PROVE Good
  <1>1. /\ Knows(req[s]) /\ Fields(req[s]) /\ req[s].pc = "finsave" /\ up
        /\ Current(req[s].doc) /\ req[s].doc \in Row /\ req[s].keep \in Row
        /\ BothVerified(users[req[s].doc.id])
        /\ users[req[s].doc.id].newEmailPending = req[s].e
        /\ req[s].e \in Emails /\ req[s].e # None
        /\ req[s].keep.bio = req[s].doc.bio /\ req[s].keep.provider = req[s].doc.provider
    <2>1. Knows(req[s]) /\ Fields(req[s]) /\ req[s].pc = "finsave" /\ up
      BY Facts DEF FinaliseSave
    <2>2. Current(req[s].doc) /\ req[s].doc \in Row /\ req[s].keep \in Row
      BY <2>1, StoreAssumption DEF Knows, Documents, Fields
    <2>3. BothVerified(users[req[s].doc.id])
      BY <2>1, <2>2, StoreAssumption DEF Knows, Documents, Migrating, Lookups, Verifying, Generating
    <2>4. users[req[s].doc.id].newEmailPending = req[s].e
      BY <2>1, <2>2, StoreAssumption DEF Knows, Documents, Migrating, Lookups, Verifying, Generating
    <2>5. req[s].e \in Emails
      BY <2>1, <2>2, StoreAssumption DEF Knows, Documents, Migrating, Lookups, Verifying, Generating
    <2>6. req[s].e # None
      BY <2>1, <2>2, StoreAssumption DEF Knows, Documents, Migrating, Lookups, Verifying, Generating
    <2>7. req[s].keep.bio = req[s].doc.bio
      BY <2>1, <2>2, StoreAssumption DEF Knows, Documents, Migrating, Lookups, Verifying, Generating
    <2>8. req[s].keep.provider = req[s].doc.provider
      BY <2>1, <2>2, StoreAssumption DEF Knows, Documents, Migrating, Lookups, Verifying, Generating
    <2> QED BY <2>1, <2>2, <2>3, <2>4, <2>5, <2>6, <2>7, <2>8
  <1>2. PICK u : u = req[s].doc.id
    OBVIOUS
  <1>3. PICK w : w = Moved(req[s].doc, req[s].e) ++ Preserved(req[s].doc) ++
                      [migrationTokenExpires |-> 0,
                       migrationHistory |-> MarkSuccess(req[s].doc.migrationHistory, req[s].e)]
    OBVIOUS
  <1>4. DOMAIN w \subseteq DOMAIN NoRow \ {"id"}
    BY <1>3 DEF NoRow, Moved, Preserved, ++
  <1>5. PICK r, q : /\ u \in Users /\ Live(u) /\ r.id = u
                    /\ Overlaid(r, w, users[u])
                    /\ Syncs(q, r, "checkbio", req[s])
                    /\ Writes(s, r, q, "duplicate")
    <2>1. SaveAndSync(s, w, "checkbio", "duplicate")
      BY <1>3, SMTT(30) DEF FinaliseSave
    <2> QED BY <1>1, <1>2, <1>4, <2>1, SaveStep
  <1>6. /\ users[u] \in Row /\ Consistent(users[u]) /\ users[u].id = u
        /\ LET d == req[s].doc IN
            /\ d.email = users[u].email /\ d.isEmailVerified = users[u].isEmailVerified
            /\ d.provider = users[u].provider /\ d.bio = users[u].bio
            /\ d.newEmailPending = users[u].newEmailPending
        /\ users[u].currentEmailVerified /\ users[u].newEmailVerified
        /\ users[u].isEmailVerified /\ users[u].newEmailPending = req[s].e
        /\ Used("current", u, users[u].email) /\ Used("new", u, req[s].e)
        /\ users[u].provider = Local => users[u].emailVerificationToken = 0
        /\ movedAt[u] # 0 => now - movedAt[u] >= Cooldown
        /\ movedAt[u] <= now /\ now <= now
        /\ Reliable => req[s].e # users[u].email
    <2>1. users[u] \in Row /\ Consistent(users[u]) /\ users[u].id = u
      BY <1>1, <1>2, <1>5, Facts
    <2>2. now \in Nat /\ movedAt[u] \in Nat /\ users[u].lastMigrationDate \in Nat
      BY <1>5, <2>1, RowFields, StoreAssumption, SMTT(30) DEF Inv, Types, Ends
    <2>3. /\ users[u].currentEmailVerified /\ users[u].newEmailVerified
          /\ users[u].newEmailPending = req[s].e
      BY <1>1, <1>2 DEF BothVerified
    <2>4. movedAt[u] <= now /\ now <= now
      BY <2>1, <2>2 DEF Consistent
    <2> QED BY <1>1, <1>2, <1>5, <2>1, <2>3, <2>4, ZenonT(30) DEF Current, Consistent
  <1>7. /\ r.email = req[s].e
        /\ r.isEmailVerified = TRUE
        /\ r.password = users[u].password
        /\ r.provider = users[u].provider
        /\ r.emailVerificationToken = users[u].emailVerificationToken
        /\ r.emailVerificationExpires = users[u].emailVerificationExpires
        /\ r.previousEmail = users[u].email
        /\ r.migrationExpiry = now + GraceTtl
        /\ r.newEmailPending = None
        /\ r.migrationToken = 0
        /\ r.migrationTokenExpires = 0
        /\ r.currentEmailVerified = FALSE
        /\ r.newEmailVerified = FALSE
        /\ r.lastMigrationDate = now
        /\ r.tokenVersion = users[u].tokenVersion
        /\ r.migrationHistory = MarkSuccess(req[s].doc.migrationHistory, req[s].e)
        /\ r.bio = users[u].bio
    BY <1>1, <1>2, <1>3, <1>5, <1>6, ZenonT(30) DEF NoRow, Overlaid, Moved, Preserved, ++
  <1>7a. r \in Row
    <2>1. r.migrationHistory \in Seq(History)
      <3>1. req[s].doc.migrationHistory \in Seq(History)
        BY <1>1, RowFields
      <3> QED BY <1>1, <1>7, <3>1, Histories
    <2>2. /\ {0, now, now + TokenTtl, now + GraceTtl} \subseteq Ends
          /\ {0, gen + 1} \subseteq 0..(MaxTokens + 1)
      BY Deadlines
    <2>2a. /\ r.id \in 0..MaxUsers /\ r.email \in Emails \cup {None} /\ r.isEmailVerified \in BOOLEAN
           /\ r.password \in BOOLEAN /\ r.provider \in OAuthIds \cup {Local}
           /\ r.emailVerificationToken \in 0..(MaxTokens + 1) /\ r.emailVerificationExpires \in Ends
           /\ r.previousEmail \in Emails \cup {None} /\ r.migrationExpiry \in Ends
           /\ r.newEmailPending \in Emails \cup {None} /\ r.migrationToken \in 0..(MaxTokens + 1)
           /\ r.migrationTokenExpires \in Ends /\ r.currentEmailVerified \in BOOLEAN
           /\ r.newEmailVerified \in BOOLEAN /\ r.lastMigrationDate \in Ends
           /\ r.tokenVersion \in Nat /\ r.bio \in {"old", "new"}
      BY <1>1, <1>5, <1>6, <1>7, <2>2, RowFields, AccountsAssumption
    <2> QED BY <1>5, <2>1, <2>2a, RowIntro DEF Overlaid
  <1>8a. Duplicate(r) => Good
    <2> SUFFICES ASSUME Duplicate(r) PROVE Good
      OBVIOUS
    <2>1. GoOn(s, "duplicate", <<>>)
      BY <1>5 DEF Writes
    <2>2. Reads
      BY <1>5 DEF Writes, Reads, FinaliseSave
    <2>3. InStep(req[s])
      BY <1>1 DEF InStep, Behind
    <2>4. Goto(s, [pc |-> "duplicate"])
      BY <2>1, GoOnTo
    <2>5. PICK p : p = [pc |-> "duplicate"] ++ req[s]
      OBVIOUS
    <2>6. Knows(p)
      BY <1>1, <2>5, ZenonT(30)
      DEF Knows, Fields, Documents, Migrating, Lookups, Verifying, Inserting, Generating, ++, Idle
    <2> QED BY <2>2, <2>3, <2>4, <2>5, <2>6, Continues
  <1>8. SUFFICES ASSUME ~Duplicate(r) PROVE Good
    BY <1>8a
  <1>9. req' = [req EXCEPT ![s] = q] /\ WriteRow(r) /\ UNCHANGED post
    BY <1>5, <1>8 DEF FinaliseSave, Writes, Fresh, Vouch
  <1>9a. gen' \in 0..MaxTokens /\ (gen' = gen \/ gen' = gen + 1) /\ gen <= gen'
    BY <1>1, <1>9, Deadlines DEF post
  <1>9b. /\ links' = links /\ opened' \subseteq Link /\ opened \subseteq opened' /\ proved' = proved
         /\ \A l \in opened' : l \notin opened => l.secret = 0
    BY <1>9 DEF post, proved, Inv, Types
  <1>10. UNCHANGED <<nextId, now, up>> /\ (r.email # users[u].email => movedAt'[u] = now)
          /\ (r.email = users[u].email => movedAt'[u] = movedAt[u])
           /\ Current(r)' /\ r.email # None
    <2>1. r.email # None
      BY <1>1, <1>5, <1>7, StoreAssumption DEF Live
    <2>2. WriteRow(r)
      BY <1>9
    <2>3. /\ movedAt'[u] = IF r.email # users[u].email THEN now ELSE movedAt[u]
          /\ UNCHANGED <<nextId, now, up>> /\ Current(r)'
      BY <1>5, <1>7a, <2>1, <2>2, Written
    <2> QED BY <1>7, <2>1, <2>3
  <1>11. Consistent(r)'
    <2>1. /\ \A kind, v, e : Used(kind, v, e) => Used(kind, v, e)'
          /\ \A e : Proved(e) => Proved(e)'
          /\ Secrets \subseteq Secrets'
          /\ gen' = gen + 1 => gen + 1 \in Secrets'
      BY <1>9a, <1>9b, StillUsed
    <2>2. Proved(r.email)
      BY <1>6, <1>7 DEF Used, Proved
    <2> QED
      BY <1>1, <1>2, <1>5, <1>6, <1>7, <1>9, <1>10, <2>1, <2>2, Deadlines, ZenonT(60) DEF Consistent, Trusted, Reliable
  <1>12. Knows(q)' /\ Behind(q, u) /\ \A v \in Users : Behind(q, v) => v = u
    <2>1. q = ([doc |-> r] ++ SyncFrom(r, "checkbio")) ++ req[s]
      BY <1>5 DEF Syncs
    <2>2. /\ Fields(q) /\ q.pc = "sync" /\ q.cont = "checkbio" /\ q.sd = r /\ q.doc = r
          /\ q.op = req[s].op /\ q.e = req[s].e /\ q.x = req[s].x /\ q.keep = req[s].keep
          /\ \A v : Behind(q, v) <=> v = u
      BY <1>1, <1>5, <1>7a, <1>10, <2>1, SyncShape, SMTT(30) DEF Continuations
    <2>3. Documents(q)' /\ Migrating(q)' /\ (Reliable => Lookups(q)')
      <3>1. Documents(q)'
        BY <1>1, <1>6, <1>7, <1>10, <2>2 DEF Documents
      <3>2. Migrating(q)' /\ (Reliable => Lookups(q)')
        BY <2>2 DEF Migrating, Lookups
      <3> QED BY <3>1, <3>2
    <2> QED BY <1>1, <1>5, <1>7a, <1>10, <2>1, <2>2, <2>3, SyncKnows DEF Continuations
  <1>13. /\ \A v \in Users \ {u} : ~Behind(req[s], v)
         /\ Behind(q, u)
    BY <1>1, <1>2, <1>5, <1>12 DEF Behind
  <1>14. /\ \/ r.migrationToken = 0 \/ r.migrationToken \in (gen + 1)..gen'
            \/ /\ r.migrationToken = users[u].migrationToken
               /\ r.email = users[u].email /\ r.newEmailPending = users[u].newEmailPending
         /\ \/ r.emailVerificationToken = 0 \/ r.emailVerificationToken \in (gen + 1)..gen'
            \/ /\ r.emailVerificationToken = users[u].emailVerificationToken
               /\ \/ r.provider # Local
                  \/ r.provider = users[u].provider /\ r.email = users[u].email
    BY <1>1, <1>6, <1>7, <1>9, Deadlines
  <1>15. users[u].isEmailVerified \/ r.email # users[u].email => r.isEmailVerified
    BY <1>1, <1>2, <1>6, <1>7, Zenon
  <1>16. r.email # users[u].email =>
            /\ movedAt[u] # 0 => now - movedAt[u] >= Cooldown
            /\ Reliable => Used("current", u, users[u].email) /\ Used("new", u, r.email)
    BY <1>6, <1>7
  <1>17. r.bio = users[u].bio \/ At(s, "savebio")
    BY <1>1, <1>6, <1>7
  <1>18. req' = [req EXCEPT ![s] = q] /\ WriteRow(r)
    BY <1>9
  <1> QED
    BY <1>5, <1>7, <1>7a, <1>8, <1>9a, <1>9b, <1>10, <1>11, <1>12, <1>13, <1>14, <1>15, <1>16, <1>17,
       <1>18, Writing

\* finalizeMigrationInternal restores the profile it began with.
LEMMA FinaliseSaveBioGood ==
    ASSUME Inv, OneAtATime, NEW s \in Slots, FinaliseSaveBio(s) PROVE Good
  <1>1. /\ Knows(req[s]) /\ Fields(req[s]) /\ req[s].pc = "savebio2" /\ up
        /\ Current(req[s].doc) /\ req[s].doc \in Row /\ req[s].keep \in Row
        /\ req[s].keep.bio = req[s].doc.bio
    <2>1. Knows(req[s]) /\ Fields(req[s]) /\ req[s].pc = "savebio2" /\ up
      BY Facts DEF FinaliseSaveBio
    <2>2. Current(req[s].doc) /\ req[s].doc \in Row /\ req[s].keep \in Row
      BY <2>1, StoreAssumption DEF Knows, Documents, Fields
    <2>3. req[s].keep.bio = req[s].doc.bio
      BY <2>1, <2>2, StoreAssumption DEF Knows, Documents, Migrating, Lookups, Verifying, Generating
    <2> QED BY <2>1, <2>2, <2>3
  <1>2. PICK u : u = req[s].doc.id
    OBVIOUS
  <1>3. PICK w : w = [bio |-> req[s].keep.bio, migrationHistory |-> req[s].doc.migrationHistory]
    OBVIOUS
  <1>4. DOMAIN w \subseteq DOMAIN NoRow \ {"id"}
    BY <1>3 DEF NoRow
  <1>5. PICK r, q : /\ u \in Users /\ Live(u) /\ r.id = u
                    /\ Overlaid(r, w, users[u])
                    /\ q = Idle ++ req[s]
                    /\ Writes(s, r, q, "idle")
    <2>1. u \in Users /\ Live(u) /\ users[u] \in Row /\ users[u].id = u
      BY <1>1, <1>2, Facts DEF Current
    <2>2. PICK r : r = w ++ users[u]
      OBVIOUS
    <2>3. PICK q : q = Idle ++ req[s]
      OBVIOUS
    <2>4. Writes(s, r, q, "idle")
      BY <1>2, <1>3, <2>1, <2>2, <2>3 DEF FinaliseSaveBio, Save, Updated, Goto, Writes
    <2>5. Overlaid(r, w, users[u])
      BY <1>4, <2>1, <2>2, Merged DEF Overlaid
    <2>6. r.id = u
      BY <1>4, <2>1, <2>5 DEF NoRow, Overlaid
    <2> QED BY <2>1, <2>3, <2>4, <2>5, <2>6
  <1>6. /\ users[u] \in Row /\ Consistent(users[u]) /\ users[u].id = u
        /\ LET d == req[s].doc IN
            /\ d.email = users[u].email /\ d.isEmailVerified = users[u].isEmailVerified
            /\ d.provider = users[u].provider /\ d.bio = users[u].bio
            /\ d.newEmailPending = users[u].newEmailPending
    BY <1>1, <1>2, <1>5, Facts, Zenon DEF Current
  <1>7. /\ r.email = users[u].email
        /\ r.isEmailVerified = users[u].isEmailVerified
        /\ r.password = users[u].password
        /\ r.provider = users[u].provider
        /\ r.emailVerificationToken = users[u].emailVerificationToken
        /\ r.emailVerificationExpires = users[u].emailVerificationExpires
        /\ r.previousEmail = users[u].previousEmail
        /\ r.migrationExpiry = users[u].migrationExpiry
        /\ r.newEmailPending = users[u].newEmailPending
        /\ r.migrationToken = users[u].migrationToken
        /\ r.migrationTokenExpires = users[u].migrationTokenExpires
        /\ r.currentEmailVerified = users[u].currentEmailVerified
        /\ r.newEmailVerified = users[u].newEmailVerified
        /\ r.lastMigrationDate = users[u].lastMigrationDate
        /\ r.tokenVersion = users[u].tokenVersion
        /\ r.migrationHistory = req[s].doc.migrationHistory
        /\ r.bio = users[u].bio
    BY <1>1, <1>3, <1>5, <1>6 DEF NoRow, Overlaid
  <1>7a. r \in Row
    <2>1. r.migrationHistory \in Seq(History)
      BY <1>1, <1>7, RowFields
    <2>2. /\ {0, now, now + TokenTtl, now + GraceTtl} \subseteq Ends
          /\ {0, gen + 1} \subseteq 0..(MaxTokens + 1)
      BY Deadlines
    <2>2a. /\ r.id \in 0..MaxUsers /\ r.email \in Emails \cup {None} /\ r.isEmailVerified \in BOOLEAN
           /\ r.password \in BOOLEAN /\ r.provider \in OAuthIds \cup {Local}
           /\ r.emailVerificationToken \in 0..(MaxTokens + 1) /\ r.emailVerificationExpires \in Ends
           /\ r.previousEmail \in Emails \cup {None} /\ r.migrationExpiry \in Ends
           /\ r.newEmailPending \in Emails \cup {None} /\ r.migrationToken \in 0..(MaxTokens + 1)
           /\ r.migrationTokenExpires \in Ends /\ r.currentEmailVerified \in BOOLEAN
           /\ r.newEmailVerified \in BOOLEAN /\ r.lastMigrationDate \in Ends
           /\ r.tokenVersion \in Nat /\ r.bio \in {"old", "new"}
      BY <1>1, <1>5, <1>6, <1>7, <2>2, RowFields, AccountsAssumption
    <2> QED BY <1>5, <2>1, <2>2a, RowIntro DEF Overlaid
  <1>8. ~Duplicate(r)
    BY <1>1, <1>5, <1>6, <1>7, NotDuplicate
  <1>9. req' = [req EXCEPT ![s] = q] /\ WriteRow(r) /\ UNCHANGED post
    BY <1>5, <1>8 DEF FinaliseSaveBio, Writes, Fresh
  <1>9a. gen' \in 0..MaxTokens /\ (gen' = gen \/ gen' = gen + 1) /\ gen <= gen'
    BY <1>1, <1>9, Deadlines DEF post
  <1>9b. /\ links' = links /\ opened' \subseteq Link /\ opened \subseteq opened' /\ proved' = proved
         /\ \A l \in opened' : l \notin opened => l.secret = 0
    BY <1>9 DEF post, proved, Inv, Types
  <1>10. UNCHANGED <<nextId, now, up>> /\ movedAt'[u] = movedAt[u] /\ Current(r)' /\ r.email # None
    <2>1. r.email # None
      BY <1>1, <1>5, <1>7, StoreAssumption DEF Live
    <2>2. WriteRow(r)
      BY <1>9
    <2>3. /\ movedAt'[u] = IF r.email # users[u].email THEN now ELSE movedAt[u]
          /\ UNCHANGED <<nextId, now, up>> /\ Current(r)'
      BY <1>5, <1>7a, <2>1, <2>2, Written
    <2> QED BY <1>7, <2>1, <2>3
  <1>11. Consistent(r)'
    <2>1. /\ \A kind, v, e : Used(kind, v, e) => Used(kind, v, e)'
          /\ \A e : Proved(e) => Proved(e)'
          /\ Secrets \subseteq Secrets'
          /\ gen' = gen + 1 => gen + 1 \in Secrets'
      BY <1>9a, <1>9b, StillUsed
    <2> QED
      BY <1>1, <1>2, <1>5, <1>6, <1>7, <1>9, <1>10, <2>1, ZenonT(60) DEF Consistent, Trusted, Reliable
  <1>12. Knows(q)'
    <2>1. q = Idle
      BY <1>1, <1>5 DEF Fields, ++, Idle
    <2> QED BY <2>1, Answered
  <1>13. /\ \A v \in Users \ {u} : ~Behind(req[s], v)
         /\ ~Behind(req[s], u)
    BY <1>1, <1>2, <1>5, <1>12 DEF Behind
  <1>14. /\ \/ r.migrationToken = 0 \/ r.migrationToken \in (gen + 1)..gen'
            \/ /\ r.migrationToken = users[u].migrationToken
               /\ r.email = users[u].email /\ r.newEmailPending = users[u].newEmailPending
         /\ \/ r.emailVerificationToken = 0 \/ r.emailVerificationToken \in (gen + 1)..gen'
            \/ /\ r.emailVerificationToken = users[u].emailVerificationToken
               /\ \/ r.provider # Local
                  \/ r.provider = users[u].provider /\ r.email = users[u].email
    BY <1>1, <1>6, <1>7, <1>9, Deadlines
  <1>15. users[u].isEmailVerified \/ r.email # users[u].email => r.isEmailVerified
    BY <1>1, <1>2, <1>6, <1>7
  <1>16. r.email # users[u].email =>
            /\ movedAt[u] # 0 => now - movedAt[u] >= Cooldown
            /\ Reliable => Used("current", u, users[u].email) /\ Used("new", u, r.email)
    BY <1>7
  <1>17. r.bio = users[u].bio \/ At(s, "savebio")
    BY <1>1, <1>6, <1>7
  <1>18. req' = [req EXCEPT ![s] = q] /\ WriteRow(r)
    BY <1>9
  <1> QED
    BY <1>5, <1>7, <1>7a, <1>8, <1>9a, <1>9b, <1>10, <1>11, <1>12, <1>13, <1>14, <1>15, <1>16, <1>17,
       <1>18, Writing

\* The clean-up forgets a former address whose grace period is over.
LEMMA CleanupSaveGood ==
    ASSUME Inv, OneAtATime, NEW s \in Slots, CleanupSave(s) PROVE Good
  <1>1. /\ Knows(req[s]) /\ Fields(req[s]) /\ req[s].pc = "cleanup" /\ up
        /\ Current(req[s].doc) /\ req[s].doc \in Row /\ req[s].keep \in Row
    <2>1. Knows(req[s]) /\ Fields(req[s]) /\ req[s].pc = "cleanup" /\ up
      BY Facts DEF CleanupSave
    <2>2. Current(req[s].doc) /\ req[s].doc \in Row /\ req[s].keep \in Row
      BY <2>1, StoreAssumption DEF Knows, Documents, Fields
    <2> QED BY <2>1, <2>2
  <1>2. PICK u : u = req[s].doc.id
    OBVIOUS
  <1>3. PICK w : w = [previousEmail |-> None, migrationExpiry |-> 0,
                      migrationHistory |-> req[s].doc.migrationHistory]
    OBVIOUS
  <1>4. DOMAIN w \subseteq DOMAIN NoRow \ {"id"}
    BY <1>3 DEF NoRow
  <1>5. PICK r, q : /\ u \in Users /\ Live(u) /\ r.id = u
                    /\ Overlaid(r, w, users[u])
                    /\ q = Idle ++ req[s]
                    /\ Writes(s, r, q, "idle")
    <2>1. u \in Users /\ Live(u) /\ users[u] \in Row /\ users[u].id = u
      BY <1>1, <1>2, Facts DEF Current
    <2>2. PICK r : r = w ++ users[u]
      OBVIOUS
    <2>3. PICK q : q = Idle ++ req[s]
      OBVIOUS
    <2>4. Writes(s, r, q, "idle")
      BY <1>2, <1>3, <2>1, <2>2, <2>3 DEF CleanupSave, Save, Updated, Goto, Writes
    <2>5. Overlaid(r, w, users[u])
      BY <1>4, <2>1, <2>2, Merged DEF Overlaid
    <2>6. r.id = u
      BY <1>4, <2>1, <2>5 DEF NoRow, Overlaid
    <2> QED BY <2>1, <2>3, <2>4, <2>5, <2>6
  <1>6. /\ users[u] \in Row /\ Consistent(users[u]) /\ users[u].id = u
        /\ LET d == req[s].doc IN
            /\ d.email = users[u].email /\ d.isEmailVerified = users[u].isEmailVerified
            /\ d.provider = users[u].provider /\ d.bio = users[u].bio
            /\ d.newEmailPending = users[u].newEmailPending
    BY <1>1, <1>2, <1>5, Facts, Zenon DEF Current
  <1>7. /\ r.email = users[u].email
        /\ r.isEmailVerified = users[u].isEmailVerified
        /\ r.password = users[u].password
        /\ r.provider = users[u].provider
        /\ r.emailVerificationToken = users[u].emailVerificationToken
        /\ r.emailVerificationExpires = users[u].emailVerificationExpires
        /\ r.previousEmail = None
        /\ r.migrationExpiry = 0
        /\ r.newEmailPending = users[u].newEmailPending
        /\ r.migrationToken = users[u].migrationToken
        /\ r.migrationTokenExpires = users[u].migrationTokenExpires
        /\ r.currentEmailVerified = users[u].currentEmailVerified
        /\ r.newEmailVerified = users[u].newEmailVerified
        /\ r.lastMigrationDate = users[u].lastMigrationDate
        /\ r.tokenVersion = users[u].tokenVersion
        /\ r.migrationHistory = req[s].doc.migrationHistory
        /\ r.bio = users[u].bio
    BY <1>1, <1>3, <1>5 DEF NoRow, Overlaid
  <1>7a. r \in Row
    <2>1. r.migrationHistory \in Seq(History)
      BY <1>1, <1>7, RowFields
    <2>2. /\ {0, now, now + TokenTtl, now + GraceTtl} \subseteq Ends
          /\ {0, gen + 1} \subseteq 0..(MaxTokens + 1)
      BY Deadlines
    <2>2a. /\ r.id \in 0..MaxUsers /\ r.email \in Emails \cup {None} /\ r.isEmailVerified \in BOOLEAN
           /\ r.password \in BOOLEAN /\ r.provider \in OAuthIds \cup {Local}
           /\ r.emailVerificationToken \in 0..(MaxTokens + 1) /\ r.emailVerificationExpires \in Ends
           /\ r.previousEmail \in Emails \cup {None} /\ r.migrationExpiry \in Ends
           /\ r.newEmailPending \in Emails \cup {None} /\ r.migrationToken \in 0..(MaxTokens + 1)
           /\ r.migrationTokenExpires \in Ends /\ r.currentEmailVerified \in BOOLEAN
           /\ r.newEmailVerified \in BOOLEAN /\ r.lastMigrationDate \in Ends
           /\ r.tokenVersion \in Nat /\ r.bio \in {"old", "new"}
      BY <1>1, <1>5, <1>6, <1>7, <2>2, RowFields, AccountsAssumption
    <2> QED BY <1>5, <2>1, <2>2a, RowIntro DEF Overlaid
  <1>8. ~Duplicate(r)
    BY <1>1, <1>5, <1>6, <1>7, NotDuplicate
  <1>9. req' = [req EXCEPT ![s] = q] /\ WriteRow(r) /\ UNCHANGED post
    BY <1>5, <1>8 DEF CleanupSave, Writes, Fresh
  <1>9a. gen' \in 0..MaxTokens /\ (gen' = gen \/ gen' = gen + 1) /\ gen <= gen'
    BY <1>1, <1>9, Deadlines DEF post
  <1>9b. /\ links' = links /\ opened' \subseteq Link /\ opened \subseteq opened' /\ proved' = proved
         /\ \A l \in opened' : l \notin opened => l.secret = 0
    BY <1>9 DEF post, proved, Inv, Types
  <1>10. UNCHANGED <<nextId, now, up>> /\ movedAt'[u] = movedAt[u] /\ Current(r)' /\ r.email # None
    <2>1. r.email # None
      BY <1>1, <1>5, <1>7, StoreAssumption DEF Live
    <2>2. WriteRow(r)
      BY <1>9
    <2>3. /\ movedAt'[u] = IF r.email # users[u].email THEN now ELSE movedAt[u]
          /\ UNCHANGED <<nextId, now, up>> /\ Current(r)'
      BY <1>5, <1>7a, <2>1, <2>2, Written
    <2> QED BY <1>7, <2>1, <2>3
  <1>11. Consistent(r)'
    <2>1. /\ \A kind, v, e : Used(kind, v, e) => Used(kind, v, e)'
          /\ \A e : Proved(e) => Proved(e)'
          /\ Secrets \subseteq Secrets'
          /\ gen' = gen + 1 => gen + 1 \in Secrets'
      BY <1>9a, <1>9b, StillUsed
    <2> QED
      BY <1>1, <1>2, <1>5, <1>6, <1>7, <1>9, <1>10, <2>1, ZenonT(60) DEF Consistent, Trusted, Reliable
  <1>12. Knows(q)'
    <2>1. q = Idle
      BY <1>1, <1>5 DEF Fields, ++, Idle
    <2> QED BY <2>1, Answered
  <1>13. /\ \A v \in Users \ {u} : ~Behind(req[s], v)
         /\ ~Behind(req[s], u)
    BY <1>1, <1>2, <1>5, <1>12 DEF Behind
  <1>14. /\ \/ r.migrationToken = 0 \/ r.migrationToken \in (gen + 1)..gen'
            \/ /\ r.migrationToken = users[u].migrationToken
               /\ r.email = users[u].email /\ r.newEmailPending = users[u].newEmailPending
         /\ \/ r.emailVerificationToken = 0 \/ r.emailVerificationToken \in (gen + 1)..gen'
            \/ /\ r.emailVerificationToken = users[u].emailVerificationToken
               /\ \/ r.provider # Local
                  \/ r.provider = users[u].provider /\ r.email = users[u].email
    BY <1>1, <1>6, <1>7, <1>9, Deadlines
  <1>15. users[u].isEmailVerified \/ r.email # users[u].email => r.isEmailVerified
    BY <1>1, <1>2, <1>6, <1>7
  <1>16. r.email # users[u].email =>
            /\ movedAt[u] # 0 => now - movedAt[u] >= Cooldown
            /\ Reliable => Used("current", u, users[u].email) /\ Used("new", u, r.email)
    BY <1>7
  <1>17. r.bio = users[u].bio \/ At(s, "savebio")
    BY <1>1, <1>6, <1>7
  <1>18. req' = [req EXCEPT ![s] = q] /\ WriteRow(r)
    BY <1>9
  <1> QED
    BY <1>5, <1>7, <1>7a, <1>8, <1>9a, <1>9b, <1>10, <1>11, <1>12, <1>13, <1>14, <1>15, <1>16, <1>17,
       <1>18, Writing

\* The history is saved after a link was used.
LEMMA VerifyHistorySaveGood ==
    ASSUME Inv, OneAtATime, NEW s \in Slots, VerifyHistorySave(s) PROVE Good
  <1>1. /\ Knows(req[s]) /\ Fields(req[s]) /\ req[s].pc = "savehistory" /\ up
        /\ Current(req[s].doc) /\ req[s].doc \in Row /\ req[s].keep \in Row
        /\ req[s].keep.migrationHistory # <<>>
    <2>1. Knows(req[s]) /\ Fields(req[s]) /\ req[s].pc = "savehistory" /\ up
      BY Facts DEF VerifyHistorySave
    <2>2. Current(req[s].doc) /\ req[s].doc \in Row /\ req[s].keep \in Row
      BY <2>1, StoreAssumption DEF Knows, Documents, Fields
    <2>3. req[s].keep.migrationHistory # <<>>
      BY <2>1, <2>2, StoreAssumption DEF Knows, Documents, Migrating, Lookups, Verifying, Generating
    <2> QED BY <2>1, <2>2, <2>3
  <1>2. PICK u : u = req[s].doc.id
    OBVIOUS
  <1>2a. PICK g : g = LET h == req[s].keep.migrationHistory
                          m == IF req[s].op = "new" THEN [Last(h) EXCEPT !.new = TRUE]
                               ELSE [Last(h) EXCEPT !.cur = TRUE]
                      IN  [h EXCEPT ![Len(h)] = m]
    OBVIOUS
  <1>3. PICK w : w = [migrationHistory |-> g]
    OBVIOUS
  <1>4. DOMAIN w \subseteq DOMAIN NoRow \ {"id"}
    BY <1>3 DEF NoRow
  <1>5. PICK r, q : /\ u \in Users /\ Live(u) /\ r.id = u
                    /\ Overlaid(r, w, users[u])
                    /\ q = [pc |-> "bothverified"] ++ req[s]
                    /\ Writes(s, r, q, "idle")
    <2>1. u \in Users /\ Live(u) /\ users[u] \in Row /\ users[u].id = u
      BY <1>1, <1>2, Facts DEF Current
    <2>2. PICK r : r = w ++ users[u]
      OBVIOUS
    <2>3. PICK q : q = [pc |-> "bothverified"] ++ req[s]
      OBVIOUS
    <2>4. Writes(s, r, q, "idle")
      <3>1. Save(s, w, LAMBDA d : [pc |-> "bothverified"], "idle")
        BY <1>2a, <1>3 DEF VerifyHistorySave
      <3> QED BY <1>2, <2>1, <2>2, <2>3, <3>1 DEF Save, Updated, Goto, Writes
    <2>5. Overlaid(r, w, users[u])
      BY <1>4, <2>1, <2>2, Merged DEF Overlaid
    <2>6. r.id = u
      BY <1>4, <2>1, <2>5 DEF NoRow, Overlaid
    <2> QED BY <2>1, <2>3, <2>4, <2>5, <2>6
  <1>6. /\ users[u] \in Row /\ Consistent(users[u]) /\ users[u].id = u
        /\ LET d == req[s].doc IN
            /\ d.email = users[u].email /\ d.isEmailVerified = users[u].isEmailVerified
            /\ d.provider = users[u].provider /\ d.bio = users[u].bio
            /\ d.newEmailPending = users[u].newEmailPending
    BY <1>1, <1>2, <1>5, Facts, Zenon DEF Current
  <1>7. /\ r.email = users[u].email
        /\ r.isEmailVerified = users[u].isEmailVerified
        /\ r.password = users[u].password
        /\ r.provider = users[u].provider
        /\ r.emailVerificationToken = users[u].emailVerificationToken
        /\ r.emailVerificationExpires = users[u].emailVerificationExpires
        /\ r.previousEmail = users[u].previousEmail
        /\ r.migrationExpiry = users[u].migrationExpiry
        /\ r.newEmailPending = users[u].newEmailPending
        /\ r.migrationToken = users[u].migrationToken
        /\ r.migrationTokenExpires = users[u].migrationTokenExpires
        /\ r.currentEmailVerified = users[u].currentEmailVerified
        /\ r.newEmailVerified = users[u].newEmailVerified
        /\ r.lastMigrationDate = users[u].lastMigrationDate
        /\ r.tokenVersion = users[u].tokenVersion
        /\ r.migrationHistory = g
        /\ r.bio = users[u].bio
    BY <1>1, <1>3, <1>5 DEF NoRow, Overlaid
  <1>7a. r \in Row
    <2>1. r.migrationHistory \in Seq(History)
      <3>1. PICK h : h = req[s].keep.migrationHistory
        OBVIOUS
      <3>2. h \in Seq(History) /\ h # <<>>
        BY <1>1, <3>1, RowFields
      <3>3. PICK b : b = Last(h)
        OBVIOUS
      <3>4. b \in History
        BY <3>2, <3>3 DEF Last
      <3>5. [b EXCEPT !.new = TRUE] \in History /\ [b EXCEPT !.cur = TRUE] \in History
        BY <3>4 DEF History
      <3>6. PICK m : m = IF req[s].op = "new" THEN [b EXCEPT !.new = TRUE] ELSE [b EXCEPT !.cur = TRUE]
        OBVIOUS
      <3>7. m \in History /\ g = [h EXCEPT ![Len(h)] = m]
        BY <1>2a, <3>1, <3>3, <3>5, <3>6
      <3> QED BY <1>7, <3>2, <3>7, Replaced
    <2>2. /\ {0, now, now + TokenTtl, now + GraceTtl} \subseteq Ends
          /\ {0, gen + 1} \subseteq 0..(MaxTokens + 1)
      BY Deadlines
    <2>2a. /\ r.id \in 0..MaxUsers /\ r.email \in Emails \cup {None} /\ r.isEmailVerified \in BOOLEAN
           /\ r.password \in BOOLEAN /\ r.provider \in OAuthIds \cup {Local}
           /\ r.emailVerificationToken \in 0..(MaxTokens + 1) /\ r.emailVerificationExpires \in Ends
           /\ r.previousEmail \in Emails \cup {None} /\ r.migrationExpiry \in Ends
           /\ r.newEmailPending \in Emails \cup {None} /\ r.migrationToken \in 0..(MaxTokens + 1)
           /\ r.migrationTokenExpires \in Ends /\ r.currentEmailVerified \in BOOLEAN
           /\ r.newEmailVerified \in BOOLEAN /\ r.lastMigrationDate \in Ends
           /\ r.tokenVersion \in Nat /\ r.bio \in {"old", "new"}
      BY <1>1, <1>5, <1>6, <1>7, <2>2, RowFields, AccountsAssumption
    <2> QED BY <1>5, <2>1, <2>2a, RowIntro DEF Overlaid
  <1>8. ~Duplicate(r)
    BY <1>1, <1>5, <1>6, <1>7, NotDuplicate
  <1>9. req' = [req EXCEPT ![s] = q] /\ WriteRow(r) /\ UNCHANGED post
    BY <1>5, <1>8 DEF VerifyHistorySave, Writes, Fresh
  <1>9a. gen' \in 0..MaxTokens /\ (gen' = gen \/ gen' = gen + 1) /\ gen <= gen'
    BY <1>1, <1>9, Deadlines DEF post
  <1>9b. /\ links' = links /\ opened' \subseteq Link /\ opened \subseteq opened' /\ proved' = proved
         /\ \A l \in opened' : l \notin opened => l.secret = 0
    BY <1>9 DEF post, proved, Inv, Types
  <1>10. UNCHANGED <<nextId, now, up>> /\ movedAt'[u] = movedAt[u] /\ Current(r)' /\ r.email # None
    <2>1. r.email # None
      BY <1>1, <1>5, <1>7, StoreAssumption DEF Live
    <2>2. WriteRow(r)
      BY <1>9
    <2>3. /\ movedAt'[u] = IF r.email # users[u].email THEN now ELSE movedAt[u]
          /\ UNCHANGED <<nextId, now, up>> /\ Current(r)'
      BY <1>5, <1>7a, <2>1, <2>2, Written
    <2> QED BY <1>7, <2>1, <2>3
  <1>11. Consistent(r)'
    <2>1. /\ \A kind, v, e : Used(kind, v, e) => Used(kind, v, e)'
          /\ \A e : Proved(e) => Proved(e)'
          /\ Secrets \subseteq Secrets'
          /\ gen' = gen + 1 => gen + 1 \in Secrets'
      BY <1>9a, <1>9b, StillUsed
    <2> QED
      BY <1>1, <1>2, <1>5, <1>6, <1>7, <1>9, <1>10, <2>1, ZenonT(60) DEF Consistent, Trusted, Reliable
  <1>12. Knows(q)'
    <2>1. PICK d : d = req[s].doc
      OBVIOUS
    <2>2. users'[u] = r /\ Live(u)' /\ r.id = u
      BY <1>5, <1>7a, <1>9, <1>10, Written
    <2>3. Current(d) /\ d.id = u /\ d \in Row
      BY <1>1, <1>2, <2>1
    <2>4. Current(d)'
      BY <1>7, <2>2, <2>3 DEF Current
    <2>5. /\ q.pc = "bothverified" /\ DOMAIN q = DOMAIN Idle /\ q.cont = req[s].cont /\ q.k = req[s].k
          /\ q.op = req[s].op /\ q.e = req[s].e /\ q.x = req[s].x /\ q.keep = req[s].keep
          /\ q.id = req[s].id /\ q.link = req[s].link /\ q.doc = d /\ q.sd = req[s].sd
      BY <1>1, <1>5, <2>1 DEF Fields, ++, Idle
    <2>6. Fields(q)'
      BY <1>1, <2>3, <2>5 DEF Fields
    <2>7. Documents(q)' /\ Migrating(q)' /\ (Reliable => Lookups(q)') /\ Verifying(q)'
      BY <2>4, <2>5 DEF Documents, Migrating, Lookups, Verifying
    <2> QED BY <1>1, <1>10, <2>5, <2>6, <2>7 DEF Knows, Inserting, Generating, Reliable
  <1>13. /\ \A v \in Users \ {u} : ~Behind(req[s], v)
         /\ ~Behind(req[s], u)
    BY <1>1, <1>2, <1>5, <1>12 DEF Behind
  <1>14. /\ \/ r.migrationToken = 0 \/ r.migrationToken \in (gen + 1)..gen'
            \/ /\ r.migrationToken = users[u].migrationToken
               /\ r.email = users[u].email /\ r.newEmailPending = users[u].newEmailPending
         /\ \/ r.emailVerificationToken = 0 \/ r.emailVerificationToken \in (gen + 1)..gen'
            \/ /\ r.emailVerificationToken = users[u].emailVerificationToken
               /\ \/ r.provider # Local
                  \/ r.provider = users[u].provider /\ r.email = users[u].email
    BY <1>1, <1>6, <1>7, <1>9, Deadlines
  <1>15. users[u].isEmailVerified \/ r.email # users[u].email => r.isEmailVerified
    BY <1>1, <1>2, <1>6, <1>7
  <1>16. r.email # users[u].email =>
            /\ movedAt[u] # 0 => now - movedAt[u] >= Cooldown
            /\ Reliable => Used("current", u, users[u].email) /\ Used("new", u, r.email)
    BY <1>7
  <1>17. r.bio = users[u].bio \/ At(s, "savebio")
    BY <1>1, <1>6, <1>7
  <1>18. req' = [req EXCEPT ![s] = q] /\ WriteRow(r)
    BY <1>9
  <1> QED
    BY <1>5, <1>7, <1>7a, <1>8, <1>9a, <1>9b, <1>10, <1>11, <1>12, <1>13, <1>14, <1>15, <1>16, <1>17,
       <1>18, Writing

\* After a move finalizeMigrationInternal writes the history,
LEMMA FinaliseProfileSame ==
    ASSUME Inv, OneAtATime, NEW s \in Slots, FinaliseProfile(s), req[s].x = req[s].doc.id PROVE Good
  <1>1. /\ Knows(req[s]) /\ Fields(req[s]) /\ req[s].pc = "finprofile" /\ up
        /\ Current(req[s].doc) /\ req[s].doc \in Row /\ req[s].keep \in Row
        /\ req[s].keep.bio = req[s].doc.bio /\ req[s].keep.provider = req[s].doc.provider
        /\ req[s].e \in Emails
    <2>1. Knows(req[s]) /\ Fields(req[s]) /\ req[s].pc = "finprofile" /\ up
      BY Facts DEF FinaliseProfile
    <2>2. Current(req[s].doc) /\ req[s].doc \in Row /\ req[s].keep \in Row
      BY <2>1, StoreAssumption DEF Knows, Documents, Fields
    <2>3. req[s].keep.bio = req[s].doc.bio
      BY <2>1, <2>2, StoreAssumption DEF Knows, Documents, Migrating, Lookups, Verifying, Generating
    <2>4. req[s].keep.provider = req[s].doc.provider
      BY <2>1, <2>2, StoreAssumption DEF Knows, Documents, Migrating, Lookups, Verifying, Generating
    <2>5. req[s].e \in Emails
      BY <2>1, <2>2, StoreAssumption DEF Knows, Documents, Migrating, Lookups, Verifying, Generating
    <2> QED BY <2>1, <2>2, <2>3, <2>4, <2>5
  <1>2. PICK u : u = req[s].doc.id
    OBVIOUS
  <1>3. PICK w : w = [migrationHistory |-> MarkSuccess(req[s].doc.migrationHistory, req[s].e)]
    OBVIOUS
  <1>4. DOMAIN w \subseteq DOMAIN NoRow \ {"id"}
    BY <1>3 DEF NoRow
  <1>5. PICK r, q : /\ u \in Users /\ Live(u) /\ r.id = u
                    /\ Overlaid(r, w, users[u])
                    /\ Syncs(q, r, "idle", req[s])
                    /\ Writes(s, r, q, "duplicate")
    <2>1. SaveAndSync(s, w, "idle", "duplicate")
      BY <1>3 DEF FinaliseProfile
    <2> QED BY <1>1, <1>2, <1>4, <2>1, SaveStep
  <1>6. /\ users[u] \in Row /\ Consistent(users[u]) /\ users[u].id = u
        /\ LET d == req[s].doc IN
            /\ d.email = users[u].email /\ d.isEmailVerified = users[u].isEmailVerified
            /\ d.provider = users[u].provider /\ d.bio = users[u].bio
            /\ d.newEmailPending = users[u].newEmailPending
    BY <1>1, <1>2, <1>5, Facts DEF Current
  <1>7. /\ r.email = users[u].email
        /\ r.isEmailVerified = users[u].isEmailVerified
        /\ r.password = users[u].password
        /\ r.provider = users[u].provider
        /\ r.emailVerificationToken = users[u].emailVerificationToken
        /\ r.emailVerificationExpires = users[u].emailVerificationExpires
        /\ r.previousEmail = users[u].previousEmail
        /\ r.migrationExpiry = users[u].migrationExpiry
        /\ r.newEmailPending = users[u].newEmailPending
        /\ r.migrationToken = users[u].migrationToken
        /\ r.migrationTokenExpires = users[u].migrationTokenExpires
        /\ r.currentEmailVerified = users[u].currentEmailVerified
        /\ r.newEmailVerified = users[u].newEmailVerified
        /\ r.lastMigrationDate = users[u].lastMigrationDate
        /\ r.tokenVersion = users[u].tokenVersion
        /\ r.migrationHistory = MarkSuccess(req[s].doc.migrationHistory, req[s].e)
        /\ r.bio = users[u].bio
    BY <1>1, <1>3, <1>5 DEF NoRow, Overlaid
  <1>7a. r \in Row
    <2>1. r.migrationHistory \in Seq(History)
      <3>1. req[s].doc.migrationHistory \in Seq(History)
        BY <1>1, RowFields
      <3> QED BY <1>1, <1>7, <3>1, Histories
    <2>2. /\ {0, now, now + TokenTtl, now + GraceTtl} \subseteq Ends
          /\ {0, gen + 1} \subseteq 0..(MaxTokens + 1)
      BY Deadlines
    <2>2a. /\ r.id \in 0..MaxUsers /\ r.email \in Emails \cup {None} /\ r.isEmailVerified \in BOOLEAN
           /\ r.password \in BOOLEAN /\ r.provider \in OAuthIds \cup {Local}
           /\ r.emailVerificationToken \in 0..(MaxTokens + 1) /\ r.emailVerificationExpires \in Ends
           /\ r.previousEmail \in Emails \cup {None} /\ r.migrationExpiry \in Ends
           /\ r.newEmailPending \in Emails \cup {None} /\ r.migrationToken \in 0..(MaxTokens + 1)
           /\ r.migrationTokenExpires \in Ends /\ r.currentEmailVerified \in BOOLEAN
           /\ r.newEmailVerified \in BOOLEAN /\ r.lastMigrationDate \in Ends
           /\ r.tokenVersion \in Nat /\ r.bio \in {"old", "new"}
      BY <1>1, <1>5, <1>6, <1>7, <2>2, RowFields, AccountsAssumption
    <2> QED BY <1>5, <2>1, <2>2a, RowIntro DEF Overlaid
  <1>8. ~Duplicate(r)
    BY <1>1, <1>5, <1>6, <1>7, NotDuplicate
  <1>9. req' = [req EXCEPT ![s] = q] /\ WriteRow(r) /\ UNCHANGED post
    BY <1>5, <1>8 DEF FinaliseProfile, Writes, Fresh
  <1>9a. gen' \in 0..MaxTokens /\ (gen' = gen \/ gen' = gen + 1) /\ gen <= gen'
    BY <1>1, <1>9, Deadlines DEF post
  <1>9b. /\ links' = links /\ opened' \subseteq Link /\ opened \subseteq opened' /\ proved' = proved
         /\ \A l \in opened' : l \notin opened => l.secret = 0
    BY <1>9 DEF post, proved, Inv, Types
  <1>10. UNCHANGED <<nextId, now, up>> /\ movedAt'[u] = movedAt[u] /\ Current(r)' /\ r.email # None
    <2>1. r.email # None
      BY <1>1, <1>5, <1>7, StoreAssumption DEF Live
    <2>2. WriteRow(r)
      BY <1>9
    <2>3. /\ movedAt'[u] = IF r.email # users[u].email THEN now ELSE movedAt[u]
          /\ UNCHANGED <<nextId, now, up>> /\ Current(r)'
      BY <1>5, <1>7a, <2>1, <2>2, Written
    <2> QED BY <1>7, <2>1, <2>3
  <1>11. Consistent(r)'
    <2>1. /\ \A kind, v, e : Used(kind, v, e) => Used(kind, v, e)'
          /\ \A e : Proved(e) => Proved(e)'
          /\ Secrets \subseteq Secrets'
          /\ gen' = gen + 1 => gen + 1 \in Secrets'
      BY <1>9a, <1>9b, StillUsed
    <2> QED
      BY <1>1, <1>2, <1>5, <1>6, <1>7, <1>9, <1>10, <2>1, ZenonT(60) DEF Consistent, Trusted, Reliable
  <1>12. Knows(q)' /\ Behind(q, u) /\ \A v \in Users : Behind(q, v) => v = u
    <2>1. q = ([doc |-> r] ++ SyncFrom(r, "idle")) ++ req[s]
      BY <1>5 DEF Syncs
    <2>2. /\ Fields(q) /\ q.pc = "sync" /\ q.cont = "idle" /\ q.sd = r /\ q.doc = r
          /\ q.op = req[s].op /\ q.e = req[s].e /\ q.x = req[s].x /\ q.keep = req[s].keep
          /\ \A v : Behind(q, v) <=> v = u
      BY <1>1, <1>5, <1>7a, <1>10, <2>1, SyncShape DEF Continuations
    <2>3. Documents(q)' /\ Migrating(q)' /\ (Reliable => Lookups(q)')
      BY <1>1, <1>2, <1>6, <1>7, <1>10, <2>2, Deadlines, Zenon DEF Documents, Migrating, Lookups
    <2> QED BY <1>1, <1>5, <1>7a, <1>10, <2>1, <2>2, <2>3, SyncKnows DEF Continuations
  <1>13. /\ \A v \in Users \ {u} : ~Behind(req[s], v)
         /\ Behind(q, u)
    BY <1>1, <1>2, <1>5, <1>12 DEF Behind
  <1>14. /\ \/ r.migrationToken = 0 \/ r.migrationToken \in (gen + 1)..gen'
            \/ /\ r.migrationToken = users[u].migrationToken
               /\ r.email = users[u].email /\ r.newEmailPending = users[u].newEmailPending
         /\ \/ r.emailVerificationToken = 0 \/ r.emailVerificationToken \in (gen + 1)..gen'
            \/ /\ r.emailVerificationToken = users[u].emailVerificationToken
               /\ \/ r.provider # Local
                  \/ r.provider = users[u].provider /\ r.email = users[u].email
    BY <1>1, <1>6, <1>7, <1>9, Deadlines
  <1>15. users[u].isEmailVerified \/ r.email # users[u].email => r.isEmailVerified
    BY <1>1, <1>2, <1>6, <1>7, Zenon
  <1>16. r.email # users[u].email =>
            /\ movedAt[u] # 0 => now - movedAt[u] >= Cooldown
            /\ Reliable => Used("current", u, users[u].email) /\ Used("new", u, r.email)
    BY <1>7
  <1>17. r.bio = users[u].bio \/ At(s, "savebio")
    BY <1>1, <1>6, <1>7
  <1>18. req' = [req EXCEPT ![s] = q] /\ WriteRow(r)
    BY <1>9
  <1> QED
    BY <1>5, <1>7, <1>7a, <1>8, <1>9a, <1>9b, <1>10, <1>11, <1>12, <1>13, <1>14, <1>15, <1>16, <1>17,
       <1>18, Writing

\* and the profile and the provider it began with, if there was another account.
LEMMA FinaliseProfileOther ==
    ASSUME Inv, OneAtATime, NEW s \in Slots, FinaliseProfile(s), req[s].x # req[s].doc.id PROVE Good
  <1>1. /\ Knows(req[s]) /\ Fields(req[s]) /\ req[s].pc = "finprofile" /\ up
        /\ Current(req[s].doc) /\ req[s].doc \in Row /\ req[s].keep \in Row
        /\ req[s].keep.bio = req[s].doc.bio /\ req[s].keep.provider = req[s].doc.provider
        /\ req[s].e \in Emails
    <2>1. Knows(req[s]) /\ Fields(req[s]) /\ req[s].pc = "finprofile" /\ up
      BY Facts DEF FinaliseProfile
    <2>2. Current(req[s].doc) /\ req[s].doc \in Row /\ req[s].keep \in Row
      BY <2>1, StoreAssumption DEF Knows, Documents, Fields
    <2>3. req[s].keep.bio = req[s].doc.bio
      BY <2>1, <2>2, StoreAssumption DEF Knows, Documents, Migrating, Lookups, Verifying, Generating
    <2>4. req[s].keep.provider = req[s].doc.provider
      BY <2>1, <2>2, StoreAssumption DEF Knows, Documents, Migrating, Lookups, Verifying, Generating
    <2>5. req[s].e \in Emails
      BY <2>1, <2>2, StoreAssumption DEF Knows, Documents, Migrating, Lookups, Verifying, Generating
    <2> QED BY <2>1, <2>2, <2>3, <2>4, <2>5
  <1>2. PICK u : u = req[s].doc.id
    OBVIOUS
  <1>3. PICK w : w = [migrationHistory |-> MarkSuccess(req[s].doc.migrationHistory, req[s].e)]
                      ++ Preserved(req[s].keep)
    OBVIOUS
  <1>4. DOMAIN w \subseteq DOMAIN NoRow \ {"id"}
    BY <1>3 DEF NoRow, Preserved, ++
  <1>5. PICK r, q : /\ u \in Users /\ Live(u) /\ r.id = u
                    /\ Overlaid(r, w, users[u])
                    /\ Syncs(q, r, "checkbio", req[s])
                    /\ Writes(s, r, q, "duplicate")
    <2>1. SaveAndSync(s, w, "checkbio", "duplicate")
      BY <1>3 DEF FinaliseProfile
    <2> QED BY <1>1, <1>2, <1>4, <2>1, SaveStep
  <1>6. /\ users[u] \in Row /\ Consistent(users[u]) /\ users[u].id = u
        /\ LET d == req[s].doc IN
            /\ d.email = users[u].email /\ d.isEmailVerified = users[u].isEmailVerified
            /\ d.provider = users[u].provider /\ d.bio = users[u].bio
            /\ d.newEmailPending = users[u].newEmailPending
    BY <1>1, <1>2, <1>5, Facts DEF Current
  <1>7. /\ r.email = users[u].email
        /\ r.isEmailVerified = users[u].isEmailVerified
        /\ r.password = users[u].password
        /\ r.provider = users[u].provider
        /\ r.emailVerificationToken = users[u].emailVerificationToken
        /\ r.emailVerificationExpires = users[u].emailVerificationExpires
        /\ r.previousEmail = users[u].previousEmail
        /\ r.migrationExpiry = users[u].migrationExpiry
        /\ r.newEmailPending = users[u].newEmailPending
        /\ r.migrationToken = users[u].migrationToken
        /\ r.migrationTokenExpires = users[u].migrationTokenExpires
        /\ r.currentEmailVerified = users[u].currentEmailVerified
        /\ r.newEmailVerified = users[u].newEmailVerified
        /\ r.lastMigrationDate = users[u].lastMigrationDate
        /\ r.tokenVersion = users[u].tokenVersion
        /\ r.migrationHistory = MarkSuccess(req[s].doc.migrationHistory, req[s].e)
        /\ r.bio = users[u].bio
    BY <1>1, <1>3, <1>5, <1>6, SMTT(30) DEF NoRow, Overlaid, Preserved, ++
  <1>7a. r \in Row
    <2>1. r.migrationHistory \in Seq(History)
      <3>1. req[s].doc.migrationHistory \in Seq(History)
        BY <1>1, RowFields
      <3> QED BY <1>1, <1>7, <3>1, Histories
    <2>2. /\ {0, now, now + TokenTtl, now + GraceTtl} \subseteq Ends
          /\ {0, gen + 1} \subseteq 0..(MaxTokens + 1)
      BY Deadlines
    <2>2a. /\ r.id \in 0..MaxUsers /\ r.email \in Emails \cup {None} /\ r.isEmailVerified \in BOOLEAN
           /\ r.password \in BOOLEAN /\ r.provider \in OAuthIds \cup {Local}
           /\ r.emailVerificationToken \in 0..(MaxTokens + 1) /\ r.emailVerificationExpires \in Ends
           /\ r.previousEmail \in Emails \cup {None} /\ r.migrationExpiry \in Ends
           /\ r.newEmailPending \in Emails \cup {None} /\ r.migrationToken \in 0..(MaxTokens + 1)
           /\ r.migrationTokenExpires \in Ends /\ r.currentEmailVerified \in BOOLEAN
           /\ r.newEmailVerified \in BOOLEAN /\ r.lastMigrationDate \in Ends
           /\ r.tokenVersion \in Nat /\ r.bio \in {"old", "new"}
      BY <1>1, <1>5, <1>6, <1>7, <2>2, RowFields, AccountsAssumption, ZenonT(30)
    <2> QED BY <1>5, <2>1, <2>2a, RowIntro DEF Overlaid
  <1>8. ~Duplicate(r)
    BY <1>1, <1>5, <1>6, <1>7, NotDuplicate
  <1>9. req' = [req EXCEPT ![s] = q] /\ WriteRow(r) /\ UNCHANGED post
    BY <1>5, <1>8 DEF FinaliseProfile, Writes, Fresh
  <1>9a. gen' \in 0..MaxTokens /\ (gen' = gen \/ gen' = gen + 1) /\ gen <= gen'
    BY <1>1, <1>9, Deadlines DEF post
  <1>9b. /\ links' = links /\ opened' \subseteq Link /\ opened \subseteq opened' /\ proved' = proved
         /\ \A l \in opened' : l \notin opened => l.secret = 0
    BY <1>9 DEF post, proved, Inv, Types
  <1>10. UNCHANGED <<nextId, now, up>> /\ movedAt'[u] = movedAt[u] /\ Current(r)' /\ r.email # None
    <2>1. r.email # None
      BY <1>1, <1>5, <1>7, StoreAssumption DEF Live
    <2>2. WriteRow(r)
      BY <1>9
    <2>3. /\ movedAt'[u] = IF r.email # users[u].email THEN now ELSE movedAt[u]
          /\ UNCHANGED <<nextId, now, up>> /\ Current(r)'
      BY <1>5, <1>7a, <2>1, <2>2, Written
    <2> QED BY <1>7, <2>1, <2>3
  <1>11. Consistent(r)'
    <2>1. /\ \A kind, v, e : Used(kind, v, e) => Used(kind, v, e)'
          /\ \A e : Proved(e) => Proved(e)'
          /\ Secrets \subseteq Secrets'
          /\ gen' = gen + 1 => gen + 1 \in Secrets'
      BY <1>9a, <1>9b, StillUsed
    <2> QED
      BY <1>1, <1>2, <1>5, <1>6, <1>7, <1>9, <1>10, <2>1, ZenonT(60) DEF Consistent, Trusted, Reliable
  <1>12. Knows(q)' /\ Behind(q, u) /\ \A v \in Users : Behind(q, v) => v = u
    <2>1. q = ([doc |-> r] ++ SyncFrom(r, "checkbio")) ++ req[s]
      BY <1>5 DEF Syncs
    <2>2. /\ Fields(q) /\ q.pc = "sync" /\ q.cont = "checkbio" /\ q.sd = r /\ q.doc = r
          /\ q.op = req[s].op /\ q.e = req[s].e /\ q.x = req[s].x /\ q.keep = req[s].keep
          /\ \A v : Behind(q, v) <=> v = u
      BY <1>1, <1>5, <1>7a, <1>10, <2>1, SyncShape DEF Continuations
    <2>3. Documents(q)' /\ Migrating(q)' /\ (Reliable => Lookups(q)')
      BY <1>1, <1>2, <1>6, <1>7, <1>10, <2>2, Deadlines, ZenonT(60) DEF Documents, Migrating, Lookups
    <2> QED BY <1>1, <1>5, <1>7a, <1>10, <2>1, <2>2, <2>3, SyncKnows DEF Continuations
  <1>13. /\ \A v \in Users \ {u} : ~Behind(req[s], v)
         /\ Behind(q, u)
    BY <1>1, <1>2, <1>5, <1>12 DEF Behind
  <1>14. /\ \/ r.migrationToken = 0 \/ r.migrationToken \in (gen + 1)..gen'
            \/ /\ r.migrationToken = users[u].migrationToken
               /\ r.email = users[u].email /\ r.newEmailPending = users[u].newEmailPending
         /\ \/ r.emailVerificationToken = 0 \/ r.emailVerificationToken \in (gen + 1)..gen'
            \/ /\ r.emailVerificationToken = users[u].emailVerificationToken
               /\ \/ r.provider # Local
                  \/ r.provider = users[u].provider /\ r.email = users[u].email
    BY <1>1, <1>6, <1>7, <1>9, Deadlines
  <1>15. users[u].isEmailVerified \/ r.email # users[u].email => r.isEmailVerified
    BY <1>1, <1>2, <1>6, <1>7
  <1>16. r.email # users[u].email =>
            /\ movedAt[u] # 0 => now - movedAt[u] >= Cooldown
            /\ Reliable => Used("current", u, users[u].email) /\ Used("new", u, r.email)
    BY <1>7
  <1>17. r.bio = users[u].bio \/ At(s, "savebio")
    BY <1>1, <1>6, <1>7
  <1>18. req' = [req EXCEPT ![s] = q] /\ WriteRow(r)
    BY <1>9
  <1> QED
    BY <1>5, <1>7, <1>7a, <1>8, <1>9a, <1>9b, <1>10, <1>11, <1>12, <1>13, <1>14, <1>15, <1>16, <1>17,
       <1>18, Writing

\* Either way the invariant is kept.
LEMMA FinaliseProfileGood ==
    ASSUME Inv, OneAtATime, NEW s \in Slots, FinaliseProfile(s) PROVE Good
  BY FinaliseProfileSame, FinaliseProfileOther

\* finalizeMigrationInternal moves the account to the new address, if the version of
\* its tokens is the one it has read ...
LEMMA FinaliseUpdateSame ==
    ASSUME Inv, OneAtATime, NEW s \in Slots, FinaliseUpdate(s), users[req[s].doc.id].tokenVersion = req[s].doc.tokenVersion PROVE Good
  <1>1. /\ Knows(req[s]) /\ Fields(req[s]) /\ req[s].pc = "finupdate" /\ up
        /\ Current(req[s].doc) /\ req[s].doc \in Row /\ req[s].keep \in Row
        /\ BothVerified(users[req[s].doc.id])
        /\ users[req[s].doc.id].newEmailPending = req[s].e
        /\ req[s].e \in Emails /\ req[s].e # None
        /\ req[s].keep.bio = req[s].doc.bio /\ req[s].keep.provider = req[s].doc.provider
    <2>1. Knows(req[s]) /\ Fields(req[s]) /\ req[s].pc = "finupdate" /\ up
      BY Facts DEF FinaliseUpdate
    <2>2. Current(req[s].doc) /\ req[s].doc \in Row /\ req[s].keep \in Row
      BY <2>1, StoreAssumption DEF Knows, Documents, Fields
    <2>3. BothVerified(users[req[s].doc.id])
      BY <2>1, <2>2, StoreAssumption DEF Knows, Documents, Migrating, Lookups, Verifying, Generating
    <2>4. users[req[s].doc.id].newEmailPending = req[s].e
      BY <2>1, <2>2, StoreAssumption DEF Knows, Documents, Migrating, Lookups, Verifying, Generating
    <2>5. req[s].e \in Emails
      BY <2>1, <2>2, StoreAssumption DEF Knows, Documents, Migrating, Lookups, Verifying, Generating
    <2>6. req[s].e # None
      BY <2>1, <2>2, StoreAssumption DEF Knows, Documents, Migrating, Lookups, Verifying, Generating
    <2>7. req[s].keep.bio = req[s].doc.bio
      BY <2>1, <2>2, StoreAssumption DEF Knows, Documents, Migrating, Lookups, Verifying, Generating
    <2>8. req[s].keep.provider = req[s].doc.provider
      BY <2>1, <2>2, StoreAssumption DEF Knows, Documents, Migrating, Lookups, Verifying, Generating
    <2> QED BY <2>1, <2>2, <2>3, <2>4, <2>5, <2>6, <2>7, <2>8
  <1>2. PICK u : u = req[s].doc.id
    OBVIOUS
  <1>2a. req[s].doc.tokenVersion + 1 \in Nat
    BY <1>1, RowFields
  <1>3. PICK w : w = Moved(req[s].doc, req[s].e) ++ [migrationTokenExpires |-> 0,
                                     tokenVersion |-> req[s].doc.tokenVersion + 1]
    OBVIOUS
  <1>4. DOMAIN w \subseteq DOMAIN NoRow \ {"id"}
    BY <1>3 DEF NoRow, Moved, ++
  <1>5. PICK r, q : /\ u \in Users /\ Live(u) /\ r.id = u
                    /\ Overlaid(r, w, users[u])
                    /\ q = [pc |-> "finprofile", doc |-> r] ++ req[s]
                    /\ Writes(s, r, q, "duplicate")
    <2>1. u \in Users /\ Live(u) /\ users[u] \in Row /\ users[u].id = u
      BY <1>1, <1>2, Facts DEF Current
    <2>2. PICK r : r = w ++ users[u]
      OBVIOUS
    <2>3. PICK q : q = [pc |-> "finprofile", doc |-> r] ++ req[s]
      OBVIOUS
    <2>4. Writes(s, r, q, "duplicate")
      <3>1. r = (Moved(req[s].doc, req[s].e) ++ [migrationTokenExpires |-> 0,
                                     tokenVersion |-> req[s].doc.tokenVersion + 1]) ++ users[req[s].doc.id]
        BY <1>2, <1>3, <2>2
      <3>2. ([pc |-> "duplicate"] ++ <<>>) = [pc |-> "duplicate"]
        BY DEF ++
      <3>3. IF Duplicate(r)
            THEN Goto(s, [pc |-> "duplicate"]) /\ UNCHANGED <<store, now, health, movedAt>>
            ELSE Goto(s, [pc |-> "finprofile", doc |-> r]) /\ WriteRow(r)
        BY <1>2, <2>1, <3>1 DEF FinaliseUpdate
      <3> QED BY <2>3, <3>2, <3>3 DEF Goto, GoOn, Writes
    <2>5. Overlaid(r, w, users[u])
      BY <1>4, <2>1, <2>2, Merged DEF Overlaid
    <2>6. r.id = u
      BY <1>4, <2>1, <2>5, SMTT(30) DEF NoRow, Overlaid
    <2> QED BY <2>1, <2>3, <2>4, <2>5, <2>6
  <1>6. /\ users[u] \in Row /\ Consistent(users[u]) /\ users[u].id = u
        /\ LET d == req[s].doc IN
            /\ d.email = users[u].email /\ d.isEmailVerified = users[u].isEmailVerified
            /\ d.provider = users[u].provider /\ d.bio = users[u].bio
            /\ d.newEmailPending = users[u].newEmailPending
        /\ users[u].currentEmailVerified /\ users[u].newEmailVerified
        /\ users[u].isEmailVerified /\ users[u].newEmailPending = req[s].e
        /\ Used("current", u, users[u].email) /\ Used("new", u, req[s].e)
        /\ users[u].provider = Local => users[u].emailVerificationToken = 0
        /\ movedAt[u] # 0 => now - movedAt[u] >= Cooldown
        /\ movedAt[u] <= now /\ now <= now
        /\ Reliable => req[s].e # users[u].email
    <2>1. users[u] \in Row /\ Consistent(users[u]) /\ users[u].id = u
      BY <1>1, <1>2, <1>5, Facts
    <2>2. now \in Nat /\ movedAt[u] \in Nat /\ users[u].lastMigrationDate \in Nat
      BY <1>5, <2>1, RowFields, StoreAssumption, SMTT(30) DEF Inv, Types, Ends
    <2>3. /\ users[u].currentEmailVerified /\ users[u].newEmailVerified
          /\ users[u].newEmailPending = req[s].e
      BY <1>1, <1>2 DEF BothVerified
    <2>4. movedAt[u] <= now /\ now <= now
      BY <2>1, <2>2, SMTT(30) DEF Consistent
    <2> QED BY <1>1, <1>2, <1>5, <2>1, <2>3, <2>4, ZenonT(30) DEF Current, Consistent
  <1>7. /\ r.email = req[s].e
        /\ r.isEmailVerified = TRUE
        /\ r.password = users[u].password
        /\ r.provider = users[u].provider
        /\ r.emailVerificationToken = users[u].emailVerificationToken
        /\ r.emailVerificationExpires = users[u].emailVerificationExpires
        /\ r.previousEmail = users[u].email
        /\ r.migrationExpiry = now + GraceTtl
        /\ r.newEmailPending = None
        /\ r.migrationToken = 0
        /\ r.migrationTokenExpires = 0
        /\ r.currentEmailVerified = FALSE
        /\ r.newEmailVerified = FALSE
        /\ r.lastMigrationDate = now
        /\ r.tokenVersion = req[s].doc.tokenVersion + 1
        /\ r.migrationHistory = users[u].migrationHistory
        /\ r.bio = users[u].bio
    BY <1>1, <1>2, <1>3, <1>5, <1>6, ZenonT(30) DEF NoRow, Overlaid, Moved, ++
  <1>7a. r \in Row
    <2>1. r.migrationHistory \in Seq(History)
      BY <1>6, <1>7, RowFields
    <2>2. /\ {0, now, now + TokenTtl, now + GraceTtl} \subseteq Ends
          /\ {0, gen + 1} \subseteq 0..(MaxTokens + 1)
      BY Deadlines
    <2>2a. /\ r.id \in 0..MaxUsers /\ r.email \in Emails \cup {None} /\ r.isEmailVerified \in BOOLEAN
           /\ r.password \in BOOLEAN /\ r.provider \in OAuthIds \cup {Local}
           /\ r.emailVerificationToken \in 0..(MaxTokens + 1) /\ r.emailVerificationExpires \in Ends
           /\ r.previousEmail \in Emails \cup {None} /\ r.migrationExpiry \in Ends
           /\ r.newEmailPending \in Emails \cup {None} /\ r.migrationToken \in 0..(MaxTokens + 1)
           /\ r.migrationTokenExpires \in Ends /\ r.currentEmailVerified \in BOOLEAN
           /\ r.newEmailVerified \in BOOLEAN /\ r.lastMigrationDate \in Ends
           /\ r.tokenVersion \in Nat /\ r.bio \in {"old", "new"}
      BY <1>1, <1>2a, <1>5, <1>6, <1>7, <2>2, RowFields, AccountsAssumption
    <2> QED BY <1>5, <2>1, <2>2a, RowIntro DEF Overlaid
  <1>8a. Duplicate(r) => Good
    <2> SUFFICES ASSUME Duplicate(r) PROVE Good
      OBVIOUS
    <2>1. GoOn(s, "duplicate", <<>>)
      BY <1>5 DEF Writes
    <2>2. Reads
      BY <1>5 DEF Writes, Reads, FinaliseUpdate
    <2>3. InStep(req[s])
      BY <1>1 DEF InStep, Behind
    <2>4. Goto(s, [pc |-> "duplicate"])
      BY <2>1, GoOnTo
    <2>5. PICK p : p = [pc |-> "duplicate"] ++ req[s]
      OBVIOUS
    <2>6. Knows(p)
      BY <1>1, <2>5, ZenonT(30)
      DEF Knows, Fields, Documents, Migrating, Lookups, Verifying, Inserting, Generating, ++, Idle
    <2> QED BY <2>2, <2>3, <2>4, <2>5, <2>6, Continues
  <1>8. SUFFICES ASSUME ~Duplicate(r) PROVE Good
    BY <1>8a
  <1>9. req' = [req EXCEPT ![s] = q] /\ WriteRow(r) /\ UNCHANGED post
    BY <1>5, <1>8 DEF FinaliseUpdate, Writes, Fresh, Vouch
  <1>9a. gen' \in 0..MaxTokens /\ (gen' = gen \/ gen' = gen + 1) /\ gen <= gen'
    BY <1>1, <1>9, Deadlines DEF post
  <1>9b. /\ links' = links /\ opened' \subseteq Link /\ opened \subseteq opened' /\ proved' = proved
         /\ \A l \in opened' : l \notin opened => l.secret = 0
    BY <1>9 DEF post, proved, Inv, Types
  <1>10. UNCHANGED <<nextId, now, up>> /\ (r.email # users[u].email => movedAt'[u] = now)
          /\ (r.email = users[u].email => movedAt'[u] = movedAt[u])
           /\ Current(r)' /\ r.email # None
    <2>1. r.email # None
      BY <1>1, <1>5, <1>7, StoreAssumption DEF Live
    <2>2. WriteRow(r)
      BY <1>9
    <2>3. /\ movedAt'[u] = IF r.email # users[u].email THEN now ELSE movedAt[u]
          /\ UNCHANGED <<nextId, now, up>> /\ Current(r)'
      BY <1>5, <1>7a, <2>1, <2>2, Written
    <2> QED BY <1>7, <2>1, <2>3
  <1>11. Consistent(r)'
    <2>1. /\ \A kind, v, e : Used(kind, v, e) => Used(kind, v, e)'
          /\ \A e : Proved(e) => Proved(e)'
          /\ Secrets \subseteq Secrets'
          /\ gen' = gen + 1 => gen + 1 \in Secrets'
      BY <1>9a, <1>9b, StillUsed
    <2>2. Proved(r.email)
      BY <1>6, <1>7 DEF Used, Proved
    <2> QED
      BY <1>1, <1>2, <1>5, <1>6, <1>7, <1>9, <1>10, <2>1, <2>2, Deadlines, ZenonT(60) DEF Consistent, Trusted, Reliable
  <1>12. Knows(q)' /\ Behind(q, u)
    <2>1. /\ q.pc = "finprofile" /\ DOMAIN q = DOMAIN Idle /\ q.cont = req[s].cont /\ q.k = req[s].k
          /\ q.op = req[s].op /\ q.e = req[s].e /\ q.x = req[s].x /\ q.keep = req[s].keep
          /\ q.id = req[s].id /\ q.link = req[s].link /\ q.doc = r /\ q.sd = req[s].sd
      BY <1>1, <1>5 DEF Fields, ++, Idle
    <2>2. Fields(q)'
      BY <1>1, <1>7a, <2>1 DEF Fields
    <2>3. Documents(q)' /\ Migrating(q)' /\ (Reliable => Lookups(q)') /\ Verifying(q)'
      <3>1. Documents(q)'
        BY <1>1, <1>6, <1>7, <1>10, <2>1 DEF Documents
      <3>2. Migrating(q)' /\ (Reliable => Lookups(q)') /\ Verifying(q)'
        BY <1>1, <2>1 DEF Migrating, Lookups, Verifying
      <3> QED BY <3>1, <3>2
    <2>4. Behind(q, u)
      BY <1>5, <2>1 DEF Behind
    <2> QED BY <2>4, <1>1, <1>10, <2>1, <2>2, <2>3 DEF Knows, Inserting, Generating, Reliable
  <1>13. /\ \A v \in Users \ {u} : ~Behind(req[s], v)
         /\ Behind(q, u)
    BY <1>1, <1>2, <1>5, <1>12 DEF Behind
  <1>14. /\ \/ r.migrationToken = 0 \/ r.migrationToken \in (gen + 1)..gen'
            \/ /\ r.migrationToken = users[u].migrationToken
               /\ r.email = users[u].email /\ r.newEmailPending = users[u].newEmailPending
         /\ \/ r.emailVerificationToken = 0 \/ r.emailVerificationToken \in (gen + 1)..gen'
            \/ /\ r.emailVerificationToken = users[u].emailVerificationToken
               /\ \/ r.provider # Local
                  \/ r.provider = users[u].provider /\ r.email = users[u].email
    BY <1>1, <1>6, <1>7, <1>9, Deadlines
  <1>15. users[u].isEmailVerified \/ r.email # users[u].email => r.isEmailVerified
    BY <1>1, <1>2, <1>6, <1>7, Zenon
  <1>16. r.email # users[u].email =>
            /\ movedAt[u] # 0 => now - movedAt[u] >= Cooldown
            /\ Reliable => Used("current", u, users[u].email) /\ Used("new", u, r.email)
    BY <1>6, <1>7
  <1>17. r.bio = users[u].bio \/ At(s, "savebio")
    BY <1>1, <1>6, <1>7
  <1>18. req' = [req EXCEPT ![s] = q] /\ WriteRow(r)
    BY <1>9
  <1> QED
    BY <1>5, <1>7, <1>7a, <1>8, <1>9a, <1>9b, <1>10, <1>11, <1>12, <1>13, <1>14, <1>15, <1>16, <1>17,
       <1>18, Writing

\* ... and gives up otherwise.
LEMMA FinaliseUpdateGood ==
    ASSUME Inv, OneAtATime, NEW s \in Slots, FinaliseUpdate(s) PROVE Good
  <1>1. req[s].pc = "finupdate" /\ Knows(req[s])
    BY Facts DEF FinaliseUpdate
  <1>2. InStep(req[s])
    BY <1>1 DEF InStep, Behind
  <1>3. CASE users[req[s].doc.id].tokenVersion = req[s].doc.tokenVersion
    BY <1>3, FinaliseUpdateSame
  <1>4. CASE users[req[s].doc.id].tokenVersion # req[s].doc.tokenVersion
    <2>1. Answer(s) /\ Reads
      BY <1>4 DEF FinaliseUpdate, Reads
    <2> QED BY <1>2, <2>1, Answers
  <1> QED BY <1>3, <1>4

\* The link to a new address nobody holds: a placeholder account is inserted.
LEMMA VerifyNewPlaceholderGood ==
    ASSUME Inv, OneAtATime, NEW s \in Slots, VerifyNewPlaceholder(s) PROVE Good
  <1>1. /\ Knows(req[s]) /\ Fields(req[s]) /\ req[s].pc = "placeholder" /\ up
        /\ req[s].e \in Emails /\ nextId \in Users /\ Current(req[s].doc)
    <2>1. Knows(req[s]) /\ Fields(req[s]) /\ req[s].pc = "placeholder" /\ up
      BY Facts DEF VerifyNewPlaceholder
    <2>2. nextId <= MaxUsers /\ nextId \in 1..(MaxUsers + 1)
      BY <2>1, Facts DEF Knows, Inserting
    <2>3. nextId \in Users
      BY <2>2, StoreAssumption DEF Users
    <2> QED BY <2>1, <2>3 DEF Knows, Documents
  <1>2. PICK u : u = nextId
    OBVIOUS
  <1>3. PICK r0 : r0 = [NoRow EXCEPT !.email = req[s].e]
    OBVIOUS
  <1>4. /\ r0.email = req[s].e /\ r0.isEmailVerified = FALSE /\ r0.provider = Local
        /\ r0.emailVerificationToken = 0
        /\ r0.previousEmail = None /\ r0.newEmailPending = None /\ r0.migrationToken = 0
        /\ r0.currentEmailVerified = FALSE /\ r0.newEmailVerified = FALSE
        /\ r0.lastMigrationDate = 0
        /\ r0 \in Row
    BY <1>1, <1>3, NoRowIsRow DEF Row, NoRow
  <1>5. InsertAndSync(s, r0, "saveverified") /\ UNCHANGED <<post, now, health>>
    BY <1>3 DEF VerifyNewPlaceholder
  <1>6. PICK r, q :
              /\ r \in Row /\ r.id = u /\ \A f \in DOMAIN NoRow \ {"id"} : r[f] = r0[f]
              /\ q = SyncFrom(r, "saveverified") ++ req[s]
              /\ IF Duplicate(r) THEN Answer(s) /\ UNCHANGED <<store, movedAt>>
                 ELSE /\ users' = [users EXCEPT ![u] = r] /\ nextId' = nextId + 1
                      /\ req' = [req EXCEPT ![s] = q] /\ UNCHANGED <<idx, movedAt>>
    BY <1>1, <1>2, <1>4, <1>5, InsertStep
  <1>7. InStep(req[s])
    BY <1>1 DEF InStep, Behind
  <1>8. CASE Duplicate(r)
    <2>1. Reads /\ Answer(s)
      BY <1>5, <1>6, <1>8 DEF Reads
    <2> QED BY <1>7, <2>1, Answers
  <1>9. CASE ~Duplicate(r)
    <2>1. /\ users' = [users EXCEPT ![u] = r] /\ nextId' = nextId + 1
          /\ req' = [req EXCEPT ![s] = q] /\ UNCHANGED <<idx, movedAt>>
      BY <1>6, <1>9
    <2>2. /\ r.email = req[s].e /\ r.isEmailVerified = FALSE /\ r.provider = Local
          /\ r.emailVerificationToken = 0
          /\ r.previousEmail = None /\ r.newEmailPending = None /\ r.migrationToken = 0
          /\ r.currentEmailVerified = FALSE /\ r.newEmailVerified = FALSE
          /\ r.lastMigrationDate = 0 /\ r.email # None
      BY <1>1, <1>4, <1>6, StoreAssumption DEF NoRow
    <2>3. /\ movedAt[u] = 0 /\ Current(r)'
          /\ \A v \in Users \ {u} : users'[v] = users[v] /\ (Live(v)' <=> Live(v))
          /\ \A d : Current(d) => Current(d)' /\ d.id # u
      <3>1. r \in Row /\ r.id = u /\ r.email # None /\ u \in Users /\ u = nextId
        BY <1>1, <1>2, <1>6, <2>2
      <3>2. users' = [users EXCEPT ![u] = r] /\ nextId' = nextId + 1 /\ movedAt' = movedAt
        BY <2>1
      <3> HIDE <1>6
      <3> QED BY <3>1, <3>2, Inserted
    <2>4. /\ gen' \in 0..MaxTokens /\ gen' = gen /\ links' = links /\ opened' = opened
          /\ opened' \subseteq Link /\ proved' = proved
      BY <1>5, Deadlines DEF post, proved, Inv, Types
    <2>5. Consistent(r)'
      BY <1>1, <1>2, <1>5, <1>6, <2>1, <2>2, <2>3, <2>4, NewRow
    <2>6. /\ q.pc = "sync" /\ q.cont = "saveverified" /\ q.sd = r /\ q.doc = req[s].doc
          /\ q.op = req[s].op /\ q.e = req[s].e /\ Behind(q, u)
          /\ up' /\ Current(r)' /\ Documents(q)' /\ Migrating(q)' /\ (Reliable => Lookups(q)')
                 => Knows(q)'
      <3>1. q = SyncFrom(r, "saveverified") ++ req[s] /\ r \in Row /\ r.id \in Users /\ r.email # None
            /\ r.id = u
        BY <1>1, <1>2, <1>6, <2>2
      <3>2. "saveverified" \in Continuations /\ Fields(req[s])
        BY <1>1 DEF Continuations
      <3> QED BY <3>1, <3>2, InsertSync
    <2>7. Documents(q)' /\ Migrating(q)' /\ (Reliable => Lookups(q)')
      <3>1. PICK d : d = req[s].doc
        OBVIOUS
      <3>2. d.id \in Users \ {u} /\ Current(d)'
        BY <1>1, <2>3, <3>1, ZenonT(30) DEF Current
      <3>3. /\ users[d.id].newEmailPending # None
            /\ IF req[s].op = "new" THEN Used("new", d.id, users[d.id].newEmailPending)
               ELSE Used("current", d.id, users[d.id].email)
        BY <1>1, <3>1 DEF Knows, Migrating
      <3>4. Used("new", d.id, users[d.id].newEmailPending)' <=>
                Used("new", d.id, users[d.id].newEmailPending)
        BY <2>3, <2>4, <3>2 DEF Used
      <3>5. Used("current", d.id, users[d.id].email)' <=> Used("current", d.id, users[d.id].email)
        BY <2>3, <2>4, <3>2 DEF Used
      <3>6. Migrating(q)'
        BY <2>3, <2>6, <3>1, <3>2, <3>3, <3>4, <3>5 DEF Migrating, Used
      <3> QED BY <2>6, <3>1, <3>2, <3>6 DEF Documents, Lookups
    <2>8. Knows(q)'
      BY <1>1, <1>5, <2>3, <2>6, <2>7 DEF health
    <2>9. \A l \in opened' : l \notin opened => l.secret = 0
      BY <2>4
    <2> QED BY <1>1, <1>2, <1>5, <1>6, <1>7, <1>9, <2>1, <2>2, <2>4, <2>5, <2>6, <2>8, <2>9,
               InsertGood
  <1> QED BY <1>8, <1>9

------------------------------------------------------------------------------
(* Every step *)

\* every step of a migration,
LEMMA MigrationStepGood ==
    ASSUME Inv, OneAtATime, NEW s \in Slots, MigrationStep(s) PROVE Good
  <1>1. FinaliseRelease(s) => Good
    BY ReleaseGood DEF FinaliseRelease
  <1>2. RecoverRelease(s) => Good
    BY ReleaseGood DEF RecoverRelease
  <1>3. FinaliseDelete(s) => Good
    BY DeleteGood DEF FinaliseDelete
  <1>4. RecoverDelete(s) => Good
    BY DeleteGood DEF RecoverDelete
  <1> QED
    BY <1>1, <1>2, <1>3, <1>4, InitiateLookupGood, InitiateExistsGood, InitiateReloadGood,
       InitiateSaveGood, MigrationMailGood, ResendSaveGood, VerifyMigrationFindGood,
       VerifyNewLookupGood, VerifyNewExistsGood, VerifyNewPlaceholderGood,
       VerifyMigrationSaveGood, VerifyHistoryReadGood, VerifyHistorySaveGood,
       VerifyFinaliseGood, FinaliseReadGood, FinaliseLookupGood, FinaliseExistsGood,
       FinaliseUpdateGood, FinaliseProfileGood, FinaliseReloadGood, FinaliseSaveGood,
       FinaliseCheckBioGood, FinaliseSaveBioGood, RecoverLookupGood, RecoverFindGood,
       LoginUserGood, LoginSaveGood, CleanupSaveGood
    DEF MigrationStep

\* every start of one,
LEMMA MigrationStartGood ==
    ASSUME Inv, OneAtATime, NEW s \in Slots, MigrationStart(s) PROVE Good
  BY InitiateMigrationGood, VerifyMigrationGood, ResendMigrationGood, FinalizeMigrationGood,
     CleanupExpiredGood, LoginGood
  DEF MigrationStart

\* and so every step of the program: the invariant is inductive.
LEMMA NextGood ==
    ASSUME Inv, OneAtATime, [Next]_vars PROVE Good
  BY StutterGood, AccountStepGood, AccountStartGood, MigrationStepGood, MigrationStartGood,
     StatementFailsGood, BumpVersionGood, TickGood, SweepGood, CrashGood, BootGood
  DEF Next

------------------------------------------------------------------------------
(* What holds of every behaviour *)

\* Inv is an invariant.
LEMMA Always ==
    ASSUME OneAtATime PROVE Spec => []Inv
  <1>1. Init => Inv
    BY InitGood
  <1>2. Inv /\ [Next]_vars => Inv'
    BY NextGood DEF Good
  <1> QED BY <1>1, <1>2, PTL DEF Spec

\* Every variable has its type, whatever the requests, crashes and refused
\* statements do (save() and the statements of identity-index.service.ts).
THEOREM TypeCorrect ==
    OneAtATime => (Spec => []TypeOK)
  <1> SUFFICES ASSUME OneAtATime PROVE Spec => []TypeOK
    OBVIOUS
  <1>1. Inv => TypeOK
    <2> SUFFICES ASSUME Inv PROVE TypeOK
      OBVIOUS
    <2>1. gen \in 0..(MaxTokens + 1)
      BY Deadlines, StoreAssumption, SMTT(30)
    <2>2. \A s \in Slots : Fields(req[s])
      BY DEF Inv, Knows
    <2> QED BY <2>1, <2>2 DEF Inv, Types, Rows, TypeOK, Fields
  <1> QED BY <1>1, Always, PTL

\* Once no request is under way and no statement of the last backfill or sync
\* was refused, the index resolves every address and every OAuth identity to the
\* row that has it, and an address nobody has to nobody (syncIdentityIndexesFromUser
\* and backfillIdentityIndexes).
THEOREM IndexFollows ==
    OneAtATime => (Spec => []IndexResolves)
  <1> SUFFICES ASSUME OneAtATime PROVE Spec => []IndexResolves
    OBVIOUS
  <1>1. Inv => IndexResolves
    <2> SUFFICES ASSUME Inv, Quiet, ~broken PROVE
            /\ \A e \in Emails :
                findUserIdByPrimaryEmail(e) =
                    IF \E u \in Users : users[u].email = e
                    THEN CHOOSE u \in Users : users[u].email = e ELSE 0
            /\ \A u \in Users : Live(u) /\ users[u].provider # Local =>
                    findUserIdByOAuth(users[u].provider) = u
      BY DEF IndexResolves
    <2>1. \A u \in Users : Live(u) => Settled(u)
      BY DEF Inv, Index, Intact, Quiet, Behind
    <2>2. \A u \in Users : users[u] \in Row /\ users[u].provider \in OAuthIds \cup {Local}
      BY RowFields DEF Inv, Types
    <2>3. ASSUME NEW e \in Emails
          PROVE  findUserIdByPrimaryEmail(e) =
                    IF \E u \in Users : users[u].email = e
                    THEN CHOOSE u \in Users : users[u].email = e ELSE 0
      <3>1. PICK key : key = <<"primary", e>>
        OBVIOUS
      <3>2. key \in Keys /\ key \in Permanent
        BY <3>1 DEF Keys, Permanent
      <3>3. /\ idx[key].user \in 0..MaxUsers /\ idx[key].exp = 0
            /\ idx[key].user # 0 => Live(idx[key].user)
        BY <3>2 DEF Inv, Types, Index
      <3>4. findUserIdByPrimaryEmail(e) = idx[key].user
        BY <3>1, <3>3 DEF findUserIdByPrimaryEmail, isActive
      <3>5. \A u \in Users : users[u].email = e => Live(u)
        BY StoreAssumption DEF Live, Users
      <3>6. \A u \in Users : Live(u) => (Wants(users[u], key) <=> users[u].email = e)
        BY <2>2, <3>1, StoreAssumption DEF Wants, OAuthIds
      <3>7. \A u \in Users : Live(u) => (idx[key].user = u <=> users[u].email = e)
        BY <2>1, <3>2, <3>6 DEF Settled
      <3>8. CASE \E u \in Users : users[u].email = e
        <4>1. PICK u \in Users : u = CHOOSE v \in Users : users[v].email = e
          BY <3>8
        <4>2. users[u].email = e
          BY <3>8, <4>1
        <4> QED BY <3>4, <3>5, <3>7, <3>8, <4>1, <4>2
      <3>9. CASE ~\E u \in Users : users[u].email = e
        <4>1. idx[key].user = 0
          BY <3>3, <3>7, <3>9, StoreAssumption DEF Users
        <4> QED BY <3>4, <3>9, <4>1
      <3> QED BY <3>8, <3>9
    <2>4. ASSUME NEW u \in Users, Live(u), users[u].provider # Local
          PROVE  findUserIdByOAuth(users[u].provider) = u
      <3>1. users[u].provider \in Permanent
        BY <2>2, <2>4 DEF Permanent
      <3> QED BY <2>1, <2>4, <3>1 DEF Settled, Wants, findUserIdByOAuth
    <2> QED BY <2>3, <2>4
  <1> QED BY <1>1, Always, PTL

\* An account is marked verified only if a link mailed to its address was used, or
\* an OAuth provider vouched for the address: whatever verifyEmail, the OAuth
\* strategy, a second registration and finalizeMigrationInternal do to the flag and
\* to the address, and whatever statements are refused.  (Where the configuration
\* asks for links.)
THEOREM ProvedVerified ==
    OneAtATime /\ ~AutoVerifyEmail => (Spec => []VerifiedIsProved)
  <1> SUFFICES ASSUME OneAtATime, ~AutoVerifyEmail
               PROVE  Spec => []VerifiedIsProved
    OBVIOUS
  <1>1. Inv => VerifiedIsProved
    BY DEF Inv, Rows, Consistent, Trusted, Proved, VerifiedIsProved
  <1> QED BY <1>1, Always, PTL

\* The former address of an account is never its present one: a migration is
\* finalised once, by finalizeMigrationInternal or by login, and never to the address
\* the account has.
THEOREM FormerKept ==
    OneAtATime /\ MaxFaults = 0 => (Spec => []FormerAddressKept)
  <1> SUFFICES ASSUME OneAtATime, MaxFaults = 0 PROVE Spec => []FormerAddressKept
    OBVIOUS
  <1>1. Inv => FormerAddressKept
    BY DEF Inv, Rows, Consistent, Reliable, FormerAddressKept
  <1> QED BY <1>1, Always, PTL

\* An account does not move twice within the cooldown of initiateMigration.
THEOREM Spaced ==
    OneAtATime => (Spec => MigrationsSpaced)
  <1> SUFFICES ASSUME OneAtATime PROVE Spec => MigrationsSpaced
    OBVIOUS
  <1>1. Inv /\ [Next]_vars =>
            [\A u \in Users : movedAt'[u] # movedAt[u] /\ movedAt[u] # 0 =>
                 movedAt'[u] - movedAt[u] >= Cooldown]_movedAt
    BY NextGood DEF Good, Spaces
  <1> QED BY <1>1, Always, PTL DEF Spec, MigrationsSpaced

\* A migration brings the profile along: the bio changes only in updateBio
\* (applyUserData and verifyBio in finalizeMigrationInternal), or with the row.
THEOREM BioKept ==
    OneAtATime => (Spec => BioSurvives)
  <1> SUFFICES ASSUME OneAtATime PROVE Spec => BioSurvives
    OBVIOUS
  <1>1. Inv /\ [Next]_vars =>
            [\A u \in Users : Live(u) /\ users[u].bio # users'[u].bio =>
                 \/ users'[u] = NoRow
                 \/ \E s \in Slots : At(s, "savebio")]_users
    BY NextGood DEF Good, KeepsBio
  <1> QED BY <1>1, Always, PTL DEF Spec, BioSurvives

\* The accounts implement EmailOwnership: an address has at most one owner, an
\* account moves only after the links to its present and to its next address were
\* used, and an account disappears only in favour of such a move to its address
\* (finalizeMigrationInternal, login).  A refused statement on the index is what can
\* break this, and is excluded.
THEOREM Owned ==
    OneAtATime /\ MaxFaults = 0 => (Spec => OwnershipKept)
  <1> SUFFICES ASSUME OneAtATime, MaxFaults = 0 PROVE Spec => OwnershipKept
    OBVIOUS
  <1>1. Init => Ownership!Init
    <2> SUFFICES ASSUME Init PROVE Ownership!Init
      OBVIOUS
    <2>1. Inv
      BY InitGood
    <2>2. \A u \in Users : ~Live(u) => ~(u < nextId)
      <3>1. nextId = Len(Seed) + 1 /\ Seed \in Seq(Row) /\ Len(Seed) \in Nat /\ DOMAIN Seed = 1..Len(Seed)
        BY SeedAssumption DEF Init
      <3>2. ASSUME NEW u \in Users, u < nextId PROVE Live(u)
        <4>1. u \in DOMAIN Seed /\ users[u] = Seed[u] /\ u # 0
          BY <3>1, <3>2, StoreAssumption DEF Init, Users
        <4> QED BY <4>1, SeedAssumption DEF Live
      <3> QED BY <3>2
    <2>3. \A u \in Users : owner[u] = IF Live(u) THEN users[u].email ELSE "unborn"
      BY <2>2 DEF owner
    <2>4. \A u \in Users : Live(u) => users[u].email \in Emails
      BY <2>1, RowFields DEF Inv, Types, Live
    <2>5. owner \in [Users -> Emails \cup {"unborn"}]
      <3>1. \A u \in Users : owner[u] \in Emails \cup {"unborn"}
        BY <2>3, <2>4
      <3>2. owner = [u \in Users |-> owner[u]]
        BY DEF owner
      <3> QED BY <3>1, <3>2
    <2>6. \A u, v \in Users : owner[u] = owner[v] => u = v \/ owner[u] = "unborn"
      BY <2>1, <2>3, <2>4, OwnershipAssumption DEF Inv, Rows, Apart
    <2>7. proved \subseteq Users \X {"current", "new"} \X Emails
      <3>1. opened \subseteq Link
        BY <2>1 DEF Inv, Types
      <3> QED BY <3>1 DEF proved, Link
    <2> QED BY <2>5, <2>6, <2>7 DEF Ownership!Init, owner, proved
  <1>2. Inv /\ [Next]_vars => Ownership!Next \/ UNCHANGED <<owner, proved>>
    BY NextGood DEF Good, Reliable
  <1>3. OwnershipKept <=> Ownership!Init /\ [][Ownership!Next]_<<owner, proved>>
    BY DEF OwnershipKept, Ownership!Spec, owner, proved
  <1> QED BY <1>1, <1>2, <1>3, Always, PTL DEF Spec

------------------------------------------------------------------------------
(* The history of an account tells what has become of its migrations *)

\* the first n entries are shown as a success
Shown(h, n) == \A i \in 1..n : DisplayStatus(h[i]) = "success"

\* the entry of the migration that is pending
Entry(r) == [to |-> r.newEmailPending, status |-> "pending",
             cur |-> r.currentEmailVerified, new |-> r.newEmailVerified]

\* the last entry is that of the pending migration, all others are a success
Told(r) ==
    LET h == r.migrationHistory IN
    IF r.newEmailPending = None THEN Shown(h, Len(h))
    ELSE h # <<>> /\ Shown(h, Len(h) - 1) /\ h[Len(h)] = Entry(r)

\* ... once the flag of the link just used is noted
ToldSoon(r, op) ==
    LET h == r.migrationHistory IN
    /\ r.newEmailPending # None /\ h # <<>> /\ Shown(h, Len(h) - 1)
    /\ Entry(r) = IF op = "new" THEN [h[Len(h)] EXCEPT !.new = TRUE]
                  ELSE [h[Len(h)] EXCEPT !.cur = TRUE]

\* The history of every account tells, but for the one link a request is at.
HistInv ==
    /\ \A s \in Slots : Recalls(req[s])
    /\ \A u \in Users : Live(u) =>
           \/ /\ \A s \in Slots : ~(InHistory(req[s]) /\ req[s].doc.id = u)
              /\ Told(users[u])
           \/ \E s \in Slots : /\ InHistory(req[s]) /\ req[s].doc.id = u
                               /\ ToldSoon(users[u], req[s].op)

\* The history of a row.
LEMMA RowHistory ==
    ASSUME Inv, NEW u \in Users
    PROVE  /\ users[u].migrationHistory \in Seq(History)
           /\ \A i \in 1..Len(users[u].migrationHistory) : users[u].migrationHistory[i] \in History
           /\ Len(users[u].migrationHistory) \in Nat
           /\ users[u].migrationHistory # <<>> => Len(users[u].migrationHistory) > 0
           /\ users[u].newEmailPending \in Emails \cup {None}
  <1>1. users[u].migrationHistory \in Seq(History) /\ users[u].newEmailPending \in Emails \cup {None}
    BY RowFields DEF Inv, Types
  <1> QED BY <1>1

\* A migration is begun: its entry is the last one.
LEMMA InitiatedTold ==
    ASSUME NEW p, NEW r, p.migrationHistory \in Seq(History), Initiated(p, r), Told(p)
    PROVE  Told(r)
  <1>1. PICK h, e : h = p.migrationHistory /\ e = r.newEmailPending
    OBVIOUS
  <1>2. /\ Shown(h, Len(h)) /\ e # None /\ h \in Seq(History)
        /\ r.migrationHistory = Append(h, Pending(e))
    BY <1>1, StoreAssumption DEF Initiated, Told
  <1>3. PICK g : g = Append(h, Pending(e))
    OBVIOUS
  <1>4. /\ Len(g) = Len(h) + 1 /\ g # <<>> /\ g[Len(g)] = Pending(e)
        /\ \A i \in 1..Len(h) : g[i] = h[i]
    BY <1>2, <1>3
  <1>5. Shown(g, Len(g) - 1)
    BY <1>2, <1>4 DEF Shown
  <1>6. Pending(e) = Entry(r)
    BY <1>1 DEF Initiated, Pending, Entry
  <1> QED BY <1>1, <1>2, <1>3, <1>4, <1>5, <1>6 DEF Told

\* It is concluded: the entry is shown as a success, also where it was left alone.
LEMMA ConcludedTold ==
    ASSUME NEW p, NEW r, p.migrationHistory \in Seq(History), Concluded(p, r), Told(p)
    PROVE  Told(r)
  <1>1. PICK h : h = p.migrationHistory
    OBVIOUS
  <1>2. Shown(h, Len(h))
    <2>1. CASE p.newEmailPending = None
      BY <1>1, <2>1 DEF Told
    <2>2. CASE p.newEmailPending # None
      <3>1. BothVerified(p)
        BY <2>2 DEF Concluded
      <3>2. h # <<>> /\ Shown(h, Len(h) - 1) /\ h[Len(h)] = Entry(p) /\ Len(h) \in Nat
        BY <1>1, <2>2 DEF Told
      <3>3. DisplayStatus(Entry(p)) = "success"
        BY <3>1 DEF DisplayStatus, Entry, BothVerified
      <3>4. \A i \in 1..Len(h) : i \in 1..(Len(h) - 1) \/ i = Len(h)
        BY <3>2
      <3> QED BY <3>2, <3>3, <3>4 DEF Shown
    <2> QED BY <2>1, <2>2
  <1>3. CASE r.migrationHistory = h
    BY <1>2, <1>3 DEF Told, Concluded
  <1>4. CASE \E e \in Emails : r.migrationHistory = MarkSuccess(h, e)
    <2>1. PICK e \in Emails : r.migrationHistory = MarkSuccess(h, e)
      BY <1>4
    <2>2. PICK i : i = SelectInSeq(h, LAMBDA m : m.status = "pending" /\ m.to = e)
      OBVIOUS
    <2>3. PICK g : g = IF i = 0 THEN Append(h, Success(e)) ELSE [h EXCEPT ![i] = Success(e)]
      OBVIOUS
    <2>4. r.migrationHistory = g
      BY <2>1, <2>2, <2>3 DEF MarkSuccess
    <2>5. DisplayStatus(Success(e)) = "success"
      BY DEF DisplayStatus, Success
    <2>6. Shown(g, Len(g))
      <3>1. h \in Seq(History)
        BY <1>1
      <3>2. CASE i = 0
        <4>1. g = Append(h, Success(e))
          BY <2>3, <3>2
        <4>2. /\ Len(g) = Len(h) + 1 /\ Len(h) \in Nat /\ g[Len(h) + 1] = Success(e)
              /\ \A j \in 1..Len(h) : g[j] = h[j]
          BY <3>1, <4>1
        <4> QED BY <1>2, <2>5, <4>2 DEF Shown
      <3>3. CASE i # 0
        <4>1. g = [h EXCEPT ![i] = Success(e)]
          BY <2>3, <3>3
        <4>2. Len(g) = Len(h) /\ \A j \in 1..Len(h) : g[j] = h[j] \/ g[j] = Success(e)
          BY <3>1, <4>1
        <4> QED BY <1>2, <2>5, <4>2 DEF Shown
      <3> QED BY <3>2, <3>3
    <2> QED BY <2>4, <2>6 DEF Told, Concluded
  <1> QED BY <1>1, <1>3, <1>4 DEF Concluded

\* The flag of a link is set: the entry is one flag behind.
LEMMA FlaggedTold ==
    ASSUME NEW p, NEW r, NEW op, p.migrationHistory \in Seq(History), Flagged(p, r, op), Told(p)
    PROVE  ToldSoon(r, op)
  <1>1. PICK h : h = p.migrationHistory
    OBVIOUS
  <1>2. /\ h # <<>> /\ Shown(h, Len(h) - 1) /\ h[Len(h)] = Entry(p)
        /\ r.migrationHistory = h /\ r.newEmailPending = p.newEmailPending
        /\ r.newEmailPending # None
    BY <1>1 DEF Flagged, Told
  <1>3. Entry(r) = IF op = "new" THEN [Entry(p) EXCEPT !.new = TRUE] ELSE [Entry(p) EXCEPT !.cur = TRUE]
    BY <1>2 DEF Flagged, Entry
  <1> QED BY <1>2, <1>3 DEF ToldSoon

\* It is noted in the history.
LEMMA NotedTold ==
    ASSUME NEW p, NEW r, NEW op, p.migrationHistory \in Seq(History), Noted(p, r, op), ToldSoon(p, op)
    PROVE  Told(r)
  <1>1. PICK h, m : h = p.migrationHistory /\ m = h[Len(h)]
    OBVIOUS
  <1>2. PICK n : n = IF op = "new" THEN [m EXCEPT !.new = TRUE] ELSE [m EXCEPT !.cur = TRUE]
    OBVIOUS
  <1>3. PICK g : g = [h EXCEPT ![Len(h)] = n]
    OBVIOUS
  <1>4. /\ h # <<>> /\ h \in Seq(History) /\ Shown(h, Len(h) - 1) /\ Entry(p) = n
        /\ p.newEmailPending # None
    BY <1>1, <1>2 DEF ToldSoon
  <1>5. /\ r.migrationHistory = g /\ r.newEmailPending # None
        /\ r.newEmailPending = p.newEmailPending
        /\ r.currentEmailVerified = p.currentEmailVerified
        /\ r.newEmailVerified = p.newEmailVerified
    BY <1>1, <1>2, <1>3, <1>4 DEF Noted
  <1>6. /\ Len(g) = Len(h) /\ Len(h) \in Nat /\ Len(h) > 0 /\ g[Len(g)] = n
        /\ \A j \in 1..(Len(h) - 1) : g[j] = h[j]
    BY <1>3, <1>4
  <1>7. Entry(r) = Entry(p)
    BY <1>5 DEF Entry
  <1>8. g # <<>> /\ Shown(g, Len(g) - 1)
    BY <1>4, <1>6 DEF Shown
  <1> QED BY <1>4, <1>5, <1>6, <1>7, <1>8 DEF Told

\* A step that leaves the rows alone, and the histories with them.
LEMMA HistCalm ==
    ASSUME HistInv, OneAtATime, NEW s \in Slots, UNCHANGED users,
           ~InHistory(req[s]), ~InHistory(req'[s]), Recalls(req[s])'
    PROVE  HistInv'
  <1>1. \A t \in Slots : t = s
    BY DEF OneAtATime
  <1>2. \A t \in Slots : Recalls(req[t])'
    BY <1>1
  <1>3. \A t \in Slots : ~InHistory(req[t]) /\ ~InHistory(req'[t])
    BY <1>1
  <1>4. \A u \in Users : Live(u)' => Told(users'[u])
    BY <1>3 DEF HistInv, Live
  <1>5. \A t \in Slots : ~InHistory(req[t])'
    BY <1>3 DEF InHistory
  <1> QED BY <1>2, <1>4, <1>5 DEF HistInv

\* A step that writes one row, or makes one.
LEMMA HistRow ==
    ASSUME HistInv, OneAtATime, NEW s \in Slots, NEW u \in Users,
           \A v \in Users \ {u} : users'[v] = users[v],
           InHistory(req[s]) => req[s].doc.id = u,
           ~InHistory(req'[s]), Live(u)' => Told(users'[u]), Recalls(req[s])'
    PROVE  HistInv'
  <1>1. \A t \in Slots : t = s
    BY DEF OneAtATime
  <1>2. \A t \in Slots : Recalls(req[t])'
    BY <1>1
  <1>3. \A t \in Slots : ~InHistory(req[t])'
    BY <1>1 DEF InHistory
  <1>4. ASSUME NEW v \in Users, Live(v)' PROVE Told(users'[v])
    <2>1. CASE v = u
      BY <1>4, <2>1
    <2>2. CASE v # u
      <3>1. Live(v) /\ users'[v] = users[v]
        BY <1>4, <2>2 DEF Live
      <3>2. \A t \in Slots : ~(InHistory(req[t]) /\ req[t].doc.id = v)
        BY <1>1, <2>2
      <3> QED BY <3>1, <3>2 DEF HistInv
    <2> QED BY <2>1, <2>2
  <1> QED BY <1>2, <1>3, <1>4 DEF HistInv

\* A save of a document.
LEMMA HistEdit ==
    ASSUME Inv, HistInv, OneAtATime, NEW s \in Slots, Edit(s)
    PROVE  HistInv'
  <1>1. PICK u \in Users :
            /\ u = req[s].doc.id /\ Live(u) /\ Live(u)'
            /\ \A v \in Users \ {u} : users'[v] = users[v]
            /\ Recalls(req[s])'
            /\ \/ /\ ~InHistory(req[s]) /\ ~InHistory(req'[s])
                  /\ \/ Same(users[u], users'[u])
                     \/ Initiated(users[u], users'[u])
                     \/ Concluded(users[u], users'[u])
               \/ /\ ~InHistory(req[s]) /\ Flagged(users[u], users'[u], req[s].op)
                  /\ req'[s].pc = "readhistory" /\ req'[s].doc.id = u /\ req'[s].op = req[s].op
               \/ /\ req[s].pc = "savehistory" /\ Noted(users[u], users'[u], req[s].op)
                  /\ ~InHistory(req'[s])
    BY Zenon DEF Edit
  <1>2. users[u].migrationHistory \in Seq(History)
    BY RowHistory
  <1>3. \A t \in Slots : t = s
    BY DEF OneAtATime
  <1>4. ~InHistory(req[s]) => Told(users[u])
    BY <1>1, <1>3 DEF HistInv
  <1>5. CASE ~InHistory(req[s]) /\ ~InHistory(req'[s]) /\ Same(users[u], users'[u])
    <2>1. Told(users'[u])
      BY <1>4, <1>5 DEF Told, Same, Entry
    <2> QED BY <1>1, <1>5, <2>1, HistRow
  <1>6. CASE ~InHistory(req[s]) /\ ~InHistory(req'[s]) /\ Initiated(users[u], users'[u])
    <2>1. Told(users'[u])
      BY <1>2, <1>4, <1>6, InitiatedTold
    <2> QED BY <1>1, <1>6, <2>1, HistRow
  <1>7. CASE ~InHistory(req[s]) /\ ~InHistory(req'[s]) /\ Concluded(users[u], users'[u])
    <2>1. Told(users'[u])
      BY <1>2, <1>4, <1>7, ConcludedTold
    <2> QED BY <1>1, <1>7, <2>1, HistRow
  <1>8. CASE req[s].pc = "savehistory" /\ Noted(users[u], users'[u], req[s].op) /\ ~InHistory(req'[s])
    <2>1. ToldSoon(users[u], req[s].op)
      BY <1>1, <1>3, <1>8 DEF HistInv, InHistory
    <2>2. Told(users'[u])
      BY <1>2, <1>8, <2>1, NotedTold
    <2> QED BY <1>1, <1>8, <2>2, HistRow DEF InHistory
  <1>9. CASE /\ ~InHistory(req[s]) /\ Flagged(users[u], users'[u], req[s].op)
             /\ req'[s].pc = "readhistory" /\ req'[s].doc.id = u /\ req'[s].op = req[s].op
    <2>1. ToldSoon(users'[u], req'[s].op)
      BY <1>2, <1>4, <1>9, FlaggedTold
    <2>2. \A t \in Slots : Recalls(req[t])'
      BY <1>1, <1>3
    <2>3. (InHistory(req[s]) /\ req[s].doc.id = u /\ ToldSoon(users[u], req[s].op))'
      BY <1>9, <2>1 DEF InHistory
    <2>4. ASSUME NEW v \in Users \ {u}, Live(v)' PROVE Told(users'[v])
      <3>1. Live(v) /\ users'[v] = users[v]
        BY <1>1, <2>4 DEF Live
      <3>2. \A t \in Slots : ~InHistory(req[t])
        BY <1>3, <1>9
      <3> QED BY <3>1, <3>2 DEF HistInv
    <2>5. \A t \in Slots, v \in Users \ {u} : ~(InHistory(req[t]) /\ req[t].doc.id = v)'
      BY <1>3, <1>9
    <2> QED BY <2>2, <2>3, <2>4, <2>5 DEF HistInv
  <1> QED BY <1>1, <1>5, <1>6, <1>7, <1>8, <1>9

\* The reload finds the entry that is one flag behind, and keeps it.
LEMMA HistRead ==
    ASSUME Inv, HistInv, OneAtATime, NEW s \in Slots, VerifyHistoryRead(s)
    PROVE  HistInv'
  <1>1. /\ req[s].pc = "readhistory" /\ UNCHANGED users /\ Current(req[s].doc)
    BY Facts DEF VerifyHistoryRead, Reads, store, Knows, Documents
  <1>2. PICK u : u = req[s].doc.id
    OBVIOUS
  <1>3. u \in Users /\ Live(u) /\ users[u] \in Row
    BY <1>1, <1>2, Facts DEF Current
  <1>4. \A t \in Slots : t = s
    BY DEF OneAtATime
  <1>5. ToldSoon(users[u], req[s].op)
    BY <1>1, <1>2, <1>3, <1>4 DEF HistInv, InHistory
  <1>6. PICK h, d : h = users[u].migrationHistory /\ d = Load(u)
    OBVIOUS
  <1>7. d.migrationHistory = h
    <2>1. d.id # 0 /\ u \in 0..MaxUsers
      BY <1>3, <1>6, Loaded, StoreAssumption DEF Users
    <2> QED BY <1>6, <2>1, LoadedHistory
  <1>8. h # <<>> /\ Last(h).status = "pending" /\ Last(h).to = req[s].doc.newEmailPending
    <2>1. req[s].doc.newEmailPending = users[u].newEmailPending
      BY <1>1, <1>2 DEF Current
    <2>2. h \in Seq(History) /\ h # <<>>
      BY <1>3, <1>5, <1>6, RowHistory DEF ToldSoon
    <2>3. h[Len(h)] \in History
      BY <1>3, <1>6, <2>2, RowHistory
    <2>4. Entry(users[u]).status = h[Len(h)].status /\ Entry(users[u]).to = h[Len(h)].to
      <3>1. PICK m : m = h[Len(h)]
        OBVIOUS
      <3>2. DOMAIN m = {"to", "status", "cur", "new"}
        BY <2>3, <3>1 DEF History
      <3>3. \/ Entry(users[u]) = [m EXCEPT !.new = TRUE]
            \/ Entry(users[u]) = [m EXCEPT !.cur = TRUE]
        BY <1>5, <1>6, <3>1 DEF ToldSoon
      <3> QED BY <3>1, <3>2, <3>3
    <2>5. Last(h) = h[Len(h)]
      BY DEF Last
    <2> QED BY <2>1, <2>2, <2>4, <2>5 DEF Entry
  <1>9. PICK q : q = [pc |-> "savehistory", keep |-> d] ++ req[s]
    OBVIOUS
  <1>10. /\ q.pc = "savehistory" /\ q.doc = req[s].doc /\ q.keep = d /\ q.op = req[s].op
    BY <1>9, Goes DEF ++, Idle
  <1>11. req'[s] = q
    <2>1. Goto(s, [pc |-> "savehistory", keep |-> d])
      BY <1>2, <1>6, <1>7, <1>8 DEF VerifyHistoryRead
    <2> QED BY <1>9, <2>1, Goes
  <1>12. Recalls(req[s])'
    BY <1>1, <1>2, <1>6, <1>7, <1>10, <1>11 DEF Recalls, Remembering, Stage
  <1>13. \A t \in Slots : Recalls(req[t])'
    BY <1>4, <1>12
  <1>14. (InHistory(req[s]) /\ req[s].doc.id = u /\ ToldSoon(users[u], req[s].op))'
    BY <1>1, <1>2, <1>5, <1>10, <1>11 DEF InHistory
  <1>15. ASSUME NEW v \in Users \ {u}, Live(v)' PROVE Told(users'[v])
    <2>1. Live(v) /\ users'[v] = users[v]
      BY <1>1, <1>15 DEF Live
    <2>2. \A t \in Slots : ~(InHistory(req[t]) /\ req[t].doc.id = v)
      BY <1>2, <1>4
    <2> QED BY <2>1, <2>2 DEF HistInv
  <1>16. \A t \in Slots, v \in Users \ {u} : ~(InHistory(req[t]) /\ req[t].doc.id = v)'
    BY <1>2, <1>4, <1>10, <1>11
  <1> QED BY <1>13, <1>14, <1>15, <1>16 DEF HistInv

\* An account is deleted.
LEMMA HistDelete ==
    ASSUME Inv, HistInv, OneAtATime, NEW s \in Slots, FinaliseDelete(s) \/ RecoverDelete(s)
    PROVE  HistInv'
  <1>1. PICK pc \in {"finupdate", "idle"} :
            req[s].pc \in {"findelete", "recdelete"} /\ Delete(s, req[s].x, pc)
    BY DEF FinaliseDelete, RecoverDelete
  <1>2. PICK x : x = req[s].x
    OBVIOUS
  <1>3. x \in Users
    BY <1>1, <1>2, Facts DEF Knows, Migrating
  <1>4. /\ DOMAIN users = Users /\ \A v \in Users \ {x} : users'[v] = users[v]
        /\ users'[x] = NoRow
    BY <1>1, <1>2, <1>3 DEF Delete, Inv, Types
  <1>5. ~Live(x)'
    BY <1>4 DEF Live, NoRow
  <1>6. PICK q : q = [pc |-> pc] ++ req[s]
    OBVIOUS
  <1>7. q.pc = pc /\ q.doc = req[s].doc
    BY <1>6, Goes DEF ++, Idle
  <1>8. GoOn(s, pc, <<>>)
    BY <1>1 DEF Delete
  <1>9. req'[s] \in {q, Idle}
    BY <1>6, <1>8, Goes, GoOnTo
  <1>10. Recalls(q)' /\ ~InHistory(q)
    BY <1>1, <1>7 DEF Recalls, Remembering, InHistory, Stage
  <1>11. Recalls(Idle)' /\ ~InHistory(Idle)
    BY DEF Recalls, Idle, Remembering, NoRow, Stage, InHistory
  <1>12. Recalls(req[s])' /\ ~InHistory(req'[s])
    BY <1>9, <1>10, <1>11 DEF Recalls, InHistory
  <1>13. ~InHistory(req[s])
    BY <1>1 DEF InHistory
  <1> QED BY <1>3, <1>4, <1>5, <1>12, <1>13, HistRow

\* An insert.
LEMMA HistInserts ==
    ASSUME Inv, HistInv, OneAtATime, NEW s \in Slots, Inserts(s)
    PROVE  HistInv'
  <1>1. PICK u \in Users :
            /\ \A v \in Users \ {u} : users'[v] = users[v]
            /\ users'[u].migrationHistory = <<>> /\ users'[u].newEmailPending = None
            /\ Cool(req[s]) /\ Recalls(req[s])' /\ req'[s].pc = "sync"
    BY DEF Inserts
  <1>2. Told(users'[u])
    BY <1>1 DEF Told, Shown
  <1>3. ~InHistory(req[s]) /\ ~InHistory(req'[s])
    BY <1>1 DEF InHistory, Cool
  <1> QED BY <1>1, <1>2, <1>3, HistRow

\* A reset of the password gives a row another version, and nothing else.
LEMMA HistVersion ==
    ASSUME Inv, HistInv, NEW u \in Users, BumpVersion(u)
    PROVE  HistInv'
  <1>1. /\ DOMAIN users = Users /\ users[u] \in Row /\ UNCHANGED req
        /\ users' = [users EXCEPT ![u].tokenVersion = users[u].tokenVersion + 1]
    BY DEF BumpVersion, Inv, Types
  <1>2. DOMAIN users[u] = DOMAIN NoRow
    BY <1>1, RowFields
  <1>3. /\ \A v \in Users : v # u => users'[v] = users[v]
        /\ \A f \in DOMAIN NoRow : f # "tokenVersion" => users'[u][f] = users[u][f]
    BY <1>1, <1>2
  <1>4. \A v \in Users : /\ users'[v].email = users[v].email
                         /\ users'[v].newEmailPending = users[v].newEmailPending
                         /\ users'[v].migrationHistory = users[v].migrationHistory
                         /\ users'[v].currentEmailVerified = users[v].currentEmailVerified
                         /\ users'[v].newEmailVerified = users[v].newEmailVerified
                         /\ users'[v].isEmailVerified = users[v].isEmailVerified
    BY <1>3 DEF NoRow
  <1>5. \A v \in Users : Live(v)' = Live(v)
    BY <1>4 DEF Live
  <1>6. \A v \in Users : Told(users'[v]) = Told(users[v])
    BY <1>4 DEF Told, Entry
  <1>6a. \A v \in Users : \A op : ToldSoon(users'[v], op) = ToldSoon(users[v], op)
    BY <1>4 DEF ToldSoon, Entry
  <1>7. \A s \in Slots : Recalls(req[s])'
    <2> SUFFICES ASSUME NEW s \in Slots PROVE Recalls(req[s])'
      OBVIOUS
    <2>1. Recalls(req[s])
      BY DEF HistInv
    <2>2. /\ Stage(req[s]) \in Remembering /\ req[s].doc.id # 0 => req[s].doc.id \in Users
          /\ req[s].pc \in {"savehistory", "finprofile"} => req[s].doc.id \in Users
      <3>1. req[s].doc \in Row
        BY Facts DEF Knows, Fields
      <3>2. req[s].doc.id \in 0..MaxUsers
        BY <3>1, RowFields
      <3>3. req[s].pc \in {"savehistory", "finprofile"} => Current(req[s].doc)
        BY Facts DEF Knows, Documents
      <3> QED BY <3>2, <3>3, StoreAssumption, SMTT(30) DEF Current, Users
    <2> QED BY <1>1, <1>4, <2>1, <2>2 DEF Recalls
  <1> QED BY <1>1, <1>5, <1>6, <1>6a, <1>7 DEF HistInv, InHistory

\* Every step, of a system that is not cut short.
LEMMA HistStep ==
    ASSUME Inv, HistInv, OneAtATime, MaxFaults = 0, MaxCrashes = 0, [Next]_vars
    PROVE  HistInv'
  <1>1. \A s \in Slots : Recalls(req[s])
    BY DEF HistInv
  <1>2. ASSUME NEW s \in Slots, Calm(s) PROVE HistInv'
    <2>1. UNCHANGED users /\ Recalls(req'[s]) /\ Cool(req[s]) /\ Cool(req'[s])
      BY <1>2 DEF Calm, store
    <2>2. Recalls(req[s])'
      BY <2>1 DEF Recalls
    <2> QED BY <2>1, <2>2, HistCalm DEF Cool, InHistory
  <1>3. ASSUME NEW s \in Slots, IndexStep(s) PROVE HistInv'
    BY <1>1, <1>3, IndexOnly, HistCalm
  <1>4. ASSUME NEW s \in Slots, Edit(s) \/ Inserts(s) \/ VerifyHistoryRead(s)
                                \/ FinaliseDelete(s) \/ RecoverDelete(s)
        PROVE  HistInv'
    BY <1>4, HistEdit, HistInserts, HistRead, HistDelete
  <1>5. ASSUME NEW s \in Slots PROVE ~StatementFails(s)
    BY DEF StatementFails, Inv, Types
  <1>6. ASSUME NEW u \in Users, BumpVersion(u) PROVE HistInv'
    BY <1>6, HistVersion
  <1>7. CASE Tick \/ Sweep \/ Boot \/ UNCHANGED vars
    <2>1. UNCHANGED <<users, req>>
      BY <1>7 DEF Tick, Sweep, Boot, vars, store
    <2>2. /\ \A s \in Slots : Recalls(req[s])' = Recalls(req[s]) /\ InHistory(req[s])' = InHistory(req[s])
          /\ \A u \in Users : Live(u)' = Live(u)
      BY <2>1 DEF Recalls, InHistory, Live
    <2> QED BY <2>1, <2>2 DEF HistInv
  <1>8. ~Crash
    BY DEF Crash, Inv, Types
  <1> QED BY <1>1, <1>2, <1>3, <1>4, <1>5, <1>6, <1>7, <1>8, Kinds

\* The seed.
LEMMA HistInit ==
    ASSUME Init, \A u \in DOMAIN Seed : Told(Seed[u])
    PROVE  HistInv
  <1>1. \A s \in Slots : req[s] = Idle
    BY DEF Init
  <1>2. \A s \in Slots : Recalls(req[s]) /\ ~InHistory(req[s])
    BY <1>1 DEF Recalls, Remembering, InHistory, Idle, NoRow, Stage
  <1>3. ASSUME NEW u \in Users, Live(u) PROVE Told(users[u])
    <2>1. users[u] = IF u <= Len(Seed) THEN Seed[u] ELSE NoRow
      BY DEF Init
    <2>2. u <= Len(Seed)
      BY <1>3, <2>1 DEF Live, NoRow
    <2>3. u \in DOMAIN Seed
      BY <2>2, SeedAssumption DEF Users
    <2> QED BY <2>1, <2>2, <2>3
  <1> QED BY <1>2, <1>3 DEF HistInv

\* With one request at a time, and none cut short by a refused statement or a
\* crash, a history that told what had become of the migrations before tells it
\* for ever (the saves of verifyCurrentEmail, verifyNewEmail and
\* finalizeMigrationInternal, and the login that leaves the history alone).
THEOREM HistoriesSettled ==
    ASSUME OneAtATime, MaxFaults = 0, MaxCrashes = 0, \A u \in DOMAIN Seed : Told(Seed[u])
    PROVE  Spec => []HistorySettled
  <1>1. Init => Inv /\ HistInv
    BY InitGood, HistInit
  <1>2. Inv /\ HistInv /\ [Next]_vars => Inv' /\ HistInv'
    BY NextGood, HistStep DEF Good
  <1>3. Inv /\ HistInv => HistorySettled
    <2> SUFFICES ASSUME Inv, HistInv, Quiet, NEW u \in Users, Live(u), users[u].newEmailPending = None,
                        NEW i \in DOMAIN users[u].migrationHistory
                 PROVE  DisplayStatus(users[u].migrationHistory[i]) = "success"
      BY DEF HistorySettled
    <2>1. \A s \in Slots : ~InHistory(req[s])
      BY DEF Quiet, InHistory
    <2>2. Shown(users[u].migrationHistory, Len(users[u].migrationHistory))
      BY <2>1 DEF HistInv, Told
    <2>3. i \in 1..Len(users[u].migrationHistory)
      BY RowHistory
    <2> QED BY <2>2, <2>3 DEF Shown
  <1> QED BY <1>1, <1>2, <1>3, PTL DEF Spec

------------------------------------------------------------------------------
(* The links, and whose address they prove *)

\* only register mails a new link for the verification of an address, and no
\* link that was used is forgotten
Posted ==
    /\ opened \subseteq opened'
    /\ \A l \in links' \cup opened' :
           \/ l \in links \cup opened \/ l.kind # "verify" \/ l.secret = 0
           \/ \E s \in Slots : /\ RegisterMail(s) /\ l.u = req[s].sd.id
                               /\ l.secret = req[s].sd.emailVerificationToken

\* Every step posts like that.
LEMMA Posts == ASSUME [Next]_vars PROVE Posted
  <1>1. ASSUME UNCHANGED <<links, opened>> PROVE Posted
    BY <1>1 DEF Posted
  <1>2. ASSUME UNCHANGED links, NEW x, NEW e, Vouch(x, e) PROVE Posted
    BY <1>2 DEF Posted, Vouch
  <1>3. ASSUME NEW l, Consume(l), l \in links PROVE Posted
    BY <1>3 DEF Posted, Consume
  <1>4. ASSUME NEW s \in Slots, AccountStep(s) PROVE Posted
    <2>1. Resolve(s) => Posted
      BY <1>1 DEF Resolve, Reads, post
    <2>2. SyncSelect(s) => Posted
      BY <1>1 DEF SyncSelect, Reads, post
    <2>3. SyncWrite(s) => Posted
      BY <1>1 DEF SyncWrite, Reads, post
    <2>4. SyncPrune(s) => Posted
      BY <1>1 DEF SyncPrune, Reads, post
    <2>5. RegisterHolder(s) => Posted
      BY <1>1 DEF RegisterHolder, Reads, post
    <2>6. RegisterLookup(s) => Posted
      BY <1>1 DEF RegisterLookup, Reads, post
    <2>7. RegisterTaken(s) => Posted
      BY <1>1 DEF RegisterTaken, Reads, post
    <2>8. ResendVerificationFind(s) => Posted
      BY <1>1 DEF ResendVerificationFind, Reads, post
    <2>9. VerifyEmailFind(s) => Posted
      BY <1>1 DEF VerifyEmailFind, Reads, post
    <2>10. VerifyEmailSave(s) => Posted
      BY <1>1 DEF VerifyEmailSave, Reads, post
    <2>11. OAuthById(s) => Posted
      BY <1>1 DEF OAuthById, Reads, post
    <2>12. OAuthUser(s) => Posted
      BY <1>1 DEF OAuthUser, Reads, post
    <2>13. OAuthPrimary(s) => Posted
      BY <1>1 DEF OAuthPrimary, Reads, post
    <2>14. OAuthPrimaryUser(s) => Posted
      BY <1>1 DEF OAuthPrimaryUser, Reads, post
    <2>15. OAuthStrategy(s) => Posted
      BY <1>1 DEF OAuthStrategy, Reads, post
    <2>16. UpdateBioFind(s) => Posted
      BY <1>1 DEF UpdateBioFind, Reads, post
    <2>17. UpdateBioSave(s) => Posted
      BY <1>1 DEF UpdateBioSave, Reads, post
    <2>18. RegisterSave(s) => Posted
      BY <1>1 DEF RegisterSave, Reads, post
    <2>19. ResendVerificationSave(s) => Posted
      BY <1>1 DEF ResendVerificationSave, Reads, post
    <2>20. OAuthTakeOver(s) => Posted
      BY <1>1, <1>2 DEF OAuthTakeOver, Reads, post
    <2>21. OAuthCreate(s) => Posted
      BY <1>1, <1>2 DEF OAuthCreate, Reads, post
    <2>22. RegisterMail(s) => Posted
      <3> SUFFICES ASSUME RegisterMail(s) PROVE Posted
        OBVIOUS
      <3>1. opened' = opened
        BY DEF RegisterMail
      <3>2. PICK sent : /\ links' = links \cup sent
                        /\ \A l \in sent : l = [kind |-> "verify", secret |-> req[s].sd.emailVerificationToken,
                                                u |-> req[s].sd.id, to |-> req[s].e]
        BY DEF RegisterMail, Mail
      <3> QED BY <3>1, <3>2 DEF Posted
    <2> QED BY <1>4, <2>1, <2>2, <2>3, <2>4, <2>5, <2>6, <2>7, <2>8, <2>9, <2>10, <2>11, <2>12, <2>13, <2>14, <2>15, <2>16, <2>17, <2>18, <2>19, <2>20, <2>21, <2>22 DEF AccountStep
  <1>5. ASSUME NEW s \in Slots, MigrationStep(s) PROVE Posted
    <2>1. InitiateLookup(s) => Posted
      BY <1>1 DEF InitiateLookup, Reads, post
    <2>2. InitiateExists(s) => Posted
      BY <1>1 DEF InitiateExists, Reads, post
    <2>3. InitiateReload(s) => Posted
      BY <1>1 DEF InitiateReload, Reads, post
    <2>4. InitiateSave(s) => Posted
      BY <1>1 DEF InitiateSave, Reads, post
    <2>5. ResendSave(s) => Posted
      BY <1>1 DEF ResendSave, Reads, post
    <2>6. VerifyMigrationFind(s) => Posted
      BY <1>1 DEF VerifyMigrationFind, Reads, post
    <2>7. VerifyNewLookup(s) => Posted
      BY <1>1 DEF VerifyNewLookup, Reads, post
    <2>8. VerifyNewExists(s) => Posted
      BY <1>1 DEF VerifyNewExists, Reads, post
    <2>9. VerifyNewPlaceholder(s) => Posted
      BY <1>1 DEF VerifyNewPlaceholder, Reads, post
    <2>10. VerifyMigrationSave(s) => Posted
      BY <1>1 DEF VerifyMigrationSave, Reads, post
    <2>11. VerifyHistoryRead(s) => Posted
      BY <1>1 DEF VerifyHistoryRead, Reads, post
    <2>12. VerifyHistorySave(s) => Posted
      BY <1>1 DEF VerifyHistorySave, Reads, post
    <2>13. VerifyFinalise(s) => Posted
      BY <1>1 DEF VerifyFinalise, Reads, post
    <2>14. FinaliseRead(s) => Posted
      BY <1>1 DEF FinaliseRead, Reads, post
    <2>15. FinaliseLookup(s) => Posted
      BY <1>1 DEF FinaliseLookup, Reads, post
    <2>16. FinaliseExists(s) => Posted
      BY <1>1 DEF FinaliseExists, Reads, post
    <2>17. FinaliseRelease(s) => Posted
      BY <1>1 DEF FinaliseRelease, Reads, post, Release
    <2>18. FinaliseDelete(s) => Posted
      BY <1>1 DEF FinaliseDelete, Reads, post, Delete
    <2>19. FinaliseUpdate(s) => Posted
      BY <1>1 DEF FinaliseUpdate, Reads, post
    <2>20. FinaliseProfile(s) => Posted
      BY <1>1 DEF FinaliseProfile, Reads, post
    <2>21. FinaliseReload(s) => Posted
      BY <1>1 DEF FinaliseReload, Reads, post
    <2>22. FinaliseSave(s) => Posted
      BY <1>1 DEF FinaliseSave, Reads, post
    <2>23. FinaliseCheckBio(s) => Posted
      BY <1>1 DEF FinaliseCheckBio, Reads, post
    <2>24. FinaliseSaveBio(s) => Posted
      BY <1>1 DEF FinaliseSaveBio, Reads, post
    <2>25. RecoverLookup(s) => Posted
      BY <1>1 DEF RecoverLookup, Reads, post
    <2>26. RecoverFind(s) => Posted
      BY <1>1 DEF RecoverFind, Reads, post
    <2>27. RecoverRelease(s) => Posted
      BY <1>1 DEF RecoverRelease, Reads, post, Release
    <2>28. RecoverDelete(s) => Posted
      BY <1>1 DEF RecoverDelete, Reads, post, Delete
    <2>29. LoginUser(s) => Posted
      BY <1>1 DEF LoginUser, Reads, post
    <2>30. LoginSave(s) => Posted
      BY <1>1 DEF LoginSave, Reads, post
    <2>31. CleanupSave(s) => Posted
      BY <1>1 DEF CleanupSave, Reads, post
    <2>32. MigrationMail(s) => Posted
      <3> SUFFICES ASSUME MigrationMail(s) PROVE Posted
        OBVIOUS
      <3>1. opened' = opened
        BY DEF MigrationMail
      <3>2. PICK sent : links' = links \cup sent /\ \A l \in sent : l.kind # "verify"
        BY DEF MigrationMail, Mail
      <3> QED BY <3>1, <3>2 DEF Posted
    <2> QED BY <1>5, <2>1, <2>2, <2>3, <2>4, <2>5, <2>6, <2>7, <2>8, <2>9, <2>10, <2>11, <2>12, <2>13, <2>14, <2>15, <2>16, <2>17, <2>18, <2>19, <2>20, <2>21, <2>22, <2>23, <2>24, <2>25, <2>26, <2>27, <2>28, <2>29, <2>30, <2>31, <2>32 DEF MigrationStep
  <1>6. ASSUME NEW s \in Slots, AccountStart(s) PROVE Posted
    <2>1. \A l \in links : VerifyEmail(s, l) => Posted
      BY <1>3 DEF VerifyEmail
    <2>2. \A e \in Emails : Register(s, e) \/ ResendVerification(s, e) => Posted
      BY <1>1 DEF Register, ResendVerification, Reads, post
    <2>3. \A id \in OAuthIds : OAuth(s, id) => Posted
      BY <1>1 DEF OAuth, Reads, post
    <2>4. \A u \in Users : UpdateBio(s, u) => Posted
      BY <1>1 DEF UpdateBio, Reads, post
    <2> QED BY <1>6, <2>1, <2>2, <2>3, <2>4 DEF AccountStart
  <1>7. ASSUME NEW s \in Slots, MigrationStart(s) PROVE Posted
    <2>1. \A l \in links : VerifyMigration(s, l) => Posted
      BY <1>3 DEF VerifyMigration
    <2>2. \A u \in Users, e \in Emails : InitiateMigration(s, u, e) => Posted
      BY <1>1 DEF InitiateMigration, Reads, post
    <2>3. \A u \in Users : ResendMigration(s, u) => Posted
      BY <1>1 DEF ResendMigration, Reads, post
    <2>4. \A u \in Users : FinalizeMigration(s, u) => Posted
      BY <1>1 DEF FinalizeMigration, Reads, post
    <2>5. \A u \in Users : CleanupExpired(s, u) => Posted
      BY <1>1 DEF CleanupExpired, Reads, post
    <2>6. \A e \in Emails : Login(s, e) => Posted
      BY <1>1 DEF Login, Reads, post
    <2> QED BY <1>7, <2>1, <2>2, <2>3, <2>4, <2>5, <2>6 DEF MigrationStart
  <1>8. ASSUME \/ \E s \in Slots : StatementFails(s)
               \/ \E u \in Users : BumpVersion(u)
               \/ Tick \/ Sweep \/ Crash \/ Boot \/ UNCHANGED vars
        PROVE  Posted
    <2>1. UNCHANGED <<links, opened>>
      BY <1>8 DEF StatementFails, BumpVersion, Tick, Sweep, Crash, Boot, vars, post
    <2> QED BY <1>1, <2>1
  <1> QED BY <1>4, <1>5, <1>6, <1>7, <1>8 DEF Next

------------------------------------------------------------------------------
(* An address that a migration is going to take is held for its account *)

\* what the accounts have asked for, and that somebody has an address of those who did
Claims ==
    \A u \in Users : Live(u) =>
        /\ users[u].newEmailPending \in {None} \cup Tos(users[u])
        /\ users[u].isEmailVerified \/ Tos(users[u]) # {} => Vouched(u)

\* a link for the verification of an address names the account that has its secret
Names ==
    \A l \in links \cup opened : \A u \in Users :
        /\ l.kind = "verify" /\ l.secret # 0 /\ Live(u)
        /\ users[u].emailVerificationToken = l.secret
        => l.u = u

\* nobody else has asked for the pending address of u
Sole(u) == SoleClaim(u, users[u].newEmailPending)

\* its entry is that of u
Reserved(u) == idx[<<"pending", users[u].newEmailPending>>]
                   = [user |-> u, exp |-> users[u].migrationTokenExpires]

\* a pending address that u alone has asked for is held, but while its sync runs
Holds == up /\ ~broken =>
    \A u \in Users : Live(u) /\ InPending(users[u]) /\ Sole(u) =>
        Reserved(u) \/ \E s \in Slots : Behind(req[s], u)

\* what the sync of a row has done for its pending address
Reserving(r) ==
    r.pc \in {"sync", "upsert"} =>
        /\ r.sd.migrationTokenExpires = users[r.sd.id].migrationTokenExpires
        /\ InPending(r.sd) => <<"pending", r.sd.newEmailPending>> \in r.expected
        /\ up /\ ~broken /\ r.k > 3 /\ InPending(r.sd) /\ Sole(r.sd.id) => Reserved(r.sd.id)

\* verifyEmail has used a link of the account it has loaded
Confirming(r) == r.pc = "saveverify" => Vouched(r.doc.id)

\* What holds between any two steps.
ResInv ==
    /\ Claims /\ Names /\ Holds
    /\ \A s \in Slots : Recalls(req[s]) /\ Reserving(req[s]) /\ Confirming(req[s])

\* The first pending entry for an address is one for it.
LEMMA FirstMatch ==
    ASSUME NEW h \in Seq(History), NEW e
    PROVE  \/ MarkSuccess(h, e) = Append(h, Success(e))
           \/ \E i \in 1..Len(h) : h[i].to = e /\ MarkSuccess(h, e) = [h EXCEPT ![i] = Success(e)]
  <1>1. PICK I : I = {j \in 1..Len(h) : h[j].status = "pending" /\ h[j].to = e}
    OBVIOUS
  <1>2. PICK i : i = SelectInSeq(h, LAMBDA m : m.status = "pending" /\ m.to = e)
    OBVIOUS
  <1>3. i = IF I # {} THEN Min(I) ELSE 0
    BY <1>1, <1>2 DEF SelectInSeq
  <1>4. ASSUME I # {} PROVE Min(I) \in I /\ Min(I) # 0
    <2>1. Len(h) \in Nat /\ I \subseteq 1..Len(h)
      BY <1>1
    <2>2. IsFiniteSet(1..Len(h))
      BY <2>1, FS_Interval
    <2>3. IsFiniteSet(I) /\ I \subseteq Nat
      <3>1. IsFiniteSet(I)
        BY <2>1, <2>2, FS_Subset
      <3> QED BY <2>1, <3>1
    <2>4. \E t \in I : \A y \in I : t <= y
      BY <1>4, <2>3, LeastIn
    <2>5. Min(I) \in I
      BY <2>4 DEF Min
    <2> QED BY <2>1, <2>5
  <1>5. MarkSuccess(h, e) = IF i = 0 THEN Append(h, Success(e)) ELSE [h EXCEPT ![i] = Success(e)]
    BY <1>2 DEF MarkSuccess
  <1> QED BY <1>1, <1>3, <1>4, <1>5

\* The history of a row grows, and with it the set of addresses asked for.
LEMMA Grown ==
    ASSUME NEW h \in Seq(History), NEW e, NEW g,
           \/ g = Append(h, Pending(e))
           \/ g = MarkSuccess(h, e)
    PROVE  /\ {m.to : m \in Range(h)} \subseteq {m.to : m \in Range(g)}
           /\ g = Append(h, Pending(e)) => e \in {m.to : m \in Range(g)}
  <1>1. ASSUME NEW x, x.to = e, g = Append(h, x)
        PROVE  {m.to : m \in Range(h)} \subseteq {m.to : m \in Range(g)} /\ e \in {m.to : m \in Range(g)}
    <2>1. /\ DOMAIN h = 1..Len(h) /\ Len(h) \in Nat /\ DOMAIN g = 1..(Len(h) + 1)
          /\ g[Len(h) + 1] = x /\ \A j \in 1..Len(h) : g[j] = h[j]
      BY <1>1
    <2>2. Range(h) \subseteq Range(g) /\ x \in Range(g)
      BY <2>1 DEF Range
    <2> QED BY <1>1, <2>2
  <1>2. Pending(e).to = e /\ Success(e).to = e
    BY DEF Pending, Success
  <1>3. ASSUME NEW i \in 1..Len(h), h[i].to = e, g = [h EXCEPT ![i] = Success(e)]
        PROVE  {m.to : m \in Range(h)} \subseteq {m.to : m \in Range(g)}
    <2>1. DOMAIN g = DOMAIN h /\ \A j \in DOMAIN h : g[j].to = h[j].to
      BY <1>2, <1>3
    <2> QED BY <2>1 DEF Range
  <1>4. CASE g = MarkSuccess(h, e) /\ g # Append(h, Pending(e))
    BY <1>1, <1>2, <1>3, <1>4, FirstMatch
  <1>5. CASE g = Append(h, Pending(e))
    BY <1>1, <1>2, <1>5
  <1> QED BY <1>4, <1>5

\* A row that was noted in its history.
LEMMA NotedTos ==
    ASSUME NEW p, NEW r, NEW op, p.migrationHistory \in Seq(History), Noted(p, r, op)
    PROVE  Tos(p) = Tos(r)
  <1>1. PICK h, g, n : /\ h = p.migrationHistory /\ g = r.migrationHistory
                       /\ n = (IF op = "new" THEN [h[Len(h)] EXCEPT !.new = TRUE]
                               ELSE [h[Len(h)] EXCEPT !.cur = TRUE])
    OBVIOUS
  <1>2. h # <<>> /\ g = [h EXCEPT ![Len(h)] = n]
    BY <1>1 DEF Noted
  <1>3. Len(h) \in DOMAIN h /\ h[Len(h)] \in History
    BY <1>1, <1>2
  <1>4. n.to = h[Len(h)].to
    BY <1>1, <1>3 DEF History
  <1>5. DOMAIN g = DOMAIN h /\ \A j \in DOMAIN h : g[j].to = h[j].to
    BY <1>2, <1>3, <1>4
  <1> QED BY <1>1, <1>5 DEF Tos, Range

\* What an edit makes of what the row has asked for.
LEMMA EditedTos ==
    ASSUME Inv, NEW s \in Slots, Edit(s)
    PROVE  \E u \in Users :
              /\ u = req[s].doc.id /\ Live(u) /\ Live(u)'
              /\ \A v \in Users \ {u} : users'[v] = users[v]
              /\ Tos(users[u]) \subseteq Tos(users'[u])
              /\ Tos(users'[u]) # {} => users[u].isEmailVerified \/ BothVerified(users[u]) \/ Tos(users[u]) # {}
              /\ \/ users'[u].newEmailPending \in {None, users[u].newEmailPending}
                 \/ users'[u].newEmailPending \in Tos(users'[u])
  <1>1. PICK u \in Users :
            /\ u = req[s].doc.id /\ Live(u) /\ Live(u)'
            /\ \A v \in Users \ {u} : users'[v] = users[v]
            /\ \/ Same(users[u], users'[u])
               \/ Initiated(users[u], users'[u])
               \/ Concluded(users[u], users'[u])
               \/ Flagged(users[u], users'[u], req[s].op)
               \/ Noted(users[u], users'[u], req[s].op)
    BY Zenon DEF Edit
  <1>2. users[u].migrationHistory \in Seq(History)
    BY RowHistory, SMTT(30)
  <1>3. CASE Same(users[u], users'[u]) \/ Flagged(users[u], users'[u], req[s].op)
    BY <1>1, <1>3, Zenon DEF Same, Flagged, Tos
  <1>4. CASE Noted(users[u], users'[u], req[s].op)
    <2>1. Tos(users[u]) = Tos(users'[u])
      BY <1>2, <1>4, NotedTos, SMTT(30)
    <2> QED BY <1>1, <1>4, <2>1, Zenon DEF Noted
  <1>5. CASE Initiated(users[u], users'[u])
    <2>1. PICK e : e = users'[u].newEmailPending
      OBVIOUS
    <2>2. users'[u].migrationHistory = Append(users[u].migrationHistory, Pending(e)) /\ users[u].isEmailVerified
      BY <1>5, <2>1 DEF Initiated
    <2>3. Tos(users[u]) \subseteq Tos(users'[u]) /\ e \in Tos(users'[u])
      BY <1>2, <2>2, Grown DEF Tos
    <2> QED BY <1>1, <2>1, <2>2, <2>3, Zenon
  <1>6. CASE Concluded(users[u], users'[u])
    <2>1. /\ users'[u].newEmailPending = None
          /\ users[u].isEmailVerified \/ BothVerified(users[u])
      BY <1>6 DEF Concluded
    <2>2. Tos(users[u]) \subseteq Tos(users'[u])
      <3>1. CASE users'[u].migrationHistory = users[u].migrationHistory
        BY <3>1 DEF Tos
      <3>2. ASSUME NEW e \in Emails, users'[u].migrationHistory = MarkSuccess(users[u].migrationHistory, e)
            PROVE  Tos(users[u]) \subseteq Tos(users'[u])
        BY <1>2, <3>2, Grown DEF Tos
      <3> QED BY <1>6, <3>1, <3>2 DEF Concluded
    <2> QED BY <1>1, <2>1, <2>2
  <1> QED BY <1>1, <1>3, <1>4, <1>5, <1>6, Zenon

\* a step that takes no request for an address back
Monotone ==
    /\ nextId <= nextId'
    /\ \A v \in Users : v < nextId =>
           IF Live(v)' THEN Live(v) /\ Tos(users[v]) \subseteq Tos(users'[v])
           ELSE Live(v) => Tos(users[v]) = {} \/ Vouched(v)

\* A claim that is the only one after such a step was so before.
LEMMA SoleBefore ==
    ASSUME Inv, Inv', Posted, Monotone, NEW u \in Users, NEW e, SoleClaim(u, e)'
    PROVE  SoleClaim(u, e)
  <1> SUFFICES ASSUME NEW v \in Users \ {u}, v < nextId
               PROVE  IF Live(v) THEN e \notin Tos(users[v]) ELSE ~Vouched(v)
    BY DEF SoleClaim
  <1>1. v < nextId'
    BY DEF Inv, Types, Monotone, Users
  <1>2. Vouched(v) => Vouched(v)'
    BY DEF Posted, Vouched
  <1>3. CASE Live(v)'
    <2>1. e \notin Tos(users'[v])
      BY <1>1, <1>3 DEF SoleClaim, Tos
    <2> QED BY <1>3, <2>1 DEF Monotone
  <1>4. CASE ~Live(v)'
    <2>1. ~Vouched(v)
      BY <1>1, <1>2, <1>4 DEF SoleClaim
    <2> QED BY <1>4, <2>1 DEF Monotone
  <1> QED BY <1>3, <1>4

\* What was held is held, unless the step writes the entry.
LEMMA StillReserved ==
    ASSUME Inv, Inv', ResInv, OneAtATime, Posted, Monotone, up, ~broken, now <= now',
           NEW s \in Slots, NEW u \in Users, Live(u), ~Behind(req[s], u),
           users'[u].newEmailPending = users[u].newEmailPending,
           users'[u].migrationTokenExpires = users[u].migrationTokenExpires,
           InPending(users[u])', Sole(u)',
           LET key == <<"pending", users[u].newEmailPending>> IN idx'[key] = idx[key]
    PROVE  Reserved(u)'
  <1>1. Sole(u)
    <2>1. PICK e : e = users[u].newEmailPending
      OBVIOUS
    <2>2. SoleClaim(u, e)'
      BY <2>1 DEF Sole
    <2> QED BY <2>1, <2>2, SoleBefore DEF Sole
  <1>2. InPending(users[u])
    <2>1. users[u] \in Row /\ now \in 1..MaxNow /\ now' \in 1..MaxNow
      BY DEF Inv, Types
    <2>2. users[u].migrationTokenExpires \in Ends
      BY <2>1, RowFields
    <2>3. users[u].migrationTokenExpires \in Int
      BY <2>2, StoreAssumption DEF Ends
    <2>4. users[u].migrationTokenExpires > now' /\ users[u].newEmailPending # None
      BY DEF InPending
    <2> QED BY <2>1, <2>3, <2>4, StoreAssumption, SMTT(30) DEF InPending
  <1>3. \A t \in Slots : t = s
    BY DEF OneAtATime
  <1>4. Reserved(u)
    BY <1>1, <1>2, <1>3 DEF ResInv, Holds
  <1> QED BY <1>4 DEF Reserved

\* The links go on naming their accounts: a new secret is in no link.
LEMMA StillNames ==
    ASSUME Inv, Names, Posted,
           \A u \in Users : Live(u)' =>
               \/ users'[u].emailVerificationToken = 0
               \/ Live(u) /\ users'[u].emailVerificationToken = users[u].emailVerificationToken
               \/ users'[u].emailVerificationToken = gen + 1 /\ gen < MaxTokens
    PROVE  Names'
  <1> SUFFICES ASSUME NEW l \in links' \cup opened', NEW u \in Users,
                      l.kind = "verify", l.secret # 0, Live(u)',
                      users'[u].emailVerificationToken = l.secret
               PROVE  l.u = u
    BY DEF Names
  <1>1. CASE l \in links \cup opened
    <2>1. l.secret \in {0} \cup Secrets
      BY <1>1 DEF Inv, Mails
    <2>2. gen \in Nat /\ MaxTokens \in Nat
      BY StoreAssumption DEF Inv, Types
    <2>3. l.secret # gen + 1 \/ gen >= MaxTokens
      BY <2>1, <2>2 DEF Secrets
    <2>4. Live(u) /\ users'[u].emailVerificationToken = users[u].emailVerificationToken
      BY <2>2, <2>3
    <2> QED BY <1>1, <2>4 DEF Names
  <1>2. CASE \E s \in Slots : /\ RegisterMail(s) /\ l.u = req[s].sd.id
                              /\ l.secret = req[s].sd.emailVerificationToken
    <2>1. PICK s \in Slots : /\ RegisterMail(s) /\ l.u = req[s].sd.id
                             /\ l.secret = req[s].sd.emailVerificationToken
      BY <1>2
    <2>2. req[s].pc = "mailverify" /\ UNCHANGED users
      BY <2>1 DEF RegisterMail, store
    <2>3. Current(req[s].sd)
      BY <2>2, Facts DEF Knows, Documents
    <2>4. PICK v \in Users : v = l.u /\ Live(v) /\ users[v].emailVerificationToken = l.secret
      BY <2>1, <2>3 DEF Current
    <2>5. Live(u) /\ users[u].emailVerificationToken = l.secret
      BY <2>2 DEF Live
    <2> QED BY <2>4, <2>5 DEF Inv, Rows, Apart
  <1> QED BY <1>1, <1>2 DEF Posted

\* A step that leaves the rows and the index alone.
LEMMA ResCalm ==
    ASSUME Inv, Inv', ResInv, OneAtATime, Posted, NEW s \in Slots, Calm(s)
    PROVE  ResInv'
  <1>1. /\ UNCHANGED <<users, nextId, idx, now, up, broken>>
        /\ Cool(req[s]) /\ Cool(req'[s]) /\ Recalls(req'[s])
        /\ req'[s].pc = "saveverify" => VerifyEmailFind(s)
    BY DEF Calm, store, health
  <1>2. \A t \in Slots : t = s
    BY DEF OneAtATime
  <1>3. \A u \in Users : Live(u)' = Live(u) /\ (Vouched(u) => Vouched(u)')
    BY <1>1 DEF Live, Posted, Vouched
  <1>4. Claims'
    BY <1>1, <1>3 DEF ResInv, Claims, Tos
  <1>5. Names'
    BY <1>1, <1>3, StillNames DEF ResInv
  <1>6. Monotone
    BY <1>1, <1>3 DEF Monotone, Inv, Types
  <1>7. Holds'
    <2> SUFFICES ASSUME (up /\ ~broken)', NEW u \in Users, Live(u)', InPending(users[u])', Sole(u)'
                 PROVE  Reserved(u)'
      BY DEF Holds
    <2>1. ~Behind(req[s], u)
      BY <1>1 DEF Cool, Behind
    <2>2. now <= now'
      BY <1>1 DEF Inv, Types
    <2> QED BY <1>1, <1>3, <1>6, <2>1, <2>2, StillReserved
  <1>8. Recalls(req[s])' /\ Reserving(req[s])'
    BY <1>1 DEF Reserving, Cool, Recalls
  <1>9. Confirming(req[s])'
    <2> SUFFICES ASSUME req'[s].pc = "saveverify" PROVE Vouched(req[s].doc.id)'
      BY DEF Confirming
    <2>1. req[s].pc = "findverify" /\ VerifyEmailFind(s)
      BY <1>1 DEF VerifyEmailFind
    <2>2. \/ req'[s] = Idle
          \/ \E u \in Users : /\ Live(u) /\ users[u].emailVerificationToken = req[s].link
                              /\ req'[s] = [pc |-> "saveverify", doc |-> users[u]] ++ req[s]
      <3> HIDE DEF ++
      <3> QED BY <2>1, Goes DEF VerifyEmailFind
    <2>3. PICK u \in Users : /\ Live(u) /\ users[u].emailVerificationToken = req[s].link
                             /\ req'[s].doc = users[u]
      BY <2>2, Goes, IdleRecalls DEF ++, Idle
    <2>4. PICK l \in opened : l.kind = "verify" /\ l.secret = req[s].link /\ l.secret # 0
      BY <2>1, Facts DEF Knows, Verifying
    <2>5. l.u = u
      BY <2>3, <2>4 DEF ResInv, Names
    <2>6. users[u].id = u
      BY <2>3 DEF Inv, Rows
    <2>7. l \in opened'
      BY <2>4 DEF Posted
    <2>8. req'[s].doc.id = u
      BY <2>3, <2>6
    <2> QED BY <2>5, <2>7, <2>8 DEF Vouched
  <1> QED BY <1>2, <1>4, <1>5, <1>7, <1>8, <1>9 DEF ResInv

\* The keys that the sync of a row with a pending address keeps.
LEMMA Expecting ==
    ASSUME NEW r, InPending(r)
    PROVE  <<"pending", r.newEmailPending>> \in expectedKeysForUser(r)
  <1>1. Wanted(r, 3) /\ KeyOf(r, 3) = <<"pending", r.newEmailPending>>
    BY DEF Wanted, KeyOf
  <1> QED BY <1>1 DEF expectedKeysForUser

\* A step that edits a row.
LEMMA ResEdit ==
    ASSUME Inv, Inv', ResInv, OneAtATime, ~AutoVerifyEmail, Posted, NEW s \in Slots, Edit(s)
    PROVE  ResInv'
  <1>1. PICK u \in Users :
              /\ u = req[s].doc.id /\ Live(u) /\ Live(u)'
              /\ \A v \in Users \ {u} : users'[v] = users[v]
              /\ Tos(users[u]) \subseteq Tos(users'[u])
              /\ Tos(users'[u]) # {} => users[u].isEmailVerified \/ BothVerified(users[u]) \/ Tos(users[u]) # {}
              /\ \/ users'[u].newEmailPending \in {None, users[u].newEmailPending}
                 \/ users'[u].newEmailPending \in Tos(users'[u])
    BY EditedTos, SMTT(30)
  <1>2. /\ UNCHANGED <<nextId, idx, now, up, broken>>
        /\ Recalls(req[s])' /\ req'[s].pc # "saveverify"
        /\ \A v \in Users : Behind(req[s], v) => v = u
        /\ \/ Behind(req'[s], u)
           \/ users'[u].newEmailPending = None
           \/ /\ ~Behind(req[s], u)
              /\ users'[u].newEmailPending = users[u].newEmailPending
              /\ users'[u].migrationTokenExpires = users[u].migrationTokenExpires
        /\ users'[u].isEmailVerified =>
               \/ users[u].isEmailVerified \/ BothVerified(users[u])
               \/ req[s].pc = "saveverify"
               \/ \E l \in opened' : l.u = u
        /\ \/ users'[u].emailVerificationToken \in {0, users[u].emailVerificationToken}
           \/ users'[u].emailVerificationToken = gen + 1 /\ gen < MaxTokens
        /\ req'[s].pc \in {"sync", "upsert"} => req'[s].sd = users'[u] /\ req'[s].k = 1
                                                /\ req'[s].pc = "sync"
                                                /\ req'[s].expected = expectedKeysForUser(users'[u])
    BY <1>1, ZenonT(30) DEF Edit, health
  <1>3. \A v \in Users : Live(v)' = Live(v) /\ (Vouched(v) => Vouched(v)')
    <2>1. \A v \in Users \ {u} : Live(v)' = Live(v)
      BY <1>1 DEF Live
    <2>2. Live(u)' = Live(u)
      BY <1>1
    <2>3. \A v \in Users : Vouched(v) => Vouched(v)'
      BY DEF Posted, Vouched
    <2> QED BY <2>1, <2>2, <2>3
  <1>4. \A t \in Slots : t = s
    BY DEF OneAtATime
  <1>5. Monotone
    <2>1. nextId <= nextId'
      BY <1>2 DEF Inv, Types
    <2>2. \A v \in Users : Tos(users[v]) \subseteq Tos(users'[v])
      BY <1>1 DEF Tos
    <2> QED BY <1>3, <2>1, <2>2 DEF Monotone
  <1>6. Claims'
    <2>1. Vouched(u) \/ ~(users[u].isEmailVerified \/ BothVerified(users[u]) \/ Tos(users[u]) # {})
      <3>1. BothVerified(users[u]) => Vouched(u)
        <4>1. Consistent(users[u]) /\ users[u].id = u
          BY <1>1, Facts
        <4> QED BY <4>1 DEF Consistent, BothVerified, Used, Vouched
      <3>2. users[u].isEmailVerified \/ Tos(users[u]) # {} => Vouched(u)
        BY <1>1, Zenon DEF ResInv, Claims
      <3> QED BY <3>1, <3>2
    <2>2. req[s].pc = "saveverify" => Vouched(u)
      BY <1>1 DEF ResInv, Confirming
    <2>3. (\E l \in opened' : l.u = u) => Vouched(u)'
      BY SMTT(30) DEF Vouched
    <2>4. users'[u].isEmailVerified \/ Tos(users'[u]) # {} => Vouched(u)'
      BY <1>1, <1>2, <1>3, <2>1, <2>2, <2>3, Zenon
    <2>5. users'[u].newEmailPending \in {None} \cup Tos(users'[u])
      <3>1. users[u].newEmailPending \in {None} \cup Tos(users[u])
        BY <1>1 DEF ResInv, Claims
      <3> QED BY <1>1, <3>1
    <2>6. ASSUME NEW v \in Users \ {u}, Live(v)'
          PROVE  /\ users'[v].newEmailPending \in {None} \cup Tos(users'[v])
                 /\ users'[v].isEmailVerified \/ Tos(users'[v]) # {} => Vouched(v)'
      BY <1>1, <1>3, <2>6 DEF ResInv, Claims
    <2>7. \A v \in Users : Tos(users[v])' = Tos(users'[v])
      BY DEF Tos
    <2> QED BY <2>4, <2>5, <2>6, <2>7 DEF Claims
  <1>7. Names'
    BY <1>1, <1>2, <1>3, StillNames, Zenon DEF ResInv
  <1>8. Holds'
    <2> SUFFICES ASSUME (up /\ ~broken)', NEW v \in Users, Live(v)', InPending(users[v])', Sole(v)',
                        ~Behind(req'[s], v)
                 PROVE  Reserved(v)'
      BY DEF Holds
    <2>1. now <= now'
      BY <1>2 DEF Inv, Types
    <2>2. ~Behind(req[s], v) /\ users'[v].newEmailPending = users[v].newEmailPending
          /\ users'[v].migrationTokenExpires = users[v].migrationTokenExpires
      <3>1. CASE v = u
        <4>1. users'[u].newEmailPending # None
          BY <3>1 DEF InPending
        <4> QED BY <1>2, <3>1, <4>1
      <3>2. CASE v # u
        BY <1>1, <1>2, <3>2, Zenon
      <3> QED BY <3>1, <3>2
    <2> QED BY <1>2, <1>3, <1>5, <2>1, <2>2, StillReserved
  <1>9. Reserving(req[s])'
    <2> SUFFICES ASSUME req'[s].pc \in {"sync", "upsert"} PROVE Reserving(req[s])'
      BY DEF Reserving
    <2>1. PICK d : d = users'[u]
      OBVIOUS
    <2>2. req'[s].sd = d /\ req'[s].k = 1 /\ req'[s].expected = expectedKeysForUser(d)
      BY <1>2, <2>1
    <2>3. d.id = u
      BY <1>1, <2>1 DEF Inv, Rows
    <2>4. InPending(d)' => InPending(d)
      BY <1>2 DEF InPending
    <2>5. InPending(d)' => <<"pending", d.newEmailPending>> \in req'[s].expected
      BY <2>2, <2>4, Expecting
    <2>6. InPending(req[s].sd)' = InPending(d)'
      BY <2>2 DEF InPending
    <2> QED BY <2>1, <2>2, <2>3, <2>5, <2>6 DEF Reserving
  <1>10. Confirming(req[s])'
    BY <1>2 DEF Confirming
  <1> QED BY <1>2, <1>4, <1>6, <1>7, <1>8, <1>9, <1>10 DEF ResInv

\* A step that inserts a row.
LEMMA ResInserts ==
    ASSUME Inv, Inv', ResInv, OneAtATime, ~AutoVerifyEmail, Posted, NEW s \in Slots, Inserts(s)
    PROVE  ResInv'
  <1>1. PICK u \in Users :
            /\ u = nextId /\ nextId' = nextId + 1 /\ Live(u)'
            /\ \A v \in Users \ {u} : users'[v] = users[v]
            /\ users'[u].migrationHistory = <<>> /\ users'[u].newEmailPending = None
            /\ users'[u].isEmailVerified => \E l \in opened' : l.u = u
            /\ \/ users'[u].emailVerificationToken = 0
               \/ users'[u].emailVerificationToken = gen + 1 /\ gen < MaxTokens
            /\ UNCHANGED <<idx, now, up, broken>>
            /\ Cool(req[s]) /\ Recalls(req[s])'
            /\ req'[s].pc = "sync" /\ req'[s].sd = users'[u] /\ req'[s].k = 1
    BY SMTT(30) DEF Inserts, health
  <1>2. \A t \in Slots : t = s
    BY DEF OneAtATime
  <1>3. ~Live(u)
    BY <1>1 DEF Inv, Rows, Types
  <1>4. \A v \in Users \ {u} : Live(v)' = Live(v) /\ (Vouched(v) => Vouched(v)')
    BY <1>1 DEF Live, Posted, Vouched
  <1>5. Tos(users'[u]) = {}
    BY <1>1 DEF Tos, Range
  <1>6. Claims'
    <2>1. \A v \in Users : Tos(users[v])' = Tos(users'[v])
      BY DEF Tos
    <2> QED BY <1>1, <1>4, <1>5, <2>1 DEF ResInv, Claims, Vouched
  <1>7. Names'
    BY <1>1, <1>4, StillNames DEF ResInv
  <1>8. Monotone
    <2>1. nextId \in Nat
      BY Facts
    <2>2. \A v \in Users : v < nextId => v # u
      BY <1>1, <2>1
    <2> QED BY <1>1, <1>4, <2>1, <2>2 DEF Monotone
  <1>9. Holds'
    <2> SUFFICES ASSUME (up /\ ~broken)', NEW v \in Users, Live(v)', InPending(users[v])', Sole(v)'
                 PROVE  Reserved(v)'
      BY DEF Holds
    <2>1. v # u
      BY <1>1 DEF InPending
    <2>2. now <= now'
      BY <1>1 DEF Inv, Types
    <2>3. ~Behind(req[s], v)
      BY <1>1 DEF Cool, Behind
    <2> QED BY <1>1, <1>4, <1>8, <2>1, <2>2, <2>3, StillReserved
  <1>10. Reserving(req[s])'
    <2>1. users'[u].id = u
      BY <1>1 DEF Inv, Rows
    <2>2. ~InPending(req[s].sd)'
      BY <1>1 DEF InPending
    <2> QED BY <1>1, <2>1, <2>2 DEF Reserving
  <1>11. Confirming(req[s])'
    BY <1>1 DEF Confirming
  <1> QED BY <1>1, <1>2, <1>6, <1>7, <1>9, <1>10, <1>11 DEF ResInv

\* What the links and the rows say does not depend on the index.
LEMMA ResSame ==
    ASSUME UNCHANGED <<users, nextId, links, opened>>
    PROVE  /\ \A u \in Users : Live(u)' = Live(u) /\ (Sole(u)' <=> Sole(u))
           /\ Claims => Claims'
           /\ Names => Names'
           /\ \A u \in Users : now' = now => (InPending(users[u])' <=> InPending(users[u]))
  <1>1. \A u \in Users : Live(u)' = Live(u) /\ (Vouched(u)' <=> Vouched(u))
    BY DEF Live, Vouched
  <1>2. \A u \in Users : Tos(users[u])' = Tos(users[u]) /\ Tos(users'[u]) = Tos(users[u])
    BY DEF Tos
  <1>3. \A u \in Users : SoleClaim(u, users[u].newEmailPending)' <=> SoleClaim(u, users[u].newEmailPending)
    <2> TAKE u \in Users
    <2>1. PICK e : e = users[u].newEmailPending
      OBVIOUS
    <2>2. SoleClaim(u, e)' <=> SoleClaim(u, e)
      BY <1>1, <1>2 DEF SoleClaim
    <2>3. users'[u].newEmailPending = e
      BY <2>1
    <2> QED BY <2>1, <2>2, <2>3 DEF SoleClaim
  <1>4. \A u \in Users : Sole(u)' <=> Sole(u)
    BY <1>3 DEF Sole
  <1>5. Claims => Claims'
    BY <1>1, <1>2 DEF Claims
  <1>6. Names => Names'
    BY <1>1 DEF Names
  <1>7. \A u \in Users : now' = now => (InPending(users[u])' <=> InPending(users[u]))
    BY DEF InPending
  <1> QED BY <1>1, <1>4, <1>5, <1>6, <1>7

\* The document of the verification of a link, with its history, is read again.
LEMMA ResRead ==
    ASSUME Inv, ResInv, OneAtATime, NEW s \in Slots, VerifyHistoryRead(s)
    PROVE  ResInv'
  <1>1. /\ req[s].pc = "readhistory" /\ UNCHANGED <<users, nextId, idx, links, opened, now, up, broken>>
        /\ Current(req[s].doc)
    BY Facts DEF VerifyHistoryRead, Reads, store, post, health, Knows, Documents
  <1>2. PICK u, d : u = req[s].doc.id /\ d = Load(u)
    BY SMTT(30)
  <1>3. u \in 0..MaxUsers /\ d.id # 0
    BY <1>1, <1>2, Loaded, StoreAssumption DEF Current, Users
  <1>4. d.migrationHistory = users[u].migrationHistory
    BY <1>2, <1>3, LoadedHistory
  <1>5. PICK p, q : /\ p = [pc |-> "savehistory", keep |-> d] ++ req[s]
                    /\ q = [pc |-> "bothverified"] ++ req[s]
    OBVIOUS
  <1>6. /\ p.pc = "savehistory" /\ p.doc = req[s].doc /\ p.keep = d
        /\ q.pc = "bothverified"
    BY <1>5, Goes DEF ++, Idle
  <1>7. req'[s] \in {p, q}
    <2>1. Goto(s, [pc |-> "savehistory", keep |-> d]) \/ Goto(s, [pc |-> "bothverified"])
      BY <1>2 DEF VerifyHistoryRead
    <2> QED BY <1>5, <2>1, Goes
  <1>8. Recalls(req[s])' /\ Reserving(req[s])' /\ Confirming(req[s])'
    BY <1>1, <1>2, <1>4, <1>6, <1>7 DEF Recalls, Remembering, Stage, Reserving, Confirming
  <1>9. \A v \in Users : ~Behind(req[s], v) /\ ~Behind(req'[s], v)
    BY <1>1, <1>6, <1>7 DEF Behind
  <1>10. \A t \in Slots : t = s
    BY DEF OneAtATime
  <1>11. Holds'
    <2> SUFFICES ASSUME (up /\ ~broken)', NEW v \in Users, Live(v)', InPending(users[v])', Sole(v)'
                 PROVE  Reserved(v)'
      BY DEF Holds
    <2>1. up /\ ~broken /\ Live(v) /\ InPending(users[v]) /\ Sole(v)
      BY <1>1, ResSame
    <2>2. Reserved(v)
      BY <1>9, <1>10, <2>1 DEF ResInv, Holds
    <2> QED BY <1>1, <2>2 DEF Reserved
  <1> QED BY <1>1, <1>8, <1>10, <1>11, ResSame DEF ResInv

\* An account is deleted, with its entries.
LEMMA ResDelete ==
    ASSUME Inv, Inv', ResInv, OneAtATime, Posted, NEW s \in Slots, FinaliseDelete(s) \/ RecoverDelete(s)
    PROVE  ResInv'
  <1>1. PICK pc \in {"finupdate", "idle"} :
            req[s].pc \in {"findelete", "recdelete"} /\ Delete(s, req[s].x, pc)
    BY DEF FinaliseDelete, RecoverDelete
  <1>2. PICK x : x = req[s].x
    OBVIOUS
  <1>3. x \in Users
    BY <1>1, <1>2, Facts DEF Knows, Migrating
  <1>4. /\ DOMAIN users = Users /\ \A v \in Users \ {x} : users'[v] = users[v]
        /\ users'[x] = NoRow /\ UNCHANGED <<nextId, links, opened, now, up, broken>>
    BY <1>1, <1>2, <1>3 DEF Delete, Inv, Types, post, health
  <1>5. ~Live(x)' /\ \A v \in Users \ {x} : Live(v)' = Live(v)
    BY <1>4 DEF Live, NoRow
  <1>6. PICK q : q = [pc |-> pc] ++ req[s]
    OBVIOUS
  <1>7. q.pc = pc /\ q.doc = req[s].doc
    BY <1>6, Goes DEF ++, Idle
  <1>8. GoOn(s, pc, <<>>)
    BY <1>1 DEF Delete
  <1>9. req'[s] \in {q, Idle}
    BY <1>6, <1>8, Goes, GoOnTo
  <1>10. req'[s].pc \in {"finupdate", "idle"}
    BY <1>1, <1>7, <1>9, IdleRecalls
  <1>11. Recalls(req[s])' /\ Reserving(req[s])' /\ Confirming(req[s])'
    BY <1>10 DEF Recalls, Remembering, Stage, Reserving, Confirming
  <1>12. \A t \in Slots : t = s
    BY DEF OneAtATime
  <1>13. \A v \in Users : Tos(users[v])' = Tos(users'[v])
    BY DEF Tos
  <1>14. \A v \in Users : Vouched(v)' = Vouched(v)
    BY <1>4 DEF Vouched
  <1>15. Claims'
    BY <1>4, <1>5, <1>13, <1>14 DEF ResInv, Claims
  <1>16. Names'
    BY <1>4, <1>5 DEF ResInv, Names
  <1>17. Monotone
    <2>1. Live(x) => Tos(users[x]) = {} \/ Vouched(x)
      BY <1>3 DEF ResInv, Claims
    <2>2. nextId <= nextId'
      BY <1>4, Facts
    <2>3. \A v \in Users \ {x} : Tos(users[v]) \subseteq Tos(users'[v])
      BY <1>4
    <2> QED BY <1>5, <2>1, <2>2, <2>3 DEF Monotone
  <1>18. Holds'
    <2> SUFFICES ASSUME (up /\ ~broken)', NEW v \in Users, Live(v)', InPending(users[v])', Sole(v)'
                 PROVE  Reserved(v)'
      BY DEF Holds
    <2>1. v # x /\ Live(v) /\ users'[v] = users[v] /\ up /\ ~broken
      BY <1>4, <1>5
    <2>2. PICK e : e = users[v].newEmailPending
      OBVIOUS
    <2>3. Sole(v)
      <3>1. SoleClaim(v, e)'
        BY <2>1, <2>2 DEF Sole
      <3> QED BY <1>17, <2>2, <3>1, SoleBefore DEF Sole
    <2>4. InPending(users[v])
      BY <1>4, <2>1 DEF InPending
    <2>5. ~Behind(req[s], v)
      BY <1>1, <1>2, <2>1 DEF Behind
    <2>6. Reserved(v)
      BY <1>12, <2>1, <2>3, <2>4, <2>5 DEF ResInv, Holds
    <2>7. PICK key : key = <<"pending", e>>
      OBVIOUS
    <2>8. key \in Keys
      <3>1. e \in Emails
        BY <2>2, <2>4, Facts, RowFields DEF InPending
      <3> QED BY <2>7, <3>1 DEF Keys
    <2>9. idx[key].user = v
      BY <2>2, <2>6, <2>7 DEF Reserved
    <2>10. idx'[key] = idx[key]
      BY <1>1, <1>2, <2>1, <2>8, <2>9 DEF Delete, Prune
    <2> QED BY <2>1, <2>2, <2>6, <2>7, <2>10 DEF Reserved
  <1> QED BY <1>11, <1>12, <1>15, <1>16, <1>18 DEF ResInv

\* Time, the sweeper and new versions of a row.
LEMMA ResElse ==
    ASSUME Inv, Inv', ResInv, UNCHANGED <<nextId, req, up, broken, links, opened>>, now <= now',
           \A v \in Users : \A f \in DOMAIN NoRow \ {"tokenVersion"} : users'[v][f] = users[v][f],
           \A key \in Keys : idx[key].exp > now => idx'[key] = idx[key]
    PROVE  ResInv'
  <1>1. \A v \in Users : /\ users'[v].email = users[v].email
                         /\ users'[v].newEmailPending = users[v].newEmailPending
                         /\ users'[v].migrationTokenExpires = users[v].migrationTokenExpires
                         /\ users'[v].migrationHistory = users[v].migrationHistory
                         /\ users'[v].isEmailVerified = users[v].isEmailVerified
                         /\ users'[v].emailVerificationToken = users[v].emailVerificationToken
    BY DEF NoRow
  <1>2. \A v \in Users : Live(v)' = Live(v) /\ (Vouched(v)' <=> Vouched(v))
    BY <1>1 DEF Live, Vouched
  <1>3. \A v \in Users : Tos(users[v])' = Tos(users[v]) /\ Tos(users'[v]) = Tos(users[v])
    BY <1>1 DEF Tos
  <1>4. \A v \in Users : Sole(v)' => Sole(v)
    <2> SUFFICES ASSUME NEW v \in Users, Sole(v)' PROVE Sole(v)
      OBVIOUS
    <2>1. PICK e : e = users[v].newEmailPending
      OBVIOUS
    <2>2. SoleClaim(v, e)'
      BY <1>1, <2>1 DEF Sole
    <2>3. SoleClaim(v, e)
      BY <1>2, <1>3, <2>2 DEF SoleClaim
    <2> QED BY <2>1, <2>3 DEF Sole
  <1>5. \A r : r.migrationTokenExpires \in Int => (InPending(r)' => InPending(r))
    BY DEF InPending, Inv, Types
  <1>6. \A v \in Users : users[v].migrationTokenExpires \in Int
    <2> TAKE v \in Users
    <2>1. users[v] \in Row
      BY DEF Inv, Types
    <2>2. users[v].migrationTokenExpires \in Ends
      BY <2>1, RowFields
    <2> QED BY <2>2, StoreAssumption DEF Ends
  <1>7. Claims'
    BY <1>1, <1>2, <1>3 DEF ResInv, Claims
  <1>8. Names'
    BY <1>1, <1>2 DEF ResInv, Names
  <1>9. ASSUME NEW v \in Users, InPending(users[v]), Reserved(v)
        PROVE  Reserved(v)'
    <2>1. PICK key : key = <<"pending", users[v].newEmailPending>>
      OBVIOUS
    <2>2. users[v].newEmailPending \in Emails
      <3>1. users[v] \in Row
        BY DEF Inv, Types
      <3> QED BY <1>9, <3>1, RowFields DEF InPending
    <2>3. key \in Keys
      BY <2>1, <2>2 DEF Keys
    <2>4. idx[key].exp > now
      BY <1>9, <2>1 DEF Reserved, InPending
    <2>5. idx'[key] = idx[key]
      BY <2>3, <2>4
    <2> QED BY <1>1, <1>9, <2>1, <2>5 DEF Reserved
  <1>10. \A v \in Users : InPending(users[v])' => InPending(users[v])
    BY <1>1, <1>6 DEF InPending, Inv, Types
  <1>11. Holds'
    <2> SUFFICES ASSUME (up /\ ~broken)', NEW v \in Users, Live(v)', InPending(users[v])', Sole(v)'
                 PROVE  Reserved(v)' \/ \E s \in Slots : Behind(req'[s], v)
      BY DEF Holds, Behind
    <2>1. Reserved(v) \/ \E s \in Slots : Behind(req[s], v)
      BY <1>2, <1>4, <1>10 DEF ResInv, Holds
    <2> QED BY <1>9, <1>10, <2>1 DEF Behind
  <1>12. ASSUME NEW s \in Slots PROVE Recalls(req[s])' /\ Reserving(req[s])' /\ Confirming(req[s])'
    <2>1. Recalls(req[s]) /\ Reserving(req[s]) /\ Confirming(req[s])
      BY DEF ResInv
    <2>2. /\ Stage(req[s]) \in Remembering /\ req[s].doc.id # 0 => req[s].doc.id \in Users
          /\ req[s].pc \in {"savehistory", "finprofile"} => req[s].doc.id \in Users
      <3>1. req[s].doc \in Row
        BY Facts DEF Knows, Fields
      <3>2. req[s].doc.id \in 0..MaxUsers
        BY <3>1, RowFields
      <3>3. req[s].pc \in {"savehistory", "finprofile"} => Current(req[s].doc)
        BY Facts DEF Knows, Documents
      <3> QED BY <3>2, <3>3, StoreAssumption, SMTT(30) DEF Current, Users
    <2>3. Recalls(req[s])'
      BY <1>1, <2>1, <2>2 DEF Recalls
    <2>4. Confirming(req[s])'
      BY <2>1, <2>2 DEF Confirming, Vouched
    <2>5. Reserving(req[s])'
      <3> SUFFICES ASSUME req[s].pc \in {"sync", "upsert"} PROVE Reserving(req[s])'
        BY DEF Reserving
      <3>1. PICK d : d = req[s].sd
        OBVIOUS
      <3>2. d.id \in Users /\ d \in Row
        BY <3>1, Facts DEF Knows, Fields, Syncing, Current
      <3>3. d.migrationTokenExpires \in Int
        <4>1. d.migrationTokenExpires \in Ends
          BY <3>2, RowFields
        <4> QED BY <4>1, StoreAssumption DEF Ends
      <3>4. InPending(d)' => InPending(d)
        BY <1>5, <3>3
      <3>5. /\ d.migrationTokenExpires = users'[d.id].migrationTokenExpires
            /\ InPending(d)' => <<"pending", d.newEmailPending>> \in req[s].expected
        BY <1>1, <2>1, <3>1, <3>2, <3>4 DEF Reserving
      <3>6. (up /\ ~broken)' /\ req[s].k > 3 /\ InPending(d)' /\ Sole(d.id)' => Reserved(d.id)'
        <4> SUFFICES ASSUME (up /\ ~broken)', req[s].k > 3, InPending(d)', Sole(d.id)' PROVE Reserved(d.id)'
          OBVIOUS
        <4>1. Sole(d.id) /\ Reserved(d.id)
          BY <1>4, <2>1, <3>1, <3>2, <3>4 DEF Reserving
        <4>2. InPending(users[d.id])
          <5>1. Current(d)
            BY <3>1, Facts DEF Knows, Syncing
          <5> QED BY <2>1, <3>1, <3>4, <5>1, Zenon DEF Reserving, InPending, Current
        <4> QED BY <1>9, <3>2, <4>1, <4>2
      <3> QED BY <3>1, <3>5, <3>6 DEF Reserving
    <2> QED BY <2>3, <2>4, <2>5
  <1> QED BY <1>7, <1>8, <1>11, <1>12 DEF ResInv

\* An address that only u has asked for is pending in no other row.
LEMMA OnlyClaim ==
    ASSUME Rows, Claims, nextId \in Nat, NEW u \in Users, Sole(u), NEW v \in Users \ {u}, Live(v),
           users[u].newEmailPending # None
    PROVE  users[v].newEmailPending # users[u].newEmailPending
  <1>1. PICK e : e = users[u].newEmailPending
    OBVIOUS
  <1>2. v < nextId
    BY DEF Rows, Consistent
  <1>3. e \notin Tos(users[v])
    BY <1>1, <1>2 DEF Sole, SoleClaim
  <1>4. users[v].newEmailPending \in {None} \cup Tos(users[v])
    BY DEF Claims
  <1> QED BY <1>1, <1>3, <1>4

\* The key of a pending address is no other key.
LEMMA PendingKey ==
    ASSUME NEW d \in Row, NEW k \in 1..4, NEW e, k = 4 => d.provider # Local
    PROVE  KeyOf(d, k) = <<"pending", e>> => k = 3 /\ d.newEmailPending = e
  <1>1. d.provider \in OAuthIds \cup {Local}
    BY RowFields
  <1>2. k = 4 => KeyOf(d, k) \in Providers \X Emails
    BY <1>1 DEF KeyOf, OAuthIds
  <1>3. \A p \in Providers \X Emails : p # <<"pending", e>>
    BY StoreAssumption
  <1>4. CASE k = 1
    BY <1>4 DEF KeyOf
  <1>5. CASE k = 2
    BY <1>5 DEF KeyOf
  <1>6. CASE k = 3
    BY <1>6 DEF KeyOf
  <1> QED BY <1>2, <1>3, <1>4, <1>5, <1>6

\* The sync chooses its next key.
LEMMA ResSelect ==
    ASSUME Inv, ResInv, OneAtATime, NEW s \in Slots, SyncSelect(s), Recalls(req[s])'
    PROVE  ResInv'
  <1>1. /\ req[s].pc = "sync" /\ Due(s) # {} /\ Fields(req[s])
        /\ UNCHANGED <<users, nextId, idx, links, opened, now, up, broken>>
    BY Facts DEF SyncSelect, Reads, store, post, health
  <1>2. PICK k : k = Min(Due(s))
    OBVIOUS
  <1>3. k \in Due(s) /\ \A j \in Due(s) : k <= j
    BY <1>1, <1>2, FirstDue DEF Due, Fields
  <1>4. PICK found : found = (idx[KeyOf(req[s].sd, k)] # NoEntry)
    OBVIOUS
  <1>5. PICK q : q = [pc |-> "upsert", k |-> k, found |-> found] ++ req[s]
    OBVIOUS
  <1>6. q.pc = "upsert" /\ q.k = k /\ q.sd = req[s].sd /\ q.expected = req[s].expected
    BY <1>5, Goes DEF ++, Idle
  <1>7. req'[s] = q
    BY <1>2, <1>4, <1>5, Goes DEF SyncSelect
  <1>8. \A t \in Slots : t = s
    BY DEF OneAtATime
  <1>9. \A v \in Users : Behind(req'[s], v) <=> Behind(req[s], v)
    BY <1>1, <1>6, <1>7 DEF Behind
  <1>10. Holds'
    <2> SUFFICES ASSUME (up /\ ~broken)', NEW v \in Users, Live(v)', InPending(users[v])', Sole(v)',
                        ~Behind(req'[s], v)
                 PROVE  Reserved(v)'
      BY DEF Holds
    <2>1. up /\ ~broken /\ Live(v) /\ InPending(users[v]) /\ Sole(v)
      BY <1>1, ResSame
    <2>2. Reserved(v)
      BY <1>8, <1>9, <2>1 DEF ResInv, Holds
    <2> QED BY <1>1, <2>2 DEF Reserved
  <1>11. Reserving(req[s])'
    <2>1. PICK d : d = req[s].sd
      OBVIOUS
    <2>2. d.id \in Users
      BY <1>1, <2>1, Facts DEF Knows, Syncing, Current
    <2>3. /\ d.migrationTokenExpires = users[d.id].migrationTokenExpires
          /\ InPending(d) => <<"pending", d.newEmailPending>> \in req[s].expected
          /\ up /\ ~broken /\ req[s].k > 3 /\ InPending(d) /\ Sole(d.id) => Reserved(d.id)
      BY <1>1, <2>1 DEF ResInv, Reserving
    <2>4. k > 3 /\ InPending(d) => req[s].k > 3
      <3> SUFFICES ASSUME k > 3, InPending(d), req[s].k <= 3 PROVE FALSE
        BY <1>1 DEF Fields
      <3>1. 3 \in Due(s)
        BY <1>1, <2>1 DEF Due, Wanted, Fields
      <3> QED BY <1>3, <3>1 DEF Due
    <2>5. InPending(d)' <=> InPending(d)
      BY <1>1 DEF InPending
    <2>6. Sole(d.id)' => Sole(d.id)
      BY <1>1, <2>2, ResSame
    <2>7. Reserved(d.id) => Reserved(d.id)'
      BY <1>1 DEF Reserved
    <2>8. req'[s].sd = d /\ req'[s].k = k /\ req'[s].expected = req[s].expected
      BY <1>6, <1>7, <2>1
    <2> QED BY <1>1, <2>3, <2>4, <2>5, <2>6, <2>7, <2>8 DEF Reserving
  <1>12. Confirming(req[s])'
    BY <1>6, <1>7 DEF Confirming
  <1> QED BY <1>1, <1>8, <1>10, <1>11, <1>12, ResSame DEF ResInv

\* The sync writes a key.
LEMMA ResWrite ==
    ASSUME Inv, ResInv, OneAtATime, NEW s \in Slots, SyncWrite(s), Recalls(req[s])'
    PROVE  ResInv'
  <1>1. /\ req[s].pc = "upsert" /\ Knows(req[s]) /\ Syncing(req[s])
        /\ UNCHANGED <<users, nextId, links, opened, now, up>>
    BY Facts DEF SyncWrite, Knows, post
  <1>2. PICK d, k, key : d = req[s].sd /\ k = req[s].k /\ key = KeyOf(d, k)
    OBVIOUS
  <1>3. /\ d \in Row /\ d.id \in Users /\ Live(d.id) /\ k \in 1..4 /\ d.email # None
        /\ d.newEmailPending = users[d.id].newEmailPending
        /\ k = 2 => d.previousEmail # None
        /\ k = 3 => d.newEmailPending # None
        /\ k = 4 => d.provider # Local
    <2>1. d \in Row /\ Current(d)
      BY <1>1, <1>2 DEF Knows, Fields, Syncing
    <2>2. k \in 1..4 /\ (k = 2 => d.previousEmail # None) /\ (k = 3 => d.newEmailPending # None)
                    /\ (k = 4 => d.provider # Local)
      BY <1>1, <1>2 DEF Syncing
    <2> QED BY <2>1, <2>2 DEF Current, Live
  <1>4. ~req[s].found => idx[key] = NoEntry
    BY <1>1, <1>2 DEF Syncing
  <1>5. PICK q : q = [pc |-> "sync", k |-> k + 1] ++ req[s]
    OBVIOUS
  <1>6. q.pc = "sync" /\ q.k = k + 1 /\ q.sd = d /\ q.expected = req[s].expected
    BY <1>2, <1>5, Goes DEF ++, Idle
  <1>7. /\ req'[s] = q
        /\ ~broken' => ~broken /\ idx' = [idx EXCEPT ![key] = EntryOf(d, k)]
    BY <1>2, <1>3, <1>4, <1>5, Goes DEF SyncWrite
  <1>8. \A t \in Slots : t = s
    BY DEF OneAtATime
  <1>9. \A v \in Users : Behind(req'[s], v) <=> Behind(req[s], v)
    BY <1>1, <1>2, <1>6, <1>7 DEF Behind
  <1>10. Holds'
    <2> SUFFICES ASSUME (up /\ ~broken)', NEW v \in Users, Live(v)', InPending(users[v])', Sole(v)',
                        ~Behind(req'[s], v)
                 PROVE  Reserved(v)'
      BY DEF Holds
    <2>1. up /\ ~broken /\ Live(v) /\ InPending(users[v]) /\ Sole(v)
      BY <1>1, <1>7, ResSame
    <2>2. Reserved(v)
      BY <1>8, <1>9, <2>1 DEF ResInv, Holds
    <2>3. v # d.id
      BY <1>6, <1>7 DEF Behind
    <2>4. PICK e : e = users[v].newEmailPending
      OBVIOUS
    <2>5. users[d.id].newEmailPending # e
      <3>1. Rows /\ Claims /\ nextId \in Nat
        BY Facts DEF Inv, ResInv
      <3> QED BY <1>3, <2>1, <2>3, <2>4, <3>1, OnlyClaim DEF InPending
    <2>6. key # <<"pending", e>>
      BY <1>2, <1>3, <2>5, PendingKey
    <2>7. idx'[<<"pending", e>>] = idx[<<"pending", e>>]
      <3>1. e \in Emails
        BY <2>1, <2>4, Facts, RowFields DEF InPending
      <3>2. <<"pending", e>> \in DOMAIN idx
        BY <3>1 DEF Inv, Types, Keys
      <3> QED BY <1>7, <2>6, <3>2
    <2> QED BY <1>1, <2>2, <2>4, <2>7 DEF Reserved
  <1>11. Reserving(req[s])'
    <2>1. /\ d.migrationTokenExpires = users[d.id].migrationTokenExpires
          /\ InPending(d) => <<"pending", d.newEmailPending>> \in req[s].expected
          /\ up /\ ~broken /\ k > 3 /\ InPending(d) /\ Sole(d.id) => Reserved(d.id)
      BY <1>1, <1>2 DEF ResInv, Reserving
    <2>2. InPending(d)' <=> InPending(d)
      BY <1>1 DEF InPending
    <2>3. ASSUME (up /\ ~broken)', k + 1 > 3, InPending(d)', Sole(d.id)' PROVE Reserved(d.id)'
      <3>1. up /\ ~broken /\ InPending(d) /\ Sole(d.id)
        BY <1>1, <1>3, <1>7, <2>2, <2>3, ResSame
      <3>2. PICK e : e = d.newEmailPending
        OBVIOUS
      <3>3. CASE k = 3
        <4>1. key = <<"pending", e>> /\ EntryOf(d, k) = [user |-> d.id, exp |-> d.migrationTokenExpires]
          BY <1>2, <3>2, <3>3 DEF KeyOf, EntryOf
        <4>2. e \in Emails
          BY <1>3, <3>2, <3>3, RowFields
        <4>3. key \in DOMAIN idx
          BY <4>1, <4>2 DEF Inv, Types, Keys
        <4>4. idx'[<<"pending", e>>] = [user |-> d.id, exp |-> d.migrationTokenExpires]
          BY <1>7, <2>3, <4>1, <4>3
        <4> QED BY <1>1, <1>3, <2>1, <3>2, <4>4 DEF Reserved
      <3>4. CASE k = 4
        <4>1. Reserved(d.id)
          BY <2>1, <3>1, <3>4
        <4>2. key # <<"pending", e>>
          BY <1>2, <1>3, <3>4, PendingKey
        <4>3. idx'[<<"pending", e>>] = idx[<<"pending", e>>]
          <5>1. e \in Emails
            BY <1>3, <3>1, <3>2, RowFields DEF InPending
          <5>2. <<"pending", e>> \in DOMAIN idx
            BY <5>1 DEF Inv, Types, Keys
          <5> QED BY <1>7, <2>3, <4>2, <5>2
        <4> QED BY <1>1, <1>3, <3>2, <4>1, <4>3 DEF Reserved
      <3> QED BY <1>3, <2>3, <3>3, <3>4
    <2>4. req'[s].sd = d /\ req'[s].k = k + 1 /\ req'[s].expected = req[s].expected
      BY <1>6, <1>7
    <2> QED BY <1>1, <2>1, <2>2, <2>3, <2>4 DEF Reserving
  <1>12. Confirming(req[s])'
    BY <1>6, <1>7 DEF Confirming
  <1> QED BY <1>1, <1>8, <1>10, <1>11, <1>12, ResSame DEF ResInv

\* The sync, or a merge, deletes the entries of an account that are not kept.
LEMMA ResPrune ==
    ASSUME Inv, ResInv, OneAtATime, NEW s \in Slots, NEW u \in Users, NEW kept,
           idx' = Prune(idx, u, kept),
           UNCHANGED <<users, nextId, links, opened, now, up, broken>>,
           Recalls(req[s])', req'[s].pc \notin {"sync", "upsert", "saveverify"},
           \A v \in Users \ {u} : ~Behind(req[s], v),
           \/ Behind(req'[s], u)
           \/ up /\ ~broken /\ InPending(users[u]) /\ Sole(u) =>
                  /\ <<"pending", users[u].newEmailPending>> \in kept
                  /\ Reserved(u)
    PROVE  ResInv'
  <1>1. \A t \in Slots : t = s
    BY DEF OneAtATime
  <1>2. Holds'
    <2> SUFFICES ASSUME (up /\ ~broken)', NEW v \in Users, Live(v)', InPending(users[v])', Sole(v)',
                        ~Behind(req'[s], v)
                 PROVE  Reserved(v)'
      BY DEF Holds
    <2>1. up /\ ~broken /\ Live(v) /\ InPending(users[v]) /\ Sole(v)
      BY ResSame
    <2>2. PICK key : key = <<"pending", users[v].newEmailPending>>
      OBVIOUS
    <2>3. key \in Keys
      <3>1. users[v].newEmailPending \in Emails
        BY <2>1, Facts, RowFields DEF InPending
      <3> QED BY <2>2, <3>1 DEF Keys
    <2>4. Reserved(v) /\ (key \in kept \/ v # u)
      <3>1. CASE v = u
        BY <2>1, <2>2, <3>1
      <3>2. CASE v # u
        BY <1>1, <2>1, <3>2 DEF ResInv, Holds
      <3> QED BY <3>1, <3>2
    <2>5. idx[key].user = v
      BY <2>2, <2>4 DEF Reserved
    <2>6. idx'[key] = idx[key]
      BY <2>3, <2>4, <2>5, Pruned
    <2> QED BY <2>2, <2>4, <2>6 DEF Reserved
  <1>3. Reserving(req[s])' /\ Confirming(req[s])'
    BY DEF Reserving, Confirming
  <1> QED BY <1>1, <1>2, <1>3, ResSame DEF ResInv

\* Any step of a request that writes the index.
LEMMA ResIndex ==
    ASSUME Inv, ResInv, OneAtATime, NEW s \in Slots, IndexStep(s)
    PROVE  ResInv'
  <1>1. Recalls(req[s])'
    BY IndexOnly DEF ResInv
  <1>2. CASE SyncPrune(s)
    <2>1. /\ req[s].pc = "sync" /\ Knows(req[s]) /\ Due(s) = {}
          /\ UNCHANGED <<users, nextId, links, opened, now, up, broken>>
      BY <1>2, Facts DEF SyncPrune, post, health
    <2>2. PICK d, u : d = req[s].sd /\ u = d.id
      OBVIOUS
    <2>3. u \in Users /\ Current(d) /\ idx' = Prune(idx, u, req[s].expected)
      BY <1>2, <2>1, <2>2, Zenon DEF SyncPrune, Knows, Syncing, Current
    <2>4. PICK q : q = [pc |-> req[s].cont] ++ req[s]
      OBVIOUS
    <2>5. q.pc = req[s].cont
      BY <2>4, Goes DEF ++, Idle
    <2>6. GoOn(s, req[s].cont, <<>>)
      BY <1>2 DEF SyncPrune
    <2>7. req'[s] \in {q, Idle}
      BY <2>4, <2>6, Goes, GoOnTo
    <2>8. req'[s].pc \notin {"sync", "upsert", "saveverify"}
      <3>1. req[s].cont \in Continuations
        BY <2>1 DEF Knows, Fields
      <3> QED BY <2>5, <2>7, <3>1, IdleRecalls DEF Continuations
    <2>9. \A v \in Users \ {u} : ~Behind(req[s], v)
      BY <2>1, <2>2 DEF Behind
    <2>10. up /\ ~broken /\ InPending(users[u]) /\ Sole(u) =>
               <<"pending", users[u].newEmailPending>> \in req[s].expected /\ Reserved(u)
      <3> SUFFICES ASSUME up, ~broken, InPending(users[u]), Sole(u)
                   PROVE  <<"pending", users[u].newEmailPending>> \in req[s].expected /\ Reserved(u)
        OBVIOUS
      <3>1. d.newEmailPending = users[u].newEmailPending
        BY <2>2, <2>3 DEF Current
      <3>2. /\ d.migrationTokenExpires = users[u].migrationTokenExpires
            /\ InPending(d) => <<"pending", d.newEmailPending>> \in req[s].expected
            /\ req[s].k > 3 /\ InPending(d) => Reserved(u)
        BY <2>1, <2>2 DEF ResInv, Reserving
      <3>3. InPending(d)
        BY <3>1, <3>2 DEF InPending
      <3>4. req[s].k > 3
        <4> SUFFICES ASSUME req[s].k <= 3 PROVE FALSE
          BY <2>1 DEF Knows, Fields
        <4>1. 3 \in Due(s)
          BY <2>1, <2>2, <3>3 DEF Due, Wanted, Knows, Fields
        <4> QED BY <2>1, <4>1
      <3> QED BY <3>1, <3>2, <3>3, <3>4
    <2> QED BY <1>1, <2>1, <2>3, <2>8, <2>9, <2>10, ResPrune
  <1>3. CASE FinaliseRelease(s) \/ RecoverRelease(s)
    <2>1. PICK pc \in {"findelete", "recdelete"} :
              req[s].pc \in {"finrelease", "recrelease"} /\ Release(s, req[s].x, pc)
      BY <1>3 DEF FinaliseRelease, RecoverRelease
    <2>2. PICK u : u = req[s].x
      OBVIOUS
    <2>3. u \in Users
      BY <2>1, <2>2, Facts DEF Knows, Migrating
    <2>4. idx' = Prune(idx, u, {}) /\ UNCHANGED <<users, nextId, links, opened, now, up, broken>>
      BY <2>1, <2>2 DEF Release, post, health
    <2>5. PICK q : q = [pc |-> pc] ++ req[s]
      OBVIOUS
    <2>6. q.pc = pc /\ q.x = u
      BY <2>2, <2>5, Goes DEF ++, Idle
    <2>7. GoOn(s, pc, <<>>)
      BY <2>1 DEF Release
    <2>8. req'[s] = q
      BY <2>5, <2>7, Goes, GoOnTo
    <2>9. \A v \in Users : ~Behind(req[s], v)
      BY <2>1 DEF Behind
    <2>10. Behind(req'[s], u) /\ req'[s].pc \notin {"sync", "upsert", "saveverify"}
      BY <2>6, <2>8 DEF Behind
    <2> QED BY <1>1, <2>3, <2>4, <2>9, <2>10, ResPrune
  <1> QED BY <1>1, <1>2, <1>3, ResSelect, ResWrite DEF IndexStep

\* The backfill holds every pending address that one account alone has asked for.
LEMMA Filled ==
    ASSUME users \in [Users -> Row], Rows, Claims, nextId \in Nat,
           NEW ix, NEW b, b = Backfill(ix, MaxUsers),
           NEW u \in Users, Live(u), InPending(users[u]), Sole(u)
    PROVE  b[<<"pending", users[u].newEmailPending>>]
               = [user |-> u, exp |-> users[u].migrationTokenExpires]
  <1> DEFINE done == {v \in 1..MaxUsers : Live(v)}
             takers(key) == {v \in done : key \in expectedKeysForUser(users[v])}
             entry(d, key) == EntryOf(d, CHOOSE k \in 1..4 : Wanted(d, k) /\ KeyOf(d, k) = key)
  <1>1. PICK e, key : e = users[u].newEmailPending /\ key = <<"pending", e>>
    OBVIOUS
  <1>2. e # None /\ e \in Emails /\ users[u] \in Row /\ users[u].id = u
    BY <1>1, RowFields DEF InPending, Rows
  <1>3. key \in Keys
    BY <1>1, <1>2 DEF Keys
  <1>4. b[key] = IF takers(key) # {} THEN entry(users[Max(takers(key))], key)
                 ELSE IF ix[key].user \in done THEN NoEntry ELSE ix[key]
    BY <1>3 DEF Backfill
  <1>5. u \in takers(key)
    <2>1. key \in expectedKeysForUser(users[u])
      BY <1>1, Expecting
    <2> QED BY <2>1 DEF Users
  <1>6. ASSUME NEW v \in takers(key) PROVE v = u
    <2>1. v \in Users /\ Live(v) /\ users[v] \in Row
      BY DEF Users
    <2>2. PICK k \in 1..4 : Wanted(users[v], k) /\ KeyOf(users[v], k) = key
      BY DEF expectedKeysForUser
    <2>3. k = 4 => users[v].provider # Local
      BY <2>2 DEF Wanted
    <2>4. users[v].newEmailPending = e
      BY <1>1, <2>1, <2>2, <2>3, PendingKey
    <2> HIDE DEF takers
    <2> QED BY <1>1, <1>2, <2>1, <2>4, OnlyClaim
  <1>7. Max(takers(key)) = u
    <2>1. takers(key) \subseteq 1..MaxUsers /\ MaxUsers \in Nat
      BY StoreAssumption
    <2> HIDE DEF takers
    <2>2. Max(takers(key)) \in takers(key)
      BY <1>5, <2>1, LastIn
    <2> QED BY <1>6, <2>2
  <1>8. PICK k : k = CHOOSE j \in 1..4 : Wanted(users[u], j) /\ KeyOf(users[u], j) = key
    OBVIOUS
  <1>9. k = 3
    <2>1. Wanted(users[u], 3) /\ KeyOf(users[u], 3) = key
      BY <1>1 DEF Wanted, KeyOf
    <2>2. k \in 1..4 /\ Wanted(users[u], k) /\ KeyOf(users[u], k) = key
      BY <1>8, <2>1
    <2>3. k = 4 => users[u].provider # Local
      BY <2>2 DEF Wanted
    <2> QED BY <1>1, <1>2, <2>2, <2>3, PendingKey
  <1>10. entry(users[u], key) = EntryOf(users[u], k)
    BY <1>8
  <1>11. EntryOf(users[u], k) = [user |-> u, exp |-> users[u].migrationTokenExpires]
    BY <1>2, <1>9 DEF EntryOf
  <1>12. b[key] = entry(users[u], key)
    <2> HIDE DEF takers, entry
    <2> QED BY <1>4, <1>5, <1>7
  <1> HIDE DEF takers, entry
  <1> QED BY <1>1, <1>10, <1>11, <1>12

\* The requests are gone: a crash, a boot, a statement that fails.
LEMMA ResStop ==
    ASSUME ResInv, UNCHANGED <<users, nextId, links, opened>>,
           \A s \in Slots : req'[s].pc = "idle", Holds'
    PROVE  ResInv'
  <1>1. \A s \in Slots : Recalls(req[s])' /\ Reserving(req[s])' /\ Confirming(req[s])'
    BY DEF Recalls, Remembering, Stage, Reserving, Confirming
  <1> QED BY <1>1, ResSame DEF ResInv

\* The boot fills the index again.
LEMMA ResBoot ==
    ASSUME Inv, ResInv, Boot
    PROVE  ResInv'
  <1>1. PICK n \in 0..MaxUsers : idx' = Backfill(idx, n) /\ broken' = (n < MaxUsers)
    BY DEF Boot
  <1>2. UNCHANGED <<users, nextId, req, links, opened, now>> /\ ~up
    BY DEF Boot, post
  <1>3. \A s \in Slots : req'[s].pc = "idle"
    BY <1>2, Facts
  <1>4. Holds'
    <2> SUFFICES ASSUME ~broken', NEW v \in Users, Live(v)', InPending(users[v])', Sole(v)'
                 PROVE  Reserved(v)'
      BY DEF Holds
    <2>1. n = MaxUsers
      <3>1. ~(n < MaxUsers)
        BY <1>1, Zenon
      <3> QED BY <3>1, StoreAssumption
    <2>2. Live(v) /\ InPending(users[v]) /\ Sole(v)
      BY <1>2, ResSame
    <2>3. users \in [Users -> Row] /\ Rows /\ Claims /\ nextId \in Nat
      BY DEF Inv, Types, ResInv
    <2>4. idx'[<<"pending", users[v].newEmailPending>>]
              = [user |-> v, exp |-> users[v].migrationTokenExpires]
      <3>1. PICK b : b = Backfill(idx, n)
        OBVIOUS
      <3>2. b[<<"pending", users[v].newEmailPending>>]
                = [user |-> v, exp |-> users[v].migrationTokenExpires]
        BY <2>1, <2>2, <2>3, <3>1, Filled
      <3> QED BY <1>1, <3>1, <3>2
    <2> QED BY <1>2, <2>4 DEF Reserved
  <1> QED BY <1>2, <1>3, <1>4, ResStop

\* Every step.
LEMMA ResStep ==
    ASSUME Inv, Inv', ResInv, OneAtATime, ~AutoVerifyEmail, [Next]_vars
    PROVE  ResInv'
  <1>1. \A s \in Slots : Recalls(req[s])
    BY DEF ResInv
  <1>2. Posted
    BY Posts
  <1>3. ASSUME NEW s \in Slots, Calm(s) \/ Edit(s) \/ Inserts(s) \/ IndexStep(s) \/ VerifyHistoryRead(s)
                                \/ FinaliseDelete(s) \/ RecoverDelete(s)
        PROVE  ResInv'
    BY <1>2, <1>3, ResCalm, ResEdit, ResInserts, ResIndex, ResRead, ResDelete
  <1>4. ASSUME NEW s \in Slots, StatementFails(s) PROVE ResInv'
    <2>1. UNCHANGED <<users, nextId, links, opened>> /\ broken' = TRUE /\ Answer(s)
      BY <1>4 DEF StatementFails, store, post
    <2>2. \A t \in Slots : req'[t].pc = "idle"
      BY <2>1, Goes, IdleRecalls DEF OneAtATime
    <2> QED BY <2>1, <2>2, ResStop DEF Holds
  <1>5. ASSUME Crash PROVE ResInv'
    <2>1. UNCHANGED <<users, nextId, links, opened>> /\ ~up' /\ \A t \in Slots : req'[t] = Idle
      BY <1>5 DEF Crash, store, post
    <2> QED BY <2>1, IdleRecalls, ResStop DEF Holds
  <1>6. ASSUME NEW u \in Users, BumpVersion(u) PROVE ResInv'
    <2>1. /\ DOMAIN users = Users /\ users[u] \in Row /\ UNCHANGED <<nextId, idx, req, links, opened, up, broken, now>>
          /\ users' = [users EXCEPT ![u].tokenVersion = users[u].tokenVersion + 1]
      BY <1>6 DEF BumpVersion, Inv, Types, post, health
    <2>2. DOMAIN users[u] = DOMAIN NoRow
      BY <2>1, RowFields
    <2>3. \A v \in Users : \A f \in DOMAIN NoRow \ {"tokenVersion"} : users'[v][f] = users[v][f]
      BY <2>1, <2>2
    <2>4. now <= now'
      BY <2>1 DEF Inv, Types
    <2> QED BY <2>1, <2>3, <2>4, ResElse
  <1>7. ASSUME Tick \/ Sweep \/ UNCHANGED vars PROVE ResInv'
    <2>1. UNCHANGED <<users, nextId, req, up, broken, links, opened>>
      BY <1>7 DEF Tick, Sweep, vars, store, post, health
    <2>2. now \in Nat /\ now <= now'
      BY <1>7, StoreAssumption, SMTT(30) DEF Tick, Sweep, vars, Inv, Types
    <2>3. \A key \in Keys : idx[key].exp > now => idx'[key] = idx[key]
      BY <1>7, <2>2 DEF Tick, Sweep, vars, store
    <2> QED BY <2>1, <2>2, <2>3, ResElse
  <1> QED BY <1>1, <1>3, <1>4, <1>5, <1>6, <1>7, ResBoot, Kinds

\* The seed.
LEMMA ResInit ==
    ASSUME Init
    PROVE  ResInv
  <1>1. Inv /\ \A s \in Slots : req[s] = Idle
    BY InitGood DEF Init
  <1>2. \A s \in Slots : Recalls(req[s]) /\ Reserving(req[s]) /\ Confirming(req[s])
    BY <1>1, IdleRecalls DEF Reserving, Confirming
  <1>3. ASSUME NEW u \in Users, Live(u) PROVE u \in DOMAIN Seed /\ users[u] = Seed[u]
    <2>1. users[u] = IF u <= Len(Seed) THEN Seed[u] ELSE NoRow
      BY DEF Init
    <2>2. u <= Len(Seed)
      BY <1>3, <2>1 DEF Live, NoRow
    <2> QED BY <2>1, <2>2, SeedAssumption DEF Users
  <1>4. Claims
    <2> SUFFICES ASSUME NEW u \in Users, Live(u)
                 PROVE  /\ users[u].newEmailPending \in {None} \cup Tos(users[u])
                        /\ users[u].isEmailVerified \/ Tos(users[u]) # {} => Vouched(u)
      BY DEF Claims
    <2>1. PICK r : r = Seed[u]
      OBVIOUS
    <2>2. u \in DOMAIN Seed /\ users[u] = r
      BY <1>3, <2>1
    <2>3. r.newEmailPending \in {None} \cup Tos(r) /\ (r.migrationHistory # <<>> => r.isEmailVerified)
      BY <2>1, <2>2, SeedAssumption
    <2>4. Tos(r) # {} => r.migrationHistory # <<>>
      BY DEF Tos, Range
    <2>5. r.isEmailVerified => Vouched(u)
      <3>1. PICK l : l = [kind |-> "verify", secret |-> 0, u |-> u, to |-> Seed[u].email]
        OBVIOUS
      <3>2. r.isEmailVerified => l \in opened
        BY <2>1, <2>2, <3>1 DEF Init
      <3> QED BY <3>1, <3>2 DEF Vouched
    <2> QED BY <2>2, <2>3, <2>4, <2>5
  <1>5. Names
    <2>1. links = {} /\ \A l \in opened : l.secret = 0
      <3>1. links = {}
        BY DEF Init
      <3>2. ASSUME NEW l \in opened PROVE l.secret = 0
        <4>1. PICK u \in DOMAIN Seed :
                  \/ l = [kind |-> "verify", secret |-> 0, u |-> u, to |-> Seed[u].email]
                  \/ l = [kind |-> "current", secret |-> 0, u |-> u, to |-> Seed[u].email]
                  \/ l = [kind |-> "new", secret |-> 0, u |-> u, to |-> Seed[u].newEmailPending]
          BY <3>2 DEF Init
        <4> QED BY <4>1
      <3> QED BY <3>1, <3>2
    <2> QED BY <2>1 DEF Names
  <1>6. Holds
    <2> SUFFICES ASSUME NEW u \in Users, Live(u), InPending(users[u]), Sole(u)
                 PROVE  Reserved(u)
      BY DEF Holds
    <2>1. PICK ix : ix = [key \in Keys |-> NoEntry]
      OBVIOUS
    <2>2. idx = Backfill(ix, MaxUsers)
      BY <2>1 DEF Init
    <2>3. users \in [Users -> Row] /\ Rows /\ nextId \in Nat
      BY <1>1 DEF Inv, Types
    <2> QED BY <1>4, <2>2, <2>3, Filled DEF Reserved
  <1> QED BY <1>2, <1>4, <1>5, <1>6 DEF ResInv

\* With one request at a time, and with links that are mailed (not the flag that
\* skips them), the address that an account is going to move to is held for it in
\* the index, whatever fails, crashes or is swept, as long as nobody else has ever
\* asked for it (initiateMigration, resendMigrationEmails, the sync, the backfill).
THEOREM AddressesReserved ==
    ASSUME OneAtATime, ~AutoVerifyEmail
    PROVE  Spec => []PendingReserved
  <1>1. Init => Inv /\ ResInv
    BY InitGood, ResInit
  <1>2. Inv /\ ResInv /\ [Next]_vars => Inv' /\ ResInv'
    BY NextGood, ResStep DEF Good
  <1>3. Inv /\ ResInv => PendingReserved
    <2> SUFFICES ASSUME Inv, ResInv, Quiet, ~broken, NEW u \in Users, Live(u), InPending(users[u]),
                        SoleClaim(u, users[u].newEmailPending)
                 PROVE  findPendingMigrationHolder(users[u].newEmailPending) = u
      BY DEF PendingReserved
    <2>1. \A s \in Slots : ~Behind(req[s], u)
      BY DEF Quiet, Behind
    <2>2. Reserved(u)
      BY <2>1 DEF ResInv, Holds, Quiet, Sole
    <2> QED BY <2>2 DEF Reserved, InPending, findPendingMigrationHolder
  <1> QED BY <1>1, <1>2, <1>3, PTL DEF Spec

------------------------------------------------------------------------------
(* Requests that overlap *)

\* A verification, or a finalisation, that is under way does not see the migration
\* it is about replaced by another one.  (Only two initiations that overlap can do so,
\* or a request that takes longer than the cooldown.)
Steady ==
    \A s \in Slots : req[s].pc \in {"saveverified", "finalise"} /\ Live(req[s].doc.id) =>
        users[req[s].doc.id].newEmailPending \in {None, req[s].doc.newEmailPending}

\* the address of account u, if it is still there, is proved ...
Sure(u) == Live(u) => Proved(users[u].email)

\* ... or is e
Rooted(u, e) == Live(u) => users[u].email = e \/ Proved(users[u].email)

\* a verification link with that secret, for e, finds no account but one at e, or at
\* an address that is proved
VerifyTold(secret, e) ==
    \A u \in Users : users[u].emailVerificationToken = secret => Rooted(u, e)

\* a link with that secret, to the new address e of account u, finds no other account,
\* and no migration to another address
NewTold(secret, u, e) ==
    \A v \in Users : Live(v) /\ users[v].migrationToken = secret =>
        v = u /\ users[v].newEmailPending \in {None, e}

\* a document that has been loaded or saved
Typed(d) ==
    /\ DOMAIN d = DOMAIN NoRow
    /\ d.id \in 0..MaxUsers /\ d.id < nextId
    /\ d.provider \in OAuthIds \cup {Local}

\* what the addresses, flags and secrets of a row go back to
Honest(r) ==
    /\ r.isEmailVerified \/ r.previousEmail # None \/ r.newEmailPending # None => Proved(r.email)
    /\ r.newEmailVerified /\ r.newEmailPending # None => Used("new", r.id, r.newEmailPending)
    /\ {r.emailVerificationToken, r.migrationToken} \subseteq {0} \cup Secrets
    /\ r.newEmailPending \in Emails \cup {None}

\* accounts are what they were made of, and the rest of the table is empty
HonestRows ==
    /\ DOMAIN users = Users /\ nextId \in 1..(MaxUsers + 1) /\ gen \in 0..MaxTokens
    /\ \A u \in Users : /\ Typed(users[u])
                        /\ IF Live(u) THEN users[u].id = u /\ Honest(users[u]) ELSE users[u] = NoRow

\* a link in a mailbox, or in use, tells the truth
HonestLinks ==
    /\ \A l \in links : l.secret # 0
    /\ \A l \in links \cup opened : l.secret \in {0} \cup Secrets
    /\ \A l \in links \cup opened : l.secret # 0 =>
           /\ l.kind = "verify" => VerifyTold(l.secret, l.to)
           /\ l.kind = "new" => NewTold(l.secret, l.u, l.to)

\* an entry for an address leads to who has it, or has a proved one
HonestIndex ==
    /\ DOMAIN idx = Keys
    /\ \A key \in Keys : idx[key].user \in 0..MaxUsers /\ idx[key].user < nextId
    /\ \A kind \in {"primary", "previous", "pending"}, e \in Emails :
           Rooted(idx[<<kind, e>>].user, e)

\* what a request has found out, whatever happened since
Informed(r) ==
    LET g == Stage(r) IN
    /\ DOMAIN r = DOMAIN Idle
    /\ Typed(r.doc) /\ Typed(r.sd) /\ Typed(r.keep)
    /\ r.x \in 0..MaxUsers /\ r.x < nextId
    /\ r.pc \in {"sync", "upsert"} => r.cont \in Continuations /\ r.k \in 1..5
    /\ r.pc = "resolve" => r.cont \in {"oauthuser", "loginuser"} /\ r.k \in 1..3
    /\ g \in WithAddress => r.e \in Emails
    /\ g \in InOAuth \cup {"takeover"} => r.id \in OAuthIds
    /\ g = "resolve" /\ r.cont = "oauthuser" => r.id \in OAuthIds
    /\ g \in {"taken", "reverify", "oauthuser", "oauthprimaryuser"} => Rooted(r.x, r.e)
    /\ g \in {"create", "reverifysave", "oauthprimary", "oauthprimaryuser", "takeover"} =>
           Rooted(r.doc.id, r.e)
    /\ g \in InInitiate \cup {"saveverify"} => Sure(r.doc.id)
    /\ g = "findverify" => \E l \in opened : l.kind = "verify" /\ l.secret = r.link /\ l.secret # 0
    /\ g = "findmigration" /\ r.op = "new" =>
           \E l \in opened : l.kind = "new" /\ l.secret = r.link /\ l.secret # 0
    /\ g \in InVerifyNew => r.op = "new"
    /\ g \in InVerifyNew \cup {"finalise", "loginsave"} \/ (g = "saveverified" /\ r.op = "new") =>
           Used("new", r.doc.id, r.doc.newEmailPending)
    /\ g = "loginsave" => r.doc.newEmailPending = r.e
    /\ g \in {"finlookup", "finexists", "finrelease", "findelete", "finupdate", "finreload",
              "finsave"} => Used("new", r.doc.id, r.e)
    /\ g = "mailverify" => /\ r.sd.emailVerificationToken \in Secrets
                           /\ VerifyTold(r.sd.emailVerificationToken, r.e)
    /\ g = "mailmigrate" => /\ r.sd.migrationToken \in Secrets
                            /\ NewTold(r.sd.migrationToken, r.sd.id, r.sd.newEmailPending)
    /\ r.pc \in {"sync", "upsert"} =>
           /\ Rooted(r.sd.id, r.sd.email)
           /\ r.sd.previousEmail # None \/ r.sd.newEmailPending # None => Sure(r.sd.id)
    /\ r.pc = "upsert" => /\ r.k \in 1..4
                          /\ r.k = 2 => r.sd.previousEmail # None
                          /\ r.k = 3 => r.sd.newEmailPending # None
                          /\ r.k = 4 => r.sd.provider # Local

\* The invariant of requests that overlap.
Honesty == /\ HonestRows /\ HonestLinks /\ HonestIndex
           /\ DOMAIN req = Slots /\ \A s \in Slots : Informed(req[s])

------------------------------------------------------------------------------
\* What a step may do to what a request has found out.
Grows ==
    /\ nextId <= nextId' /\ gen <= gen' /\ opened \subseteq opened'
    /\ \A u \in Users : Live(u)' =>
        /\ Live(u) \/ nextId <= u
        /\ Live(u) => users'[u].email = users[u].email \/ Used("new", u, users[u].email)'
        /\ \/ Live(u) /\ users'[u].emailVerificationToken = users[u].emailVerificationToken
           \/ users'[u].emailVerificationToken \notin Secrets
        /\ \/ /\ Live(u) /\ users'[u].migrationToken = users[u].migrationToken
              /\ users'[u].newEmailPending \in {None, users[u].newEmailPending}
           \/ users'[u].migrationToken \notin Secrets

\* What was found out stays true.
LEMMA Lasting ==
    ASSUME HonestRows, Grows, nextId' \in 1..(MaxUsers + 1), gen' \in 0..MaxTokens
    PROVE  /\ \A d : Typed(d) => Typed(d)'
           /\ \A e : Proved(e) => Proved(e)'
           /\ \A kind, u, e : Used(kind, u, e) => Used(kind, u, e)'
           /\ Secrets \subseteq Secrets'
           /\ \A u \in 0..MaxUsers : u < nextId => u < nextId'
           /\ \A u \in 0..MaxUsers : u < nextId /\ Sure(u) => Sure(u)'
           /\ \A e : \A u \in 0..MaxUsers : u < nextId /\ Rooted(u, e) => Rooted(u, e)'
           /\ \A e : \A secret \in Secrets : VerifyTold(secret, e) => VerifyTold(secret, e)'
           /\ \A u, e : \A secret \in Secrets : NewTold(secret, u, e) => NewTold(secret, u, e)'
  <1>1. nextId \in Nat /\ nextId' \in Nat /\ gen \in Nat /\ gen' \in Nat /\ MaxTokens \in Nat /\ MaxUsers \in Nat
    BY StoreAssumption DEF HonestRows
  <1>2. \A e : Proved(e) => Proved(e)'
    BY DEF Grows, Proved
  <1>3. \A kind, u, e : Used(kind, u, e) => Used(kind, u, e)'
    BY DEF Grows, Used
  <1>4. Secrets \subseteq Secrets'
    BY <1>1 DEF Grows, Secrets
  <1>5. \A u \in 0..MaxUsers : u < nextId => u < nextId'
    BY <1>1 DEF Grows
  <1>6. \A d : Typed(d) => Typed(d)'
    BY <1>5 DEF Typed
  <1>7. ASSUME NEW u \in Users, u < nextId, Live(u)'
        PROVE  Live(u) /\ (users'[u].email = users[u].email \/ Proved(users[u].email)')
    <2>1. Live(u)
      BY <1>1, <1>7 DEF Grows, Users
    <2>2. users'[u].email = users[u].email \/ Used("new", u, users[u].email)'
      BY <1>7, <2>1 DEF Grows
    <2> QED BY <2>1, <2>2 DEF Used, Proved
  <1>8. ASSUME NEW u \in 0..MaxUsers, NEW e, u < nextId, Rooted(u, e) PROVE Rooted(u, e)'
    <2>1. CASE u \in Users
      BY <1>2, <1>7, <1>8, <2>1 DEF Rooted
    <2>2. CASE u \notin Users
      BY <1>1, <2>2 DEF Rooted, Live, Users
    <2> QED BY <2>1, <2>2
  <1>9. ASSUME NEW u \in 0..MaxUsers, u < nextId, Sure(u) PROVE Sure(u)'
    <2>1. CASE u \in Users
      BY <1>2, <1>7, <1>9, <2>1 DEF Sure
    <2>2. CASE u \notin Users
      BY <1>1, <2>2 DEF Sure, Live, Users
    <2> QED BY <2>1, <2>2
  <1>10. ASSUME NEW secret \in Secrets, NEW e, VerifyTold(secret, e) PROVE VerifyTold(secret, e)'
    <2> SUFFICES ASSUME NEW u \in Users, users'[u].emailVerificationToken = secret, Live(u)'
                 PROVE  users'[u].email = e \/ Proved(users[u].email)'
      BY DEF VerifyTold, Rooted
    <2>1. Live(u) /\ users[u].emailVerificationToken = secret
      BY DEF Grows
    <2>2. users[u].email = e \/ Proved(users[u].email)
      BY <1>10, <2>1 DEF VerifyTold, Rooted
    <2>3. u \in 0..MaxUsers /\ u < nextId
      <3>1. Typed(users[u]) /\ users[u].id = u
        BY <2>1 DEF HonestRows
      <3> QED BY <3>1 DEF Typed
    <2> QED BY <1>2, <1>7, <2>2, <2>3
  <1>11. ASSUME NEW secret \in Secrets, NEW u, NEW e, NewTold(secret, u, e) PROVE NewTold(secret, u, e)'
    BY <1>11 DEF NewTold, Grows
  <1> QED BY <1>2, <1>3, <1>4, <1>5, <1>6, <1>8, <1>9, <1>10, <1>11

LEMMA StillInformed ==
    ASSUME HonestRows, Grows, nextId' \in 1..(MaxUsers + 1), gen' \in 0..MaxTokens, NEW r, Informed(r)
    PROVE  Informed(r)'
  <1>1. /\ Typed(r.doc) /\ Typed(r.sd) /\ Typed(r.keep) /\ r.x \in 0..MaxUsers /\ r.x < nextId
        /\ r.doc.id \in 0..MaxUsers /\ r.sd.id \in 0..MaxUsers /\ r.doc.id < nextId /\ r.sd.id < nextId
    BY DEF Informed, Typed
  <1>2. /\ Typed(r.doc)' /\ Typed(r.sd)' /\ Typed(r.keep)' /\ r.x < nextId'
        /\ Rooted(r.x, r.e) => Rooted(r.x, r.e)'
        /\ Rooted(r.doc.id, r.e) => Rooted(r.doc.id, r.e)'
        /\ Rooted(r.sd.id, r.sd.email) => Rooted(r.sd.id, r.sd.email)'
        /\ Sure(r.doc.id) => Sure(r.doc.id)'
        /\ Sure(r.sd.id) => Sure(r.sd.id)'
        /\ Used("new", r.doc.id, r.doc.newEmailPending) => Used("new", r.doc.id, r.doc.newEmailPending)'
        /\ Used("new", r.doc.id, r.e) => Used("new", r.doc.id, r.e)'
        /\ r.sd.emailVerificationToken \in Secrets /\ VerifyTold(r.sd.emailVerificationToken, r.e) =>
              r.sd.emailVerificationToken \in Secrets' /\ VerifyTold(r.sd.emailVerificationToken, r.e)'
        /\ r.sd.migrationToken \in Secrets /\ NewTold(r.sd.migrationToken, r.sd.id, r.sd.newEmailPending) =>
              r.sd.migrationToken \in Secrets' /\ NewTold(r.sd.migrationToken, r.sd.id, r.sd.newEmailPending)'
    BY <1>1, Lasting
  <1>3. opened \subseteq opened'
    BY DEF Grows
  <1> QED BY <1>1, <1>2, <1>3 DEF Informed, Stage

\* What the rows, links and entries say stays true as well.
LEMMA StillHonest ==
    ASSUME Honesty, Grows, nextId' \in 1..(MaxUsers + 1), gen' \in 0..MaxTokens
    PROVE  /\ \A r : Honest(r) => Honest(r)'
           /\ UNCHANGED idx => HonestIndex'
           /\ links' = links /\ (\A l \in opened' \ opened : l.secret = 0) => HonestLinks'
  <1>1. ASSUME NEW r, Honest(r) PROVE Honest(r)'
    BY <1>1, Lasting DEF Honest, Honesty
  <1>2. ASSUME UNCHANGED idx PROVE HonestIndex'
    <2>1. \A kind \in {"primary", "previous", "pending"}, e \in Emails :
              Rooted(idx[<<kind, e>>].user, e)'
      <3> TAKE kind \in {"primary", "previous", "pending"}, e \in Emails
      <3>1. <<kind, e>> \in Keys
        BY DEF Keys
      <3>2. PICK x : x = idx[<<kind, e>>].user
        OBVIOUS
      <3>3. x \in 0..MaxUsers /\ x < nextId /\ Rooted(x, e)
        BY <3>1, <3>2 DEF Honesty, HonestIndex
      <3>4. Rooted(x, e)'
        BY <3>3, Lasting DEF Honesty
      <3>5. x = idx'[<<kind, e>>].user
        BY <1>2, <3>2
      <3> QED BY <3>4, <3>5
    <2>2. DOMAIN idx' = Keys /\ \A key \in Keys : idx'[key].user \in 0..MaxUsers /\ idx'[key].user < nextId'
      BY <1>2, Lasting DEF Honesty, HonestIndex
    <2> QED BY <2>1, <2>2 DEF HonestIndex
  <1>3. ASSUME links' = links, \A l \in opened' \ opened : l.secret = 0 PROVE HonestLinks'
    <2>1. \A l \in links' \cup opened' : l \in links \cup opened \/ l.secret = 0
      BY <1>3
    <2>2. \A l \in links' \cup opened' : l.secret \in {0} \cup Secrets'
      BY <2>1, Lasting DEF Honesty, HonestLinks
    <2>3. ASSUME NEW l \in links' \cup opened', l.secret # 0
          PROVE  /\ l.kind = "verify" => VerifyTold(l.secret, l.to)'
                 /\ l.kind = "new" => NewTold(l.secret, l.u, l.to)'
      <3>1. l \in links \cup opened /\ l.secret \in Secrets
        BY <2>1, <2>3 DEF Honesty, HonestLinks
      <3>2. /\ l.kind = "verify" => VerifyTold(l.secret, l.to)
            /\ l.kind = "new" => NewTold(l.secret, l.u, l.to)
        BY <2>3, <3>1 DEF Honesty, HonestLinks
      <3> QED BY <3>1, <3>2, Lasting DEF Honesty
    <2> QED BY <1>3, <2>2, <2>3 DEF HonestLinks, Honesty
  <1> QED BY <1>1, <1>2, <1>3

\* A request moves on, and the others stay where they are.
LEMMA Moving ==
    ASSUME Honesty, Grows, HonestRows', HonestLinks', HonestIndex', NEW s \in Slots,
           NEW q, Informed(q)', req' = [req EXCEPT ![s] = q]
    PROVE  Honesty'
  <1>1. \A t \in Slots : Informed(req[t])
    BY DEF Honesty
  <1>2. ASSUME NEW t \in Slots PROVE Informed(req[t])'
    <2>1. CASE t = s
      <3>1. req'[t] = q
        BY <2>1 DEF Honesty
      <3> QED BY <3>1
    <2>2. CASE t # s
      <3>1. PICK r : r = req[t]
        OBVIOUS
      <3>2. Informed(r)'
        BY <1>1, <3>1, StillInformed DEF Honesty, HonestRows
      <3>3. req'[t] = r
        BY <2>2, <3>1 DEF Honesty
      <3> QED BY <3>2, <3>3
    <2> QED BY <2>1, <2>2
  <1>3. \A t \in Slots : Informed(req[t])'
    BY <1>2
  <1> QED BY <1>3 DEF Honesty

\* a step that keeps the invariant of overlapping requests, and what they have found out
Sound == Honesty' /\ Grows

\* mail is sent, and links are used, only where the step says so
Sends == /\ links' = links /\ opened \subseteq opened' /\ \A l \in opened' \ opened : l.secret = 0
         /\ gen' \in {gen, gen + 1} /\ gen' \in 0..MaxTokens

\* what a write may make of the row p
Fair(p, r) ==
    /\ DOMAIN r = DOMAIN NoRow /\ r.id = p.id /\ r.email # None /\ r.provider \in OAuthIds \cup {Local}
    /\ r.email = p.email \/ Used("new", p.id, r.email)
    /\ r.emailVerificationToken = p.emailVerificationToken \/ r.emailVerificationToken \notin Secrets
    /\ \/ r.migrationToken = p.migrationToken /\ r.newEmailPending \in {None, p.newEmailPending}
       \/ r.migrationToken \notin Secrets

\* the rows stay, or row u is written
Stores(u, r) == \/ UNCHANGED store
                \/ /\ Live(u) /\ Fair(users[u], r)
                   /\ users' = [users EXCEPT ![u] = r] /\ UNCHANGED <<nextId, idx>>

\* What has been found out survives a write.
LEMMA StoreGrows ==
    ASSUME Honesty, Sends, NEW u \in 0..MaxUsers, NEW r, Stores(u, r)
    PROVE  /\ Grows /\ nextId' \in 1..(MaxUsers + 1) /\ gen' \in 0..MaxTokens
           /\ Live(u) => /\ u \in Users /\ users[u].id = u /\ u < nextId /\ Typed(users[u])
                         /\ Honest(users[u])
  <1>1. nextId' = nextId /\ nextId \in 1..(MaxUsers + 1) /\ gen \in 0..MaxTokens
    BY DEF Stores, store, Honesty, HonestRows
  <1>2. gen <= gen' /\ nextId <= nextId'
    BY <1>1, StoreAssumption, SMTT(30) DEF Sends
  <1>3. Live(u) => /\ u \in Users /\ users[u].id = u /\ u < nextId /\ Typed(users[u]) /\ Honest(users[u])
    BY DEF Live, Users, Honesty, HonestRows, Typed
  <1>4. ASSUME NEW v \in Users, Live(v)'
        PROVE  /\ Live(v)
               /\ users'[v].email = users[v].email \/ Used("new", v, users[v].email)'
               /\ \/ users'[v].emailVerificationToken = users[v].emailVerificationToken
                  \/ users'[v].emailVerificationToken \notin Secrets
               /\ \/ /\ users'[v].migrationToken = users[v].migrationToken
                     /\ users'[v].newEmailPending \in {None, users[v].newEmailPending}
                  \/ users'[v].migrationToken \notin Secrets
    <2>1. CASE users'[v] = users[v]
      BY <1>4, <2>1 DEF Live
    <2>2. CASE users'[v] # users[v]
      <3>1. v = u /\ Live(u) /\ Fair(users[u], r) /\ users'[u] = r
        BY <2>2 DEF Stores, store, Honesty, HonestRows
      <3>2. \A e : Used("new", u, e) => Used("new", u, e)'
        BY DEF Sends, Used
      <3> QED BY <1>3, <3>1, <3>2 DEF Fair
    <2> QED BY <2>1, <2>2
  <1> QED BY <1>1, <1>2, <1>3, <1>4 DEF Grows, Sends

\* A write of a row, or none.
LEMMA Stored ==
    ASSUME Honesty, Sends, NEW u \in 0..MaxUsers, NEW r, Stores(u, r), Live(u) => Honest(r)'
    PROVE  Grows /\ HonestRows' /\ HonestLinks' /\ HonestIndex'
  <1>1. /\ Grows /\ nextId' \in 1..(MaxUsers + 1) /\ gen' \in 0..MaxTokens
        /\ Live(u) => /\ u \in Users /\ users[u].id = u /\ u < nextId /\ Typed(users[u])
    BY StoreGrows
  <1>2. /\ \A d : Honest(d) => Honest(d)'
        /\ HonestIndex' /\ HonestLinks'
    <2>1. idx' = idx /\ links' = links /\ \A l \in opened' \ opened : l.secret = 0
      BY DEF Stores, store, Sends
    <2> QED BY <1>1, <2>1, StillHonest
  <1>3. \A d : Typed(d) => Typed(d)'
    BY <1>1, Lasting DEF Honesty
  <1>4. DOMAIN users' = Users
    BY DEF Stores, store, Honesty, HonestRows
  <1>5. ASSUME NEW v \in Users
        PROVE  /\ Typed(users[v])'
               /\ IF Live(v)' THEN users'[v].id = v /\ Honest(users[v])' ELSE users'[v] = NoRow
    <2>1. CASE users'[v] = users[v]
      <3>1. PICK d : d = users[v]
        OBVIOUS
      <3>2. Typed(d)' /\ (Honest(d) => Honest(d)')
        BY <1>2, <1>3, <3>1 DEF Honesty, HonestRows
      <3>3. IF Live(v) THEN d.id = v /\ Honest(d) ELSE d = NoRow
        BY <3>1 DEF Honesty, HonestRows
      <3>4. Live(v)' <=> Live(v)
        BY <2>1 DEF Live
      <3>5. users'[v] = d
        BY <2>1, <3>1
      <3> QED BY <3>2, <3>3, <3>4, <3>5
    <2>2. CASE users'[v] # users[v]
      <3>1. v = u /\ Live(u) /\ Fair(users[u], r) /\ users'[u] = r
        BY <2>2 DEF Stores, store, Honesty, HonestRows
      <3>2. Live(v)'
        BY <3>1 DEF Fair, Live, Users
      <3>3. Typed(r)
        BY <1>1, <3>1 DEF Fair, Typed
      <3>4. Typed(r)' /\ Honest(r)'
        BY <1>3, <3>1, <3>3
      <3> QED BY <1>1, <3>1, <3>2, <3>4 DEF Fair
    <2> QED BY <2>1, <2>2
  <1>6. HonestRows'
    BY <1>1, <1>4, <1>5 DEF HonestRows
  <1> QED BY <1>1, <1>2, <1>6

\* A request that writes a row, or none.
LEMMA Storing ==
    ASSUME Honesty, Sends, NEW u \in 0..MaxUsers, NEW r, Stores(u, r), Live(u) => Honest(r)',
           NEW s \in Slots, NEW q, Informed(q)', req' = [req EXCEPT ![s] = q]
    PROVE  Sound
  BY Stored, Moving DEF Sound

\* A request that only reads.
LEMMA ReadingOn ==
    ASSUME Honesty, UNCHANGED <<store, post>>, NEW s \in Slots,
           NEW q, Informed(q), req' = [req EXCEPT ![s] = q]
    PROVE  Sound
  <1>1. Sends /\ Stores(0, NoRow) /\ 0 \in 0..MaxUsers /\ ~Live(0)
    BY StoreAssumption DEF Sends, Stores, store, post, Honesty, HonestRows, Live
  <1>2. Grows /\ nextId' \in 1..(MaxUsers + 1) /\ gen' \in 0..MaxTokens
    BY <1>1, StoreGrows
  <1>3. Informed(q)'
    BY <1>2, StillInformed DEF Honesty
  <1> QED BY <1>1, <1>3, Storing

\* A slot without a request has found out nothing.
LEMMA IdleInformed ==
    ASSUME Honesty PROVE Informed(Idle)
  <1>1. NoRow.id = 0 /\ NoRow.provider = Local
    BY DEF NoRow
  <1>2. 0 \in 0..MaxUsers /\ 0 < nextId
    BY StoreAssumption DEF Honesty, HonestRows
  <1>3. Typed(NoRow)
    BY <1>1, <1>2 DEF Typed
  <1> QED BY <1>2, <1>3 DEF Informed, Idle

\* Where a request goes that only reads.
LEMMA Onward ==
    ASSUME Honesty, NEW s \in Slots, Reads
    PROVE  /\ Informed(req[s]) /\ DOMAIN req[s] = DOMAIN Idle
           /\ Answer(s) => Sound
           /\ \A w : Goto(s, w) /\ Informed(w ++ req[s]) => Sound
           /\ \A op, w : Begin(s, op, w) /\ Informed(w ++ [Idle EXCEPT !.op = op]) => Sound
  <1>1. Informed(req[s]) /\ DOMAIN req[s] = DOMAIN Idle
    BY DEF Honesty, Informed
  <1>2. UNCHANGED <<store, post>>
    BY DEF Reads
  <1> HIDE DEF ++
  <1>3. Answer(s) => Sound
    BY <1>2, IdleInformed, ReadingOn DEF Answer
  <1>4. ASSUME NEW w, Goto(s, w), Informed(w ++ req[s]) PROVE Sound
    BY <1>2, <1>4, ReadingOn DEF Goto
  <1>5. ASSUME NEW op, NEW w, Begin(s, op, w), Informed(w ++ [Idle EXCEPT !.op = op]) PROVE Sound
    BY <1>2, <1>5, ReadingOn DEF Begin
  <1> QED BY <1>1, <1>3, <1>4, <1>5

\* A document that was loaded is its row, or none.
LEMMA LoadedTyped ==
    ASSUME Honesty, NEW x \in 0..MaxUsers, x < nextId, NEW d, d = Load(x)
    PROVE  /\ Typed(d)
           /\ ~Live(x) => d = NoRow
           /\ Live(x) => /\ x \in Users /\ d.id = x
                         /\ \A f \in DOMAIN NoRow \ {"password"} : d[f] = users[x][f]
                         /\ Honest(users[x])
  <1>1. Typed(NoRow)
    BY IdleInformed DEF Informed, Idle
  <1>2. CASE Live(x)
    <2>1. /\ x \in Users /\ Typed(users[x]) /\ users[x].id = x /\ Honest(users[x])
          /\ d = [users[x] EXCEPT !.password = FALSE]
      BY <1>2 DEF Live, Users, Load, Honesty, HonestRows
    <2>2. DOMAIN users[x] = DOMAIN NoRow
      BY <2>1 DEF Typed
    <2>3. DOMAIN d = DOMAIN NoRow /\ \A f \in DOMAIN NoRow \ {"password"} : d[f] = users[x][f]
      BY <2>1, <2>2
    <2>4. d.id = x /\ d.provider = users[x].provider
      BY <2>1, <2>3 DEF NoRow
    <2>5. Typed(d)
      BY <2>1, <2>3, <2>4 DEF Typed
    <2> QED BY <1>2, <2>1, <2>3, <2>4, <2>5
  <1>3. CASE ~Live(x)
    <2>1. x # 0 => users[x] = NoRow
      BY <1>3 DEF Honesty, HonestRows, Users
    <2>2. [NoRow EXCEPT !.password = FALSE] = NoRow
      <3>1. NoRow.password = FALSE /\ NoRow = [f \in DOMAIN NoRow |-> NoRow[f]]
        BY DEF NoRow
      <3> QED BY <3>1, ExceptSame
    <2>3. d = NoRow
      BY <2>1, <2>2 DEF Load
    <2> QED BY <1>1, <1>3, <2>3
  <1> QED BY <1>2, <1>3

\* Whoever the index names for an address has it, or has a proved one.
LEMMA Found ==
    ASSUME Honesty, NEW e \in Emails
    PROVE  /\ \A x : x = findUserIdByPrimaryEmail(e) => x \in 0..MaxUsers /\ x < nextId /\ Rooted(x, e)
           /\ \A kind \in {"primary", "previous", "pending"} :
                  LET x == idx[<<kind, e>>].user IN x \in 0..MaxUsers /\ x < nextId /\ Rooted(x, e)
  <1>1. \A kind \in {"primary", "previous", "pending"} :
            LET x == idx[<<kind, e>>].user IN x \in 0..MaxUsers /\ x < nextId /\ Rooted(x, e)
    BY DEF Honesty, HonestIndex, Keys
  <1>2. 0 \in 0..MaxUsers /\ 0 < nextId /\ Rooted(0, e)
    BY StoreAssumption DEF Honesty, HonestRows, Rooted, Live
  <1> QED BY <1>1, <1>2 DEF findUserIdByPrimaryEmail

\* The lookups of an address: register, the OAuth strategy, initiateMigration,
\* verifyNewEmail, finalizeMigrationInternal and its recovery.
LEMMA LookupSound ==
    ASSUME Honesty, NEW s \in Slots, NEW from, NEW to,
           <<from, to>> \in {<<"lookup", "taken">>, <<"oauthprimary", "oauthprimaryuser">>,
                             <<"initlookup", "initexists">>, <<"newlookup", "newexists">>,
                             <<"finlookup", "finexists">>, <<"duplicate", "recover">>},
           At(s, from), Goto(s, [pc |-> to, x |-> findUserIdByPrimaryEmail(req[s].e)]), Reads
    PROVE  Sound
  <1>1. Informed(req[s]) /\ DOMAIN req[s] = DOMAIN Idle /\ req[s].pc = from
    BY Onward
  <1>2. req[s].e \in Emails
    BY <1>1 DEF Informed
  <1>3. PICK x : x = findUserIdByPrimaryEmail(req[s].e)
    OBVIOUS
  <1>4. x \in 0..MaxUsers /\ x < nextId /\ Rooted(x, req[s].e)
    BY <1>2, <1>3, Found
  <1>5. PICK q : q = [pc |-> to, x |-> x] ++ req[s]
    OBVIOUS
  <1>6. /\ DOMAIN q = DOMAIN Idle /\ q.pc = to /\ q.x = x
        /\ \A f \in DOMAIN Idle \ {"pc", "x"} : q[f] = req[s][f]
    BY <1>1, <1>5 DEF ++, Idle
  <1>7. /\ q.doc = req[s].doc /\ q.sd = req[s].sd /\ q.keep = req[s].keep /\ q.e = req[s].e
        /\ q.op = req[s].op /\ q.link = req[s].link /\ q.id = req[s].id /\ q.cont = req[s].cont
    BY <1>6 DEF Idle
  <1>8. Informed(q)
    BY <1>1, <1>2, <1>4, <1>6, <1>7 DEF Informed
  <1> HIDE DEF ++
  <1> QED BY <1>3, <1>5, <1>8, Onward

\* The steps that look at an account that was found, and keep nothing new of it.
LEMMA ExistsSound ==
    ASSUME Honesty, NEW s \in Slots, NEW from, NEW to,
           <<from, to>> \in {<<"holder", "lookup">>, <<"initexists", "initreload">>,
                             <<"newexists", "saveverified">>, <<"newexists", "placeholder">>,
                             <<"finexists", "finreload">>, <<"finexists", "finrelease">>,
                             <<"finexists", "finupdate">>, <<"recover", "recrelease">>},
           At(s, from), Goto(s, [pc |-> to]), Reads
    PROVE  Sound
  <1>1. Informed(req[s]) /\ DOMAIN req[s] = DOMAIN Idle /\ req[s].pc = from
    BY Onward
  <1>5. PICK q : q = [pc |-> to] ++ req[s]
    OBVIOUS
  <1>6. /\ DOMAIN q = DOMAIN Idle /\ q.pc = to
        /\ \A f \in DOMAIN Idle \ {"pc"} : q[f] = req[s][f]
    BY <1>1, <1>5 DEF ++, Idle
  <1>7. /\ q.doc = req[s].doc /\ q.sd = req[s].sd /\ q.keep = req[s].keep /\ q.e = req[s].e /\ q.x = req[s].x
        /\ q.op = req[s].op /\ q.link = req[s].link /\ q.id = req[s].id /\ q.cont = req[s].cont
    BY <1>6 DEF Idle
  <1>8. Informed(q)
    BY <1>1, <1>6, <1>7 DEF Informed
  <1> HIDE DEF ++
  <1> QED BY <1>5, <1>8, Onward

\* The steps that load a document and go on with it.
LEMMA LoadSound ==
    ASSUME Honesty, NEW s \in Slots, NEW to, NEW d, Typed(d), Reads,
           req[s].pc \notin {"sync", "upsert", "idle", "resolve"},
           Goto(s, [pc |-> to, doc |-> d]) \/ Goto(s, [doc |-> d, pc |-> to]),
           \/ to \in {"strategy", "savebio", "savebio2"}
           \/ to \in {"create", "reverifysave"} /\ req[s].e \in Emails /\ Rooted(d.id, req[s].e)
           \/ to \in {"takeover", "oauthprimary"} /\ req[s].e \in Emails /\ req[s].id \in OAuthIds
                 /\ Rooted(d.id, req[s].e)
           \/ to = "oauthcreate" /\ req[s].e \in Emails /\ req[s].id \in OAuthIds
           \/ to = "saveverify" /\ Sure(d.id)
           \/ to = "initsave" /\ Sure(d.id) /\ req[s].e \in Emails
           \/ to = "finalise" /\ Used("new", d.id, d.newEmailPending)
           \/ to = "loginsave" /\ req[s].e \in Emails /\ d.newEmailPending = req[s].e
                 /\ Used("new", d.id, d.newEmailPending)
    PROVE  Sound
  <1>1. Informed(req[s]) /\ DOMAIN req[s] = DOMAIN Idle
    BY Onward
  <1>2. \A w, v : w = [pc |-> to, doc |-> d] /\ v = [doc |-> d, pc |-> to] =>
            w = v /\ DOMAIN w = {"pc", "doc"}
    OBVIOUS
  <1>5. PICK q : q = [pc |-> to, doc |-> d] ++ req[s]
    OBVIOUS
  <1>6. /\ DOMAIN q = DOMAIN Idle /\ q.pc = to /\ q.doc = d
        /\ \A f \in DOMAIN Idle \ {"pc", "doc"} : q[f] = req[s][f]
    BY <1>1, <1>5 DEF ++, Idle
  <1>7. /\ q.sd = req[s].sd /\ q.keep = req[s].keep /\ q.e = req[s].e /\ q.x = req[s].x
        /\ q.op = req[s].op /\ q.link = req[s].link /\ q.id = req[s].id /\ q.cont = req[s].cont
    BY <1>6 DEF Idle
  <1>8. Informed(q)
    BY <1>1, <1>6, <1>7 DEF Informed
  <1> HIDE DEF ++
  <1> QED BY <1>2, <1>5, <1>8, Onward

\* The steps of register, resendVerification, verifyEmail, the OAuth strategy and
\* updateBio that only read.
LEMMA AccountReadsSound ==
    ASSUME Honesty, NEW s \in Slots
    PROVE  /\ RegisterHolder(s) => Sound
           /\ RegisterLookup(s) => Sound
           /\ RegisterTaken(s) => Sound
           /\ ResendVerificationFind(s) => Sound
           /\ VerifyEmailFind(s) => Sound
           /\ OAuthUser(s) => Sound
           /\ OAuthPrimary(s) => Sound
           /\ OAuthPrimaryUser(s) => Sound
           /\ UpdateBioFind(s) => Sound
  <1> HIDE DEF ++
  <1>1. Informed(req[s])
    BY DEF Honesty
  <1>2. req[s].x \in 0..MaxUsers /\ req[s].x < nextId
    BY <1>1 DEF Informed
  <1>3. PICK d : d = Load(req[s].x)
    OBVIOUS
  <1>4. /\ Typed(d)
        /\ ~Live(req[s].x) => d = NoRow
        /\ Live(req[s].x) => d.id = req[s].x
    BY <1>2, <1>3, LoadedTyped
  <1>5. Rooted(req[s].x, req[s].e) => Rooted(d.id, req[s].e)
    BY <1>4 DEF Rooted, Live, NoRow
  <1>6. ASSUME RegisterHolder(s) PROVE Sound
    BY <1>6, Onward, ExistsSound DEF RegisterHolder
  <1>7. ASSUME RegisterLookup(s) PROVE Sound
    BY <1>7, LookupSound DEF RegisterLookup
  <1>8. ASSUME OAuthPrimary(s) PROVE Sound
    BY <1>8, LookupSound DEF OAuthPrimary
  <1>9. ASSUME RegisterTaken(s) PROVE Sound
    <2>1. req[s].pc = "taken" /\ Reads
      BY <1>9 DEF RegisterTaken
    <2>2. req[s].e \in Emails /\ Rooted(d.id, req[s].e)
      BY <1>1, <1>5, <2>1 DEF Informed
    <2>3. Answer(s) \/ Goto(s, [pc |-> "create", doc |-> d])
      BY <1>3, <1>9 DEF RegisterTaken
    <2> QED BY <1>4, <2>1, <2>2, <2>3, Onward, LoadSound
  <1>10. ASSUME ResendVerificationFind(s) PROVE Sound
    <2>1. req[s].pc = "reverify" /\ Reads
      BY <1>10 DEF ResendVerificationFind
    <2>2. req[s].e \in Emails /\ Rooted(d.id, req[s].e)
      BY <1>1, <1>5, <2>1 DEF Informed
    <2>3. Answer(s) \/ Goto(s, [pc |-> "reverifysave", doc |-> d])
      BY <1>3, <1>10 DEF ResendVerificationFind
    <2> QED BY <1>4, <2>1, <2>2, <2>3, Onward, LoadSound
  <1>11. ASSUME VerifyEmailFind(s) PROVE Sound
    <2>1. req[s].pc = "findverify" /\ Reads
      BY <1>11 DEF VerifyEmailFind
    <2>2. PICK l \in opened : l.kind = "verify" /\ l.secret = req[s].link /\ l.secret # 0
      BY <1>1, <2>1 DEF Informed
    <2>3. ASSUME NEW u \in Users, Live(u), users[u].emailVerificationToken = req[s].link,
                 Goto(s, [pc |-> "saveverify", doc |-> users[u]])
          PROVE  Sound
      <3>1. VerifyTold(l.secret, l.to)
        BY <2>2 DEF Honesty, HonestLinks
      <3>2. Typed(users[u]) /\ users[u].id = u
        BY <2>3 DEF Honesty, HonestRows
      <3>3. Sure(u)
        BY <2>2, <2>3, <3>1 DEF VerifyTold, Rooted, Sure, Proved
      <3> QED BY <2>1, <2>3, <3>2, <3>3, LoadSound
    <2> QED BY <1>11, <2>1, <2>3, Onward DEF VerifyEmailFind
  <1>12. ASSUME OAuthUser(s) PROVE Sound
    <2>1. req[s].pc = "oauthuser" /\ Reads
      BY <1>12 DEF OAuthUser
    <2>2. req[s].e \in Emails /\ req[s].id \in OAuthIds /\ Rooted(d.id, req[s].e)
      BY <1>1, <1>5, <2>1 DEF Informed
    <2>3. \E pc \in {"oauthcreate", "strategy", "oauthprimary", "takeover"} :
              Goto(s, [doc |-> d, pc |-> pc])
      BY <1>3, <1>12 DEF OAuthUser, TakeOverOrSignIn
    <2> QED BY <1>4, <2>1, <2>2, <2>3, LoadSound
  <1>13. ASSUME OAuthPrimaryUser(s) PROVE Sound
    <2>1. req[s].pc = "oauthprimaryuser" /\ Reads
      BY <1>13 DEF OAuthPrimaryUser
    <2>2. /\ req[s].e \in Emails /\ req[s].id \in OAuthIds /\ Rooted(d.id, req[s].e)
          /\ Typed(req[s].doc) /\ Rooted(req[s].doc.id, req[s].e)
      BY <1>1, <1>5, <2>1 DEF Informed
    <2>3. PICK c : c = IF Live(req[s].x) THEN d ELSE req[s].doc
      OBVIOUS
    <2>4. \E pc \in {"oauthcreate", "strategy", "takeover"} : Goto(s, [doc |-> c, pc |-> pc])
      BY <1>3, <1>13, <2>3 DEF OAuthPrimaryUser, TakeOverOrSignIn
    <2> QED BY <1>4, <2>1, <2>2, <2>3, <2>4, LoadSound
  <1>14. ASSUME UpdateBioFind(s) PROVE Sound
    <2>1. req[s].pc = "findbio" /\ Reads
      BY <1>14 DEF UpdateBioFind
    <2>2. ASSUME NEW u \in Users, Live(u), Goto(s, [pc |-> "savebio", doc |-> Load(u)]) PROVE Sound
      <3>1. u \in 0..MaxUsers /\ u < nextId
        BY <2>2 DEF Honesty, HonestRows, Typed
      <3>2. Typed(Load(u))
        BY <3>1, LoadedTyped
      <3> QED BY <2>1, <2>2, <3>2, LoadSound
    <2> QED BY <1>14, <2>1, <2>2, Onward DEF UpdateBioFind
  <1> QED BY <1>6, <1>7, <1>8, <1>9, <1>10, <1>11, <1>12, <1>13, <1>14

\* The steps of a migration and of a login that only read.
LEMMA MigrationReadsSound ==
    ASSUME Honesty, NEW s \in Slots
    PROVE  /\ InitiateLookup(s) => Sound
           /\ InitiateExists(s) => Sound
           /\ InitiateReload(s) => Sound
           /\ VerifyNewLookup(s) => Sound
           /\ VerifyNewExists(s) => Sound
           /\ VerifyFinalise(s) => Sound
           /\ FinaliseLookup(s) => Sound
           /\ FinaliseExists(s) => Sound
           /\ FinaliseCheckBio(s) => Sound
           /\ RecoverLookup(s) => Sound
           /\ RecoverFind(s) => Sound
           /\ LoginUser(s) => Sound
  <1> HIDE DEF ++
  <1>1. Informed(req[s])
    BY DEF Honesty
  <1>2. /\ req[s].x \in 0..MaxUsers /\ req[s].x < nextId
        /\ req[s].doc.id \in 0..MaxUsers /\ req[s].doc.id < nextId
    BY <1>1 DEF Informed, Typed
  <1>3. PICK u : u = req[s].doc.id
    OBVIOUS
  <1>4. PICK d : d = Load(u)
    OBVIOUS
  <1>5. /\ Typed(d)
        /\ ~Live(u) => d = NoRow
        /\ Live(u) => /\ u \in Users /\ d.id = u /\ Honest(users[u])
                      /\ \A f \in DOMAIN NoRow \ {"password"} : d[f] = users[u][f]
    BY <1>2, <1>3, <1>4, LoadedTyped
  <1>6. BothVerified(d) => Used("new", d.id, d.newEmailPending)
    <2>1. BothVerified(d) => Live(u)
      BY <1>5 DEF BothVerified, NoRow
    <2>2. Live(u) => /\ d.newEmailVerified = users[u].newEmailVerified /\ d.newEmailPending = users[u].newEmailPending
                     /\ users[u].id = u
      BY <1>5 DEF NoRow, Honesty, HonestRows
    <2> QED BY <1>5, <2>1, <2>2 DEF BothVerified, Honest
  <1>7. ASSUME InitiateLookup(s) \/ VerifyNewLookup(s) \/ FinaliseLookup(s) \/ RecoverLookup(s) PROVE Sound
    BY <1>7, LookupSound DEF InitiateLookup, VerifyNewLookup, FinaliseLookup, RecoverLookup
  <1>8. ASSUME InitiateExists(s) \/ RecoverFind(s) PROVE Sound
    BY <1>8, Onward, ExistsSound DEF InitiateExists, RecoverFind
  <1>9. ASSUME VerifyNewExists(s) PROVE Sound
    <2>1. At(s, "newexists") /\ Reads /\ \E to \in {"saveverified", "placeholder"} : Goto(s, [pc |-> to])
      BY <1>9 DEF VerifyNewExists
    <2> QED BY <2>1, ExistsSound
  <1>10. ASSUME FinaliseExists(s) PROVE Sound
    <2>1. At(s, "finexists") /\ Reads /\ \E to \in {"finreload", "finrelease", "finupdate"} : Goto(s, [pc |-> to])
      BY <1>10 DEF FinaliseExists
    <2> QED BY <2>1, ExistsSound
  <1>11. ASSUME InitiateReload(s) PROVE Sound
    <2>1. req[s].pc = "initreload" /\ Reads
      BY <1>11 DEF InitiateReload
    <2>2. req[s].e \in Emails /\ Sure(u)
      BY <1>1, <1>3, <2>1 DEF Informed
    <2>3. Answer(s) \/ (Live(u) /\ Goto(s, [pc |-> "initsave", doc |-> d]))
      BY <1>3, <1>4, <1>11 DEF InitiateReload
    <2> QED BY <1>5, <2>1, <2>2, <2>3, Onward, LoadSound
  <1>12. ASSUME VerifyFinalise(s) PROVE Sound
    <2>1. req[s].pc = "bothverified" /\ Reads
      BY <1>12 DEF VerifyFinalise
    <2>2. Answer(s) \/ (BothVerified(d) /\ Goto(s, [pc |-> "finalise", doc |-> d]))
      BY <1>3, <1>4, <1>12 DEF VerifyFinalise
    <2> QED BY <1>5, <1>6, <2>1, <2>2, Onward, LoadSound
  <1>13. ASSUME FinaliseCheckBio(s) PROVE Sound
    <2>1. req[s].pc = "checkbio" /\ Reads
      BY <1>13 DEF FinaliseCheckBio
    <2>2. Answer(s) \/ Goto(s, [pc |-> "savebio2", doc |-> d])
      BY <1>3, <1>4, <1>13 DEF FinaliseCheckBio
    <2> QED BY <1>5, <2>1, <2>2, Onward, LoadSound
  <1>14. ASSUME LoginUser(s) PROVE Sound
    <2>1. req[s].pc = "loginuser" /\ Reads
      BY <1>14 DEF LoginUser
    <2>2. req[s].e \in Emails
      BY <1>1, <2>1 DEF Informed
    <2>3. PICK x, c : x = req[s].x /\ c = Load(x)
      OBVIOUS
    <2>4. /\ Typed(c)
          /\ ~Live(x) => c = NoRow
          /\ Live(x) => /\ c.id = x /\ Honest(users[x]) /\ users[x].id = x
                        /\ \A f \in DOMAIN NoRow \ {"password"} : c[f] = users[x][f]
      BY <1>2, <2>3, LoadedTyped DEF Honesty, HonestRows
    <2>5. BothVerified(c) => Used("new", c.id, c.newEmailPending)
      <3>1. BothVerified(c) => Live(x)
        BY <2>4 DEF BothVerified, NoRow
      <3>2. Live(x) => c.newEmailVerified = users[x].newEmailVerified /\ c.newEmailPending = users[x].newEmailPending
        BY <2>4 DEF NoRow
      <3> QED BY <2>4, <3>1, <3>2 DEF BothVerified, Honest
    <2>6. \/ Answer(s)
          \/ c.newEmailPending = req[s].e /\ BothVerified(c) /\ Goto(s, [pc |-> "loginsave", doc |-> c])
      BY <1>14, <2>3 DEF LoginUser
    <2> QED BY <2>1, <2>2, <2>4, <2>5, <2>6, Onward, LoadSound
  <1> QED BY <1>7, <1>8, <1>9, <1>10, <1>11, <1>12, <1>13, <1>14

\* resolveEmailIdentity, for a login or the OAuth strategy.
LEMMA ResolveSound ==
    ASSUME Honesty, NEW s \in Slots, Resolve(s) PROVE Sound
  <1>1. Informed(req[s]) /\ DOMAIN req[s] = DOMAIN Idle /\ req[s].pc = "resolve" /\ Reads
    BY Onward DEF Resolve
  <1>2. /\ req[s].e \in Emails /\ req[s].k \in 1..3 /\ req[s].cont \in {"oauthuser", "loginuser"}
        /\ req[s].cont = "oauthuser" => req[s].id \in OAuthIds
    BY <1>1 DEF Informed
  <1>3. ASSUME NEW x \in 0..MaxUsers, x < nextId, Rooted(x, req[s].e)
        PROVE  Informed([pc |-> req[s].cont, x |-> x] ++ req[s])
    <2>1. PICK q : q = [pc |-> req[s].cont, x |-> x] ++ req[s]
      OBVIOUS
    <2>2. /\ DOMAIN q = DOMAIN Idle /\ q.pc = req[s].cont /\ q.x = x
          /\ q.doc = req[s].doc /\ q.sd = req[s].sd /\ q.keep = req[s].keep /\ q.e = req[s].e
          /\ q.id = req[s].id
      BY <1>1, <2>1 DEF ++, Idle
    <2>3. Informed(q)
      BY <1>1, <1>2, <1>3, <2>2 DEF Informed
    <2> QED BY <2>1, <2>3
  <1>4. ASSUME req[s].k # 3 PROVE Informed([k |-> req[s].k + 1] ++ req[s])
    <2>1. PICK q : q = [k |-> req[s].k + 1] ++ req[s]
      OBVIOUS
    <2>2. /\ DOMAIN q = DOMAIN Idle /\ q.pc = "resolve" /\ q.k = req[s].k + 1 /\ q.x = req[s].x
          /\ q.doc = req[s].doc /\ q.sd = req[s].sd /\ q.keep = req[s].keep /\ q.e = req[s].e
          /\ q.id = req[s].id /\ q.cont = req[s].cont
      BY <1>1, <2>1 DEF ++, Idle
    <2>3. q.k \in 1..3
      BY <1>2, <1>4, <2>2
    <2>4. Informed(q)
      BY <1>1, <1>2, <2>2, <2>3 DEF Informed
    <2> QED BY <2>1, <2>4
  <1>5. 0 \in 0..MaxUsers /\ 0 < nextId /\ Rooted(0, req[s].e)
    BY StoreAssumption DEF Honesty, HonestRows, Rooted, Live
  <1>6. PICK x : x = idx[<<ResolveKinds[req[s].k], req[s].e>>].user
    OBVIOUS
  <1>7. x \in 0..MaxUsers /\ x < nextId /\ Rooted(x, req[s].e)
    <2>1. ResolveKinds[req[s].k] \in {"primary", "previous", "pending"}
      BY <1>2 DEF ResolveKinds
    <2> QED BY <1>2, <1>6, <2>1, Found
  <1>8. \/ Goto(s, [pc |-> req[s].cont, x |-> x]) \/ Goto(s, [pc |-> req[s].cont, x |-> 0])
        \/ req[s].k # 3 /\ Goto(s, [k |-> req[s].k + 1])
    BY <1>6 DEF Resolve
  <1> HIDE DEF ++
  <1> QED BY <1>1, <1>3, <1>4, <1>5, <1>7, <1>8, Onward

\* The OAuth strategy looks for the account with the identity.
LEMMA OAuthByIdSound ==
    ASSUME Honesty, NEW s \in Slots, OAuthById(s) PROVE Sound
  <1>1. Informed(req[s]) /\ DOMAIN req[s] = DOMAIN Idle /\ req[s].pc = "oauthid" /\ Reads
    BY Onward DEF OAuthById
  <1>2. /\ req[s].e \in Emails /\ req[s].id \in OAuthIds /\ req[s].x \in 0..MaxUsers /\ req[s].x < nextId
    BY <1>1 DEF Informed
  <1>3. PICK d : d = Load(req[s].x)
    OBVIOUS
  <1>4. Typed(d)
    BY <1>2, <1>3, LoadedTyped
  <1>5. PICK q : q = [pc |-> "resolve", k |-> 1, cont |-> "oauthuser"] ++ req[s]
    OBVIOUS
  <1>6. /\ DOMAIN q = DOMAIN Idle /\ q.pc = "resolve" /\ q.k = 1 /\ q.x = req[s].x /\ q.cont = "oauthuser"
        /\ q.doc = req[s].doc /\ q.sd = req[s].sd /\ q.keep = req[s].keep /\ q.e = req[s].e /\ q.id = req[s].id
    BY <1>1, <1>5 DEF ++, Idle
  <1>7. Informed(q)
    BY <1>1, <1>2, <1>6 DEF Informed
  <1> HIDE DEF ++
  <1>8. Goto(s, [pc |-> "strategy", doc |-> d]) \/ Goto(s, [pc |-> "resolve", k |-> 1, cont |-> "oauthuser"])
    BY <1>3 DEF OAuthById
  <1> QED BY <1>1, <1>4, <1>5, <1>7, <1>8, LoadSound, Onward

\* A link to a new address finds the account it was mailed for, and the migration to
\* that address.
LEMMA VerifyMigrationFindSound ==
    ASSUME Honesty, NEW s \in Slots, VerifyMigrationFind(s) PROVE Sound
  <1>1. Informed(req[s]) /\ DOMAIN req[s] = DOMAIN Idle /\ req[s].pc = "findmigration" /\ Reads
    BY Onward DEF VerifyMigrationFind
  <1>2. ASSUME NEW u \in Users, Live(u), users[u].migrationToken = req[s].link,
               req[s].op = "new" => users[u].newEmailPending # None,
               NEW pc, pc = (IF req[s].op = "new" THEN "newlookup" ELSE "saveverified"),
               Goto(s, [doc |-> Load(u), e |-> users[u].newEmailPending, pc |-> pc])
        PROVE  Sound
    <2>1. /\ u \in 0..MaxUsers /\ u < nextId /\ Honest(users[u])
      BY <1>2 DEF Honesty, HonestRows, Typed
    <2>2. PICK d : d = Load(u)
      OBVIOUS
    <2>3. Typed(d) /\ d.id = u /\ d.newEmailPending = users[u].newEmailPending
      BY <1>2, <2>1, <2>2, LoadedTyped DEF NoRow
    <2>4. req[s].op = "new" => d.newEmailPending \in Emails /\ Used("new", u, d.newEmailPending)
      <3>1. ASSUME req[s].op = "new" PROVE Used("new", u, d.newEmailPending)
        <4>1. PICK l \in opened : l.kind = "new" /\ l.secret = req[s].link /\ l.secret # 0
          BY <1>1, <3>1 DEF Informed
        <4>2. NewTold(l.secret, l.u, l.to)
          BY <4>1 DEF Honesty, HonestLinks
        <4> QED BY <1>2, <2>3, <3>1, <4>1, <4>2 DEF NewTold, Used
      <3> QED BY <1>2, <2>1, <2>3, <3>1 DEF Honest
    <2>5. PICK q : q = [doc |-> d, e |-> users[u].newEmailPending, pc |-> pc] ++ req[s]
      OBVIOUS
    <2>6. /\ DOMAIN q = DOMAIN Idle /\ q.pc = pc /\ q.doc = d /\ q.e = d.newEmailPending
          /\ q.x = req[s].x /\ q.sd = req[s].sd /\ q.keep = req[s].keep /\ q.op = req[s].op
      BY <1>1, <2>3, <2>5 DEF ++, Idle
    <2>7. Informed(q)
      BY <1>1, <1>2, <2>3, <2>4, <2>6 DEF Informed
    <2> HIDE DEF ++
    <2> QED BY <1>1, <1>2, <2>2, <2>5, <2>7, Onward
  <1> QED BY <1>1, <1>2, Onward DEF VerifyMigrationFind

\* The verification reads the history.
LEMMA VerifyHistoryReadSound ==
    ASSUME Honesty, NEW s \in Slots, VerifyHistoryRead(s) PROVE Sound
  <1>1. Informed(req[s]) /\ DOMAIN req[s] = DOMAIN Idle /\ req[s].pc = "readhistory" /\ Reads
    BY Onward DEF VerifyHistoryRead
  <1>2. PICK d : d = Load(req[s].doc.id)
    OBVIOUS
  <1>3. Typed(d)
    BY <1>1, <1>2, LoadedTyped DEF Informed, Typed
  <1>4. PICK q : q = [pc |-> "savehistory", keep |-> d] ++ req[s] \/ q = [pc |-> "bothverified"] ++ req[s]
    OBVIOUS
  <1>5. ASSUME NEW c, c = [pc |-> "savehistory", keep |-> d] ++ req[s] \/ c = [pc |-> "bothverified"] ++ req[s]
        PROVE  Informed(c)
    <2>1. /\ DOMAIN c = DOMAIN Idle /\ c.pc \in {"savehistory", "bothverified"} /\ c.keep \in {d, req[s].keep}
          /\ c.doc = req[s].doc /\ c.sd = req[s].sd /\ c.x = req[s].x
      BY <1>1, <1>5 DEF ++, Idle
    <2> QED BY <1>1, <1>3, <2>1 DEF Informed
  <1> HIDE DEF ++
  <1> QED BY <1>1, <1>2, <1>5, Onward DEF VerifyHistoryRead

\* The finalisation reloads the row: its migration is the one whose link was used.
LEMMA FinaliseReadSound ==
    ASSUME Honesty, Steady, NEW s \in Slots, FinaliseRead(s) PROVE Sound
  <1>1. Informed(req[s]) /\ DOMAIN req[s] = DOMAIN Idle /\ req[s].pc = "finalise" /\ Reads
    BY Onward DEF FinaliseRead
  <1>2. PICK u, d : u = req[s].doc.id /\ d = Load(u)
    OBVIOUS
  <1>3. /\ Typed(d) /\ u \in 0..MaxUsers
        /\ ~Live(u) => d = NoRow
        /\ Live(u) => d.id = u /\ d.newEmailPending = users[u].newEmailPending /\ Honest(users[u])
    <2>1. u \in 0..MaxUsers /\ u < nextId
      BY <1>1, <1>2 DEF Informed, Typed
    <2>2. /\ Typed(d) /\ (~Live(u) => d = NoRow)
          /\ Live(u) => d.id = u /\ Honest(users[u])
                        /\ \A f \in DOMAIN NoRow \ {"password"} : d[f] = users[u][f]
      BY <1>2, <2>1, LoadedTyped
    <2>3. Live(u) => d.newEmailPending = users[u].newEmailPending
      BY <2>2 DEF NoRow
    <2> QED BY <2>1, <2>2, <2>3
  <1>4. d.newEmailPending # None => d.newEmailPending \in Emails /\ Used("new", d.id, d.newEmailPending)
    <2>1. Used("new", u, req[s].doc.newEmailPending)
      BY <1>1, <1>2 DEF Informed
    <2>2. Live(u) => users[u].newEmailPending \in {None, req[s].doc.newEmailPending}
      BY <1>1, <1>2 DEF Steady
    <2> QED BY <1>3, <2>1, <2>2 DEF NoRow, Honest
  <1>5. ASSUME d.newEmailPending # None
        PROVE  Informed([pc |-> "finlookup", doc |-> d, keep |-> d, e |-> d.newEmailPending] ++ req[s])
    <2>1. PICK q : q = [pc |-> "finlookup", doc |-> d, keep |-> d, e |-> d.newEmailPending] ++ req[s]
      OBVIOUS
    <2>2. /\ DOMAIN q = DOMAIN Idle /\ q.pc = "finlookup" /\ q.doc = d /\ q.keep = d /\ q.e = d.newEmailPending
          /\ q.sd = req[s].sd /\ q.x = req[s].x
      BY <1>1, <2>1 DEF ++, Idle
    <2>3. Informed(q)
      BY <1>1, <1>3, <1>4, <1>5, <2>2 DEF Informed
    <2> QED BY <2>1, <2>3
  <1> HIDE DEF ++
  <1> QED BY <1>1, <1>2, <1>5, Onward DEF FinaliseRead

\* Where nobody has the new address, it reloads the row again.
LEMMA FinaliseReloadSound ==
    ASSUME Honesty, NEW s \in Slots, FinaliseReload(s) PROVE Sound
  <1>1. Informed(req[s]) /\ DOMAIN req[s] = DOMAIN Idle /\ req[s].pc = "finreload" /\ Reads
    BY Onward DEF FinaliseReload
  <1>2. PICK u, d : u = req[s].doc.id /\ d = Load(u)
    OBVIOUS
  <1>3. d.id # 0 => d.id = u
    <2>1. u \in 0..MaxUsers /\ u < nextId
      BY <1>1, <1>2 DEF Informed, Typed
    <2>2. Live(u) => d.id = u
      BY <1>2, <2>1, LoadedTyped
    <2>3. ~Live(u) => d.id = 0
      BY <1>2, <2>1, LoadedTyped DEF NoRow
    <2> QED BY <2>2, <2>3
  <1>4. PICK q : q = [pc |-> "finsave", doc |-> d, keep |-> d] ++ req[s]
    OBVIOUS
  <1>5. /\ DOMAIN q = DOMAIN Idle /\ q.pc = "finsave" /\ q.doc = d /\ q.keep = d /\ q.e = req[s].e
        /\ q.sd = req[s].sd /\ q.x = req[s].x
    BY <1>1, <1>4 DEF ++, Idle
  <1>6. Typed(d)
    BY <1>1, <1>2, LoadedTyped DEF Informed, Typed
  <1>7. d.id # 0 => Informed(q)
    BY <1>1, <1>2, <1>3, <1>5, <1>6 DEF Informed
  <1> HIDE DEF ++
  <1> QED BY <1>1, <1>2, <1>4, <1>7, Onward DEF FinaliseReload

\* register's mail goes to the address that it asked for, the mails of a migration
\* to the row's address and to the pending one.
LEMMA MailSound ==
    ASSUME Honesty, NEW s \in Slots, ~AutoVerifyEmail, RegisterMail(s) \/ MigrationMail(s)
    PROVE  Sound
  <1>1. Informed(req[s]) /\ DOMAIN req[s] = DOMAIN Idle
    BY DEF Honesty, Informed
  <1>2. UNCHANGED <<store, gen, opened>> /\ Answer(s)
    BY DEF RegisterMail, MigrationMail
  <1>3. ASSUME NEW l \in links', l \notin links
        PROVE  /\ l.secret \in Secrets
               /\ l.kind = "verify" => VerifyTold(l.secret, l.to)
               /\ l.kind = "new" => NewTold(l.secret, l.u, l.to)
    <2>1. CASE RegisterMail(s)
      <3>1. l = [kind |-> "verify", secret |-> req[s].sd.emailVerificationToken,
                 u |-> req[s].sd.id, to |-> req[s].e]
        BY <1>3, <2>1 DEF RegisterMail, Mail
      <3>2. req[s].pc = "mailverify"
        BY <2>1 DEF RegisterMail
      <3>3. /\ req[s].sd.emailVerificationToken \in Secrets
            /\ VerifyTold(req[s].sd.emailVerificationToken, req[s].e)
        BY <1>1, <3>2 DEF Informed
      <3> QED BY <3>1, <3>3
    <2>2. CASE MigrationMail(s)
      <3>1. \E kind \in {"current", "new"} :
                l = [kind |-> kind, secret |-> req[s].sd.migrationToken, u |-> req[s].sd.id,
                     to |-> IF kind = "new" THEN req[s].sd.newEmailPending ELSE req[s].sd.email]
        BY <1>3, <2>2 DEF MigrationMail, Mail
      <3>2. req[s].pc = "mailmigrate"
        BY <2>2 DEF MigrationMail
      <3>3. /\ req[s].sd.migrationToken \in Secrets
            /\ NewTold(req[s].sd.migrationToken, req[s].sd.id, req[s].sd.newEmailPending)
        BY <1>1, <3>2 DEF Informed
      <3> QED BY <3>1, <3>3
    <2> QED BY <2>1, <2>2
  <1>4. 0 \notin Secrets
    BY StoreAssumption DEF Secrets
  <1>5. Grows /\ nextId' \in 1..(MaxUsers + 1) /\ gen' \in 0..MaxTokens
    BY <1>2, StoreAssumption DEF Grows, store, Honesty, HonestRows, Live
  <1>6. /\ HonestIndex'
        /\ \A r : Honest(r) => Honest(r)'
    BY <1>2, <1>5, StillHonest DEF store
  <1>7. HonestRows'
    BY <1>2 DEF store, Honesty, HonestRows, Live, Typed, Honest, Proved, Used, Secrets
  <1>8. HonestLinks'
    <2>1. Secrets' = Secrets /\ users' = users /\ opened' = opened
      BY <1>2 DEF Secrets, store
    <2>2. \A l \in links' \cup opened' : l \in links \cup opened \/ (l \in links' /\ l \notin links)
      BY <2>1
    <2>3. \A l \in links' : l.secret # 0
      BY <1>3, <1>4 DEF Honesty, HonestLinks
    <2>4. \A l \in links' \cup opened' : l.secret \in {0} \cup Secrets
      BY <1>3, <2>2 DEF Honesty, HonestLinks
    <2>5. \A l \in links' \cup opened' : l.secret # 0 =>
              /\ l.kind = "verify" => VerifyTold(l.secret, l.to)
              /\ l.kind = "new" => NewTold(l.secret, l.u, l.to)
      BY <1>3, <2>2 DEF Honesty, HonestLinks
    <2>6. /\ \A secret, e : VerifyTold(secret, e)' <=> VerifyTold(secret, e)
          /\ \A secret, u, e : NewTold(secret, u, e)' <=> NewTold(secret, u, e)
      BY <2>1 DEF VerifyTold, NewTold, Rooted, Proved, Live
    <2> QED BY <2>1, <2>3, <2>4, <2>5, <2>6 DEF HonestLinks
  <1>9. Informed(Idle)'
    BY <1>5, IdleInformed, StillInformed DEF Honesty
  <1> QED BY <1>2, <1>5, <1>6, <1>7, <1>8, <1>9, Moving DEF Answer, Sound

\* A request that has just begun.
LEMMA BeginInformed ==
    ASSUME Honesty, NEW op, NEW w, DOMAIN w \subseteq DOMAIN Idle \ {"sd", "keep", "op"},
           NEW q, q = w ++ [Idle EXCEPT !.op = op]
    PROVE  /\ DOMAIN q = DOMAIN Idle /\ q.op = op /\ Typed(q.sd) /\ Typed(q.keep)
           /\ q.pc = IF "pc" \in DOMAIN w THEN w.pc ELSE "idle"
           /\ q.e = IF "e" \in DOMAIN w THEN w.e ELSE None
           /\ q.k = IF "k" \in DOMAIN w THEN w.k ELSE 1
           /\ q.cont = IF "cont" \in DOMAIN w THEN w.cont ELSE "idle"
           /\ q.id = IF "id" \in DOMAIN w THEN w.id ELSE Local
           /\ q.link = IF "link" \in DOMAIN w THEN w.link ELSE 0
           /\ IF "x" \in DOMAIN w THEN q.x = w.x ELSE q.x \in 0..MaxUsers /\ q.x < nextId
           /\ IF "doc" \in DOMAIN w THEN q.doc = w.doc ELSE Typed(q.doc)
  <1>1. DOMAIN Idle \cup DOMAIN w = DOMAIN Idle /\ "op" \notin DOMAIN w /\ "sd" \notin DOMAIN w /\ "keep" \notin DOMAIN w
    OBVIOUS
  <1>2. DOMAIN q = DOMAIN Idle /\ q.op = op
    BY <1>1 DEF ++, Idle
  <1>3. \A f \in DOMAIN Idle \ {"op"} : q[f] = IF f \in DOMAIN w THEN w[f] ELSE Idle[f]
    BY DEF ++, Idle
  <1>4. Informed(Idle)
    BY IdleInformed
  <1>5. Typed(Idle.doc) /\ Idle.x \in 0..MaxUsers /\ Idle.x < nextId /\ Typed(Idle.sd) /\ Typed(Idle.keep)
    BY <1>4 DEF Informed
  <1> QED BY <1>1, <1>2, <1>3, <1>5 DEF Idle

\* The requests that begin with a look at the index or at a row.
LEMMA StartsSound ==
    ASSUME Honesty, NEW s \in Slots
    PROVE  /\ \A e \in Emails : /\ Register(s, e) => Sound
                                /\ ResendVerification(s, e) => Sound
                                /\ Login(s, e) => Sound
           /\ \A id \in OAuthIds : OAuth(s, id) => Sound
           /\ \A u \in Users : /\ UpdateBio(s, u) => Sound
                               /\ ResendMigration(s, u) => Sound
                               /\ FinalizeMigration(s, u) => Sound
                               /\ CleanupExpired(s, u) => Sound
           /\ \A u \in Users, e \in Emails : InitiateMigration(s, u, e) => Sound
  <1>1. ASSUME NEW op, NEW w, DOMAIN w \subseteq DOMAIN Idle \ {"sd", "keep", "op"}, Reads,
               Begin(s, op, w), NEW q, q = w ++ [Idle EXCEPT !.op = op], Informed(q)
        PROVE  Sound
    <2> HIDE DEF ++
    <2> QED BY <1>1, Onward
  <1>2. ASSUME NEW id \in OAuthIds
        PROVE  id[2] \in Emails /\ \A x : x = findUserIdByOAuth(id) => x \in 0..MaxUsers /\ x < nextId
    <2>1. id \in Keys /\ id[2] \in Emails
      BY DEF Keys, OAuthIds
    <2> QED BY <2>1 DEF findUserIdByOAuth, Honesty, HonestIndex
  <1>5. ASSUME NEW u \in Users, Live(u), NEW d, d = Load(u)
        PROVE  /\ Typed(d) /\ d.id = u /\ Honest(users[u])
               /\ d.newEmailPending = users[u].newEmailPending
               /\ d.newEmailVerified = users[u].newEmailVerified
    <2>1. u \in 0..MaxUsers /\ u < nextId
      BY <1>5 DEF Honesty, HonestRows, Typed
    <2>2. /\ Typed(d) /\ d.id = u /\ Honest(users[u])
          /\ \A f \in DOMAIN NoRow \ {"password"} : d[f] = users[u][f]
      BY <1>5, <2>1, LoadedTyped
    <2> QED BY <2>2 DEF NoRow
  <1>6. ASSUME NEW e \in Emails, Register(s, e) PROVE Sound
    <2>1. PICK w, q : w = [pc |-> "holder", e |-> e] /\ q = w ++ [Idle EXCEPT !.op = "register"]
      OBVIOUS
    <2>2. DOMAIN w \subseteq DOMAIN Idle \ {"sd", "keep", "op"}
      BY <2>1 DEF Idle
    <2>3. /\ DOMAIN q = DOMAIN Idle /\ q.pc = "holder" /\ q.e = e /\ q.x \in 0..MaxUsers /\ q.x < nextId
          /\ Typed(q.sd) /\ Typed(q.keep) /\ Typed(q.doc)
      BY <2>1, <2>2, BeginInformed
    <2>4. Informed(q)
      BY <2>3 DEF Informed
    <2> QED BY <1>1, <1>6, <2>4, <2>1, <2>2, <2>3 DEF Register
  <1>7. ASSUME NEW e \in Emails, ResendVerification(s, e) PROVE Sound
    <2>1. PICK x : x = findUserIdByPrimaryEmail(e)
      OBVIOUS
    <2>2. PICK w, q : w = [pc |-> "reverify", e |-> e, x |-> x] /\ q = w ++ [Idle EXCEPT !.op = "reverify"]
      OBVIOUS
    <2>3. DOMAIN w \subseteq DOMAIN Idle \ {"sd", "keep", "op"}
      BY <2>2 DEF Idle
    <2>4. /\ DOMAIN q = DOMAIN Idle /\ q.pc = "reverify" /\ q.e = e /\ q.x = x
          /\ Typed(q.sd) /\ Typed(q.keep) /\ Typed(q.doc)
      BY <2>2, <2>3, BeginInformed
    <2>5. Informed(q)
      BY <2>1, <2>4, Found DEF Informed
    <2> QED BY <1>1, <1>7, <2>5, <2>1, <2>2, <2>3, <2>4 DEF ResendVerification
  <1>8. ASSUME NEW id \in OAuthIds, OAuth(s, id) PROVE Sound
    <2>1. PICK x : x = findUserIdByOAuth(id)
      OBVIOUS
    <2>2. PICK w, q : /\ w = [pc |-> "oauthid", id |-> id, e |-> id[2], x |-> x]
                      /\ q = w ++ [Idle EXCEPT !.op = "oauth"]
      OBVIOUS
    <2>3. DOMAIN w \subseteq DOMAIN Idle \ {"sd", "keep", "op"}
      BY <2>2 DEF Idle
    <2>5. /\ DOMAIN q = DOMAIN Idle /\ q.pc = "oauthid" /\ q.e = id[2] /\ q.x = x /\ q.id = id
          /\ Typed(q.sd) /\ Typed(q.keep) /\ Typed(q.doc)
      BY <2>2, <2>3, BeginInformed
    <2>4. Informed(q)
      BY <1>2, <2>1, <2>5 DEF Informed
    <2> QED BY <1>1, <1>8, <2>1, <2>2, <2>3, <2>4 DEF OAuth
  <1>9. ASSUME NEW u \in Users, Live(u), NEW d, d = Load(u), NEW op, NEW pc, Reads, Begin(s, op, [pc |-> pc, doc |-> d]),
               \/ pc \in {"findbio", "resendsave", "cleanup"}
               \/ pc = "finalise" /\ Used("new", u, d.newEmailPending)
        PROVE  Sound
    <2>1. PICK w, q : w = [pc |-> pc, doc |-> d] /\ q = w ++ [Idle EXCEPT !.op = op]
      OBVIOUS
    <2>2. DOMAIN w \subseteq DOMAIN Idle \ {"sd", "keep", "op"}
      BY <2>1 DEF Idle
    <2>4. /\ DOMAIN q = DOMAIN Idle /\ q.pc = pc /\ q.doc = d /\ q.x \in 0..MaxUsers /\ q.x < nextId
          /\ Typed(q.sd) /\ Typed(q.keep)
      BY <2>1, <2>2, BeginInformed
    <2>3. Informed(q)
      BY <1>5, <1>9, <2>4 DEF Informed
    <2> QED BY <1>1, <1>9, <2>1, <2>2, <2>3
  <1>10. ASSUME NEW u \in Users, UpdateBio(s, u) PROVE Sound
    BY <1>9, <1>10 DEF UpdateBio
  <1>11. ASSUME NEW u \in Users, ResendMigration(s, u) PROVE Sound
    BY <1>9, <1>11 DEF ResendMigration, Authentic
  <1>12. ASSUME NEW u \in Users, CleanupExpired(s, u) PROVE Sound
    BY <1>9, <1>12 DEF CleanupExpired
  <1>13. ASSUME NEW u \in Users, FinalizeMigration(s, u) PROVE Sound
    <2> DEFINE d == Load(u)
    <2> HIDE DEF d
    <2>1. Live(u) /\ BothVerified(users[u]) /\ Reads
          /\ Begin(s, "finalise", [pc |-> "finalise", doc |-> d])
      BY <1>13 DEF FinalizeMigration, Authentic, d
    <2>2. Used("new", u, d.newEmailPending)
      BY <1>5, <2>1 DEF BothVerified, Honest, Honesty, HonestRows, d
    <2> QED BY <1>9, <2>1, <2>2 DEF d
  <1>14. ASSUME NEW u \in Users, NEW e \in Emails, InitiateMigration(s, u, e) PROVE Sound
    <2> DEFINE d == Load(u)
    <2> HIDE DEF d
    <2>1. PICK yes \in BOOLEAN :
              Begin(s, "initiate", [pc |-> "initlookup", doc |-> d, e |-> e, confirm |-> yes])
      BY <1>14 DEF InitiateMigration, d
    <2>2. PICK w, q : /\ w = [pc |-> "initlookup", doc |-> d, e |-> e, confirm |-> yes]
                      /\ q = w ++ [Idle EXCEPT !.op = "initiate"]
      OBVIOUS
    <2>3. DOMAIN w \subseteq DOMAIN Idle \ {"sd", "keep", "op"}
      BY <2>2 DEF Idle
    <2>4. Live(u) /\ users[u].isEmailVerified /\ Reads
      BY <1>14 DEF InitiateMigration, Authentic
    <2>5. Sure(u)
      BY <1>5, <2>4 DEF Sure, Honest, d
    <2>7. /\ DOMAIN q = DOMAIN Idle /\ q.pc = "initlookup" /\ q.doc = d /\ q.e = e
          /\ q.x \in 0..MaxUsers /\ q.x < nextId /\ Typed(q.sd) /\ Typed(q.keep)
      BY <2>2, <2>3, BeginInformed
    <2>6. Informed(q)
      BY <1>5, <2>4, <2>5, <2>7 DEF Informed, d
    <2> QED BY <1>1, <2>1, <2>2, <2>3, <2>4, <2>6
  <1>15. ASSUME NEW e \in Emails, Login(s, e) PROVE Sound
    <2>1. PICK w, q : /\ w = [pc |-> "resolve", k |-> 1, cont |-> "loginuser", e |-> e]
                      /\ q = w ++ [Idle EXCEPT !.op = "login"]
      OBVIOUS
    <2>2. DOMAIN w \subseteq DOMAIN Idle \ {"sd", "keep", "op"}
      BY <2>1 DEF Idle
    <2>4. /\ DOMAIN q = DOMAIN Idle /\ q.pc = "resolve" /\ q.e = e /\ q.k = 1 /\ q.cont = "loginuser"
          /\ q.x \in 0..MaxUsers /\ q.x < nextId
          /\ Typed(q.sd) /\ Typed(q.keep) /\ Typed(q.doc)
      BY <2>1, <2>2, BeginInformed
    <2>3. Informed(q)
      BY <2>4 DEF Informed
    <2> QED BY <1>1, <1>15, <2>1, <2>2, <2>3 DEF Login
  <1> QED BY <1>6, <1>7, <1>8, <1>10, <1>11, <1>12, <1>13, <1>14, <1>15

\* A link is used: it told the truth when it was mailed.
LEMMA ConsumeSound ==
    ASSUME Honesty, NEW s \in Slots, NEW l \in links, VerifyEmail(s, l) \/ VerifyMigration(s, l)
    PROVE  Sound
  <1>1. /\ UNCHANGED <<users, nextId, idx, gen>>
        /\ links' = links \ {l} /\ opened' = opened \cup {l}
    BY DEF VerifyEmail, VerifyMigration, Consume, store
  <1>2. Grows /\ nextId' \in 1..(MaxUsers + 1) /\ gen' \in 0..MaxTokens
    BY <1>1, StoreAssumption, SMTT(30) DEF Grows, Honesty, HonestRows, Live
  <1>3. /\ HonestIndex'
        /\ \A r : Honest(r) => Honest(r)'
    BY <1>1, <1>2, StillHonest
  <1>4. HonestRows'
    <2>1. \A u \in Users : Typed(users[u])' /\ users'[u] = users[u] /\ (Live(u)' <=> Live(u))
      BY <1>1 DEF Honesty, HonestRows, Typed, Live
    <2>2. ASSUME NEW u \in Users, Live(u) PROVE users'[u].id = u /\ Honest(users[u])'
      <3>1. PICK r : r = users[u]
        OBVIOUS
      <3>2. Honest(r)' /\ r.id = u
        BY <1>3, <2>2, <3>1 DEF Honesty, HonestRows
      <3> QED BY <2>1, <3>1, <3>2
    <2> QED BY <1>1, <1>2, <2>1, <2>2 DEF Honesty, HonestRows
  <1>5. HonestLinks'
    <2>1. links' \cup opened' = links \cup opened /\ links' \subseteq links
      BY <1>1
    <2>2. Secrets' = Secrets
      BY <1>1 DEF Secrets
    <2>3. ASSUME NEW k \in links \cup opened, k.secret # 0
          PROVE  /\ k.kind = "verify" => VerifyTold(k.secret, k.to)'
                 /\ k.kind = "new" => NewTold(k.secret, k.u, k.to)'
      <3>1. /\ k.kind = "verify" => VerifyTold(k.secret, k.to)
            /\ k.kind = "new" => NewTold(k.secret, k.u, k.to)
            /\ k.secret \in Secrets
        BY <2>3 DEF Honesty, HonestLinks
      <3> QED BY <1>2, <3>1, Lasting DEF Honesty
    <2> QED BY <2>1, <2>2, <2>3 DEF Honesty, HonestLinks
  <1>6. PICK op, w, q :
            /\ Begin(s, op, w) /\ DOMAIN w = {"pc", "link"} /\ w.link = l.secret
            /\ \/ w.pc = "findverify" /\ l.kind = "verify"
               \/ w.pc = "findmigration" /\ op = l.kind
            /\ q = w ++ [Idle EXCEPT !.op = op]
    BY DEF VerifyEmail, VerifyMigration
  <1>7. /\ DOMAIN q = DOMAIN Idle /\ q.op = op /\ q.pc = w.pc /\ q.link = l.secret
        /\ Typed(q.sd) /\ Typed(q.keep) /\ Typed(q.doc) /\ q.x \in 0..MaxUsers /\ q.x < nextId
    <2>1. DOMAIN w \subseteq DOMAIN Idle \ {"sd", "keep", "op"}
      BY <1>6 DEF Idle
    <2> QED BY <1>6, <2>1, BeginInformed, SMTT(30)
  <1>8. /\ Typed(q.sd)' /\ Typed(q.keep)' /\ Typed(q.doc)' /\ q.x < nextId'
        /\ l \in opened' /\ l.secret # 0
    BY <1>1, <1>7 DEF Typed, Honesty, HonestLinks
  <1>9. Informed(q)'
    BY <1>6, <1>7, <1>8 DEF Informed
  <1> HIDE DEF ++
  <1>10. req' = [req EXCEPT ![s] = q]
    BY <1>6 DEF Begin
  <1> QED BY <1>2, <1>3, <1>4, <1>5, <1>9, <1>10, Moving DEF Sound

\* A statement fails.
LEMMA StatementFailsSound ==
    ASSUME Honesty, NEW s \in Slots, StatementFails(s) PROVE Sound
  <1>1. UNCHANGED <<store, post>> /\ Answer(s)
    BY DEF StatementFails
  <1> QED BY <1>1, IdleInformed, ReadingOn DEF Answer

------------------------------------------------------------------------------
(* The writes of requests that overlap *)

\* what a handler may write over the row p, as far as its links and addresses go
Lawful(p, r) ==
    /\ r.email # None /\ (r.email = p.email \/ Used("new", p.id, r.email))
    /\ r.isEmailVerified \/ r.previousEmail # None \/ r.newEmailPending # None =>
           \/ Proved(r.email)'
           \/ /\ r.email = p.email
              /\ p.isEmailVerified \/ p.previousEmail # None \/ p.newEmailPending # None
    /\ r.newEmailVerified /\ r.newEmailPending # None =>
           \/ Used("new", p.id, r.newEmailPending)
           \/ p.newEmailVerified /\ r.newEmailPending = p.newEmailPending
    /\ r.newEmailPending \in Emails \cup {None}
    /\ \/ r.emailVerificationToken \in {0, p.emailVerificationToken}
       \/ r.emailVerificationToken = gen' /\ gen' = gen + 1
    /\ \/ r.migrationToken = 0
       \/ r.migrationToken = p.migrationToken /\ r.newEmailPending \in {None, p.newEmailPending}
       \/ r.migrationToken = gen' /\ gen' = gen + 1

\* A secret that has just been generated was nobody's.
LEMMA FreshSecret ==
    ASSUME Honesty, Sends
    PROVE  /\ 0 \notin Secrets
           /\ gen' = gen + 1 => gen' \notin Secrets /\ gen' \in Secrets' /\ gen' # 0
           /\ \A u \in Users : {users[u].emailVerificationToken, users[u].migrationToken}
                                   \subseteq {0} \cup Secrets
  <1>1. gen \in 0..MaxTokens /\ gen' \in 0..MaxTokens /\ MaxTokens \in Nat
    BY StoreAssumption DEF Honesty, HonestRows, Sends
  <1>2. 0 \notin Secrets /\ (gen' = gen + 1 => gen' \notin Secrets /\ gen' \in Secrets' /\ gen' # 0)
    BY <1>1 DEF Secrets
  <1>3. NoRow.emailVerificationToken = 0 /\ NoRow.migrationToken = 0
    BY DEF NoRow
  <1>4. \A u \in Users : IF Live(u) THEN Honest(users[u]) ELSE users[u] = NoRow
    BY Zenon DEF Honesty, HonestRows
  <1> QED BY <1>2, <1>3, <1>4 DEF Honest

\* The document that a save writes, and returns.
LEMMA Rewritten ==
    ASSUME Honesty, Sends, NEW s \in Slots, NEW u, u = req[s].doc.id,
           NEW w, DOMAIN w \subseteq DOMAIN NoRow \ {"id"},
           "provider" \in DOMAIN w => w.provider \in OAuthIds \cup {Local},
           NEW d, d = w ++ (IF Live(u) THEN users[u] ELSE req[s].doc),
           Live(u) => Lawful(users[u], d),
           UNCHANGED store \/ (Live(u) /\ WriteRow(d))
    PROVE  /\ d.id = u /\ u \in 0..MaxUsers /\ Typed(d) /\ Typed(d)'
           /\ Grows /\ nextId' \in 1..(MaxUsers + 1) /\ gen' \in 0..MaxTokens
           /\ Stores(u, d) /\ (Live(u) => u \in Users /\ Honest(d)')
           /\ \A f \in DOMAIN NoRow :
                  d[f] = IF f \in DOMAIN w THEN w[f] ELSE IF Live(u) THEN users[u][f] ELSE req[s].doc[f]
  <1>1. Informed(req[s]) /\ u \in 0..MaxUsers /\ u < nextId /\ Typed(req[s].doc)
    BY ZenonT(30) DEF Honesty, Informed, Typed
  <1>2. Live(u) => u \in Users /\ Typed(users[u]) /\ users[u].id = u /\ Honest(users[u])
    BY <1>1 DEF Live, Users, Honesty, HonestRows
  <1>3. PICK p : p = (IF Live(u) THEN users[u] ELSE req[s].doc)
    OBVIOUS
  <1>4. Typed(p) /\ p.id = u
    BY <1>1, <1>2, <1>3
  <1>5. DOMAIN d = DOMAIN NoRow /\ \A f \in DOMAIN NoRow : d[f] = IF f \in DOMAIN w THEN w[f] ELSE p[f]
    <2>1. DOMAIN p = DOMAIN NoRow
      BY <1>4 DEF Typed
    <2> QED BY <1>3, <2>1, Zenon DEF ++
  <1>6. d.id = u /\ (d.provider = p.provider \/ d.provider \in OAuthIds \cup {Local})
    BY <1>4, <1>5, Zenon DEF NoRow
  <1> HIDE DEF ++
  <1>7. Typed(d)
    <2>1. d.id \in 0..MaxUsers /\ d.id < nextId
      BY <1>1, <1>6
    <2>2. d.provider \in OAuthIds \cup {Local}
      BY <1>4, <1>6, Zenon DEF Typed
    <2> QED BY <1>5, <2>1, <2>2, Zenon DEF Typed
  <1>8. Live(u) => Fair(users[u], d)
    BY <1>2, <1>5, <1>6, <1>7, FreshSecret, Zenon DEF Lawful, Fair, Typed
  <1>9. Stores(u, d)
    <2>1. CASE UNCHANGED store
      BY <2>1, Zenon DEF Stores
    <2>2. CASE Live(u) /\ WriteRow(d)
      BY <1>6, <1>8, <2>2, Zenon DEF Stores, WriteRow
    <2> QED BY <2>1, <2>2
  <1>10. Grows /\ nextId' \in 1..(MaxUsers + 1) /\ gen' \in 0..MaxTokens
    BY <1>1, <1>9, StoreGrows
  <1>11. /\ \A e : Proved(e) => Proved(e)'
         /\ \A kind, v, e : Used(kind, v, e) => Used(kind, v, e)'
         /\ Secrets \subseteq Secrets'
         /\ Typed(d)'
    BY <1>7, <1>10, Lasting, Zenon DEF Honesty
  <1>12. Live(u) => Honest(d)'
    <2> SUFFICES ASSUME Live(u) PROVE Honest(d)'
      OBVIOUS
    <2>1. Lawful(users[u], d) /\ Honest(users[u]) /\ users[u].id = u
      BY <1>2, Zenon
    <2>2. d.isEmailVerified \/ d.previousEmail # None \/ d.newEmailPending # None => Proved(d.email)'
      BY <1>11, <2>1, Zenon DEF Lawful, Honest
    <2>3. d.newEmailVerified /\ d.newEmailPending # None => Used("new", d.id, d.newEmailPending)'
      BY <1>6, <1>11, <2>1, Zenon DEF Lawful, Honest
    <2>4. {d.emailVerificationToken, d.migrationToken} \subseteq {0} \cup Secrets'
      BY <1>11, <2>1, FreshSecret, ZenonT(60) DEF Lawful, Honest
    <2> QED BY <2>1, <2>2, <2>3, <2>4, Zenon DEF Lawful, Honest
  <1> QED BY <1>1, <1>2, <1>3, <1>5, <1>6, <1>7, <1>9, <1>10, <1>11, <1>12, Zenon

\* A save that the index is going to follow.
LEMMA SyncSaveSound ==
    ASSUME Honesty, Sends, NEW s \in Slots, NEW u, u = req[s].doc.id,
           NEW w, DOMAIN w \subseteq DOMAIN NoRow \ {"id"},
           "provider" \in DOMAIN w => w.provider \in OAuthIds \cup {Local},
           NEW cont \in {"idle", "mailverify", "strategy", "mailmigrate", "checkbio"},
           NEW onDup \in {"idle", "duplicate"},
           SaveAndSync(s, w, cont, onDup),
           onDup = "duplicate" => req[s].e \in Emails,
           \A d : d = w ++ users[u] /\ Live(u) => Lawful(users[u], d),
           cont = "mailverify" =>
               /\ gen' = gen + 1 /\ "emailVerificationToken" \in DOMAIN w
               /\ w.emailVerificationToken = gen' /\ req[s].e \in Emails /\ Rooted(u, req[s].e),
           cont = "mailmigrate" =>
               gen' = gen + 1 /\ "migrationToken" \in DOMAIN w /\ w.migrationToken = gen'
    PROVE  Sound
  <1>1. PICK d : d = w ++ (IF Live(u) THEN users[u] ELSE req[s].doc)
    OBVIOUS
  <1>2. PICK q : q = ([doc |-> d] ++ SyncFrom(d, cont)) ++ req[s]
    OBVIOUS
  <1>3. Informed(req[s]) /\ DOMAIN req[s] = DOMAIN Idle /\ u \in 0..MaxUsers /\ u < nextId
    BY DEF Honesty, Informed, Typed
  <1>4. Live(u) => Lawful(users[u], d)
    BY <1>1
  <1>5. \/ UNCHANGED store /\ GoOn(s, onDup, <<>>)
        \/ UNCHANGED store /\ ~Live(u) /\ req' = [req EXCEPT ![s] = q]
        \/ Live(u) /\ WriteRow(d) /\ req' = [req EXCEPT ![s] = q]
    BY <1>1, <1>2 DEF SaveAndSync, Save, Updated, Goto
  <1>6. UNCHANGED store \/ (Live(u) /\ WriteRow(d))
    BY <1>5
  <1>7. /\ q.pc = "sync" /\ q.cont = cont /\ q.sd = d /\ q.doc = d /\ DOMAIN q = DOMAIN Idle /\ q.k = 1
        /\ q.keep = req[s].keep /\ q.e = req[s].e /\ q.x = req[s].x
    BY <1>2, <1>3 DEF SyncFrom, ++, Idle
  <1> HIDE DEF ++
  <1>8. /\ d.id = u /\ Typed(d)'
        /\ Grows /\ nextId' \in 1..(MaxUsers + 1) /\ gen' \in 0..MaxTokens
        /\ Stores(u, d) /\ (Live(u) => Honest(d)')
        /\ \A f \in DOMAIN NoRow :
               d[f] = IF f \in DOMAIN w THEN w[f] ELSE IF Live(u) THEN users[u][f] ELSE req[s].doc[f]
    BY <1>1, <1>3, <1>4, <1>6, Rewritten
  <1>9. PICK r : r = req[s]
    OBVIOUS
  <1>10. /\ Typed(r.keep)' /\ r.x \in 0..MaxUsers /\ r.x < nextId'
         /\ \A e : Rooted(u, e) => Rooted(u, e)'
    <2>1. Informed(r)'
      BY <1>3, <1>8, <1>9, StillInformed DEF Honesty
    <2> QED BY <1>3, <1>8, <2>1, Lasting, Zenon DEF Informed, Honesty
  <1>11. Live(u) => u \in Users
    BY <1>3 DEF Live, Users
  <1>12. ASSUME req' = [req EXCEPT ![s] = q],
                (UNCHANGED store /\ ~Live(u)) \/ (Live(u) /\ WriteRow(d))
         PROVE  Sound
    <2>1. Live(u)' => Live(u) /\ users'[u] = d
      BY <1>8, <1>11, <1>12, Zenon DEF Live, WriteRow, store, Honesty, HonestRows
    <2>2. \A v \in Users : (v = u /\ users'[v] = d /\ Live(u)) \/ users'[v] = users[v]
      BY <1>8, <1>11, <1>12 DEF WriteRow, store, Honesty, HonestRows
    <2>3. /\ Rooted(u, d.email)'
          /\ d.previousEmail # None \/ d.newEmailPending # None => Sure(u)'
      BY <1>8, <2>1 DEF Rooted, Sure, Honest
    <2>4. cont = "mailverify" => /\ d.emailVerificationToken \in Secrets'
                                 /\ VerifyTold(d.emailVerificationToken, r.e)'
      <3> SUFFICES ASSUME cont = "mailverify"
                   PROVE  /\ d.emailVerificationToken \in Secrets'
                          /\ VerifyTold(d.emailVerificationToken, r.e)'
        OBVIOUS
      <3>1. d.emailVerificationToken = gen' /\ gen' \in Secrets' /\ gen' \notin Secrets /\ gen' # 0
        BY <1>8, FreshSecret DEF NoRow
      <3>2. \A v \in Users : users'[v].emailVerificationToken = gen' => v = u
        BY <2>2, <3>1, FreshSecret
      <3>3. Rooted(u, r.e)'
        BY <1>9, <1>10
      <3> QED BY <3>1, <3>2, <3>3 DEF VerifyTold
    <2>5. cont = "mailmigrate" => /\ d.migrationToken \in Secrets'
                                  /\ NewTold(d.migrationToken, d.id, d.newEmailPending)'
      <3> SUFFICES ASSUME cont = "mailmigrate"
                   PROVE  /\ d.migrationToken \in Secrets'
                          /\ NewTold(d.migrationToken, d.id, d.newEmailPending)'
        OBVIOUS
      <3>1. d.migrationToken = gen' /\ gen' \in Secrets' /\ gen' \notin Secrets /\ gen' # 0
        BY <1>8, FreshSecret DEF NoRow
      <3>2. \A v \in Users : users'[v].migrationToken = gen' => v = u /\ users'[v] = d
        BY <2>2, <3>1, FreshSecret
      <3> QED BY <1>8, <3>1, <3>2 DEF NewTold
    <2>6. cont = "mailverify" => r.e \in Emails
      BY <1>9
    <2>7. q.keep = r.keep /\ q.e = r.e /\ q.x = r.x
      BY <1>7, <1>9
    <2>8. Informed(q)'
      BY <1>7, <1>8, <1>10, <2>3, <2>4, <2>5, <2>6, <2>7 DEF Informed, Continuations
    <2> QED BY <1>3, <1>8, <1>12, <2>8, Storing
  <1>13. ASSUME UNCHANGED store, GoOn(s, onDup, <<>>) PROVE Sound
    <2>1. PICK c : c = IF onDup = "idle" THEN Idle ELSE [pc |-> "duplicate"] ++ r
      OBVIOUS
    <2>2. req' = [req EXCEPT ![s] = c]
      BY <1>9, <1>13, <2>1, GoOnTo DEF Answer, Goto
    <2>3. Informed(c)
      <3>1. CASE onDup = "idle"
        BY <2>1, <3>1, IdleInformed
      <3>2. CASE onDup = "duplicate"
        <4>1. /\ DOMAIN c = DOMAIN Idle /\ c.pc = "duplicate" /\ c.e = r.e /\ c.x = r.x
              /\ c.doc = r.doc /\ c.sd = r.sd /\ c.keep = r.keep
          BY <1>3, <1>9, <2>1, <3>2 DEF ++, Idle
        <4> QED BY <1>3, <1>9, <3>2, <4>1 DEF Informed
      <3> QED BY <3>1, <3>2
    <2>4. Informed(c)'
      BY <1>8, <2>3, StillInformed DEF Honesty
    <2> QED BY <1>3, <1>8, <2>2, <2>4, Storing
  <1> QED BY <1>5, <1>12, <1>13

\* The columns of a row over which w is written.
LEMMA Columns ==
    ASSUME Honesty, NEW u \in 0..MaxUsers, Live(u), NEW w, NEW d, d = w ++ users[u]
    PROVE  /\ u \in Users /\ Honest(users[u]) /\ users[u].id = u /\ users[u].email # None
           /\ d.email = IF "email" \in DOMAIN w THEN w.email ELSE users[u].email
           /\ d.isEmailVerified = IF "isEmailVerified" \in DOMAIN w THEN w.isEmailVerified
                                  ELSE users[u].isEmailVerified
           /\ d.previousEmail = IF "previousEmail" \in DOMAIN w THEN w.previousEmail
                                ELSE users[u].previousEmail
           /\ d.newEmailPending = IF "newEmailPending" \in DOMAIN w THEN w.newEmailPending
                                  ELSE users[u].newEmailPending
           /\ d.newEmailVerified = IF "newEmailVerified" \in DOMAIN w THEN w.newEmailVerified
                                   ELSE users[u].newEmailVerified
           /\ d.emailVerificationToken = IF "emailVerificationToken" \in DOMAIN w
                                         THEN w.emailVerificationToken
                                         ELSE users[u].emailVerificationToken
           /\ d.migrationToken = IF "migrationToken" \in DOMAIN w THEN w.migrationToken
                                 ELSE users[u].migrationToken
  <1>1. u \in Users /\ Honest(users[u]) /\ users[u].id = u /\ users[u].email # None
    BY DEF Live, Users, Honesty, HonestRows
  <1>2. DOMAIN users[u] = DOMAIN NoRow
    BY <1>1 DEF Honesty, HonestRows, Typed
  <1>3. \A f \in DOMAIN NoRow : d[f] = IF f \in DOMAIN w THEN w[f] ELSE users[u][f]
    BY <1>2 DEF ++
  <1> QED BY <1>1, <1>3 DEF NoRow

\* A secret is generated, or none, and no link goes out or is used.
LEMMA Generates ==
    ASSUME Honesty, UNCHANGED <<links, opened>>, gen' = gen \/ (CanGenerate /\ gen' = Fresh)
    PROVE  Sends /\ (CanGenerate /\ gen' = Fresh => gen' = gen + 1)
  <1>1. gen \in 0..MaxTokens /\ MaxTokens \in Nat
    BY StoreAssumption DEF Honesty, HonestRows
  <1> QED BY <1>1 DEF Sends, CanGenerate, Fresh

\* The saves of register, verifyEmail and the OAuth strategy that the index follows.
LEMMA AccountSavesSound ==
    ASSUME Honesty, ~AutoVerifyEmail, NEW s \in Slots
    PROVE  /\ RegisterSave(s) /\ req[s].doc.id # 0 => Sound
           /\ VerifyEmailSave(s) => Sound
           /\ OAuthTakeOver(s) => Sound
           /\ OAuthStrategy(s) => Sound
  <1>1. Informed(req[s])
    BY DEF Honesty
  <1>2. PICK u : u = req[s].doc.id
    OBVIOUS
  <1>3. u \in 0..MaxUsers
    BY <1>1, <1>2 DEF Informed, Typed
  <1>4. ASSUME RegisterSave(s), req[s].doc.id # 0 PROVE Sound
    <2>1. PICK w : w = Credentials ++ [migrationHistory |-> req[s].doc.migrationHistory]
      OBVIOUS
    <2>2. /\ DOMAIN w = {"password", "provider", "isEmailVerified", "emailVerificationToken",
                         "emailVerificationExpires", "migrationHistory"}
          /\ w.provider = Local /\ w.isEmailVerified = FALSE /\ w.emailVerificationToken = Fresh
      BY <2>1 DEF Credentials, ++
    <2>3. /\ req[s].pc = "create" /\ CanGenerate /\ gen' = Fresh /\ UNCHANGED <<links, opened>>
          /\ SaveAndSync(s, w, "mailverify", "idle")
      BY <1>4, <2>1 DEF RegisterSave
    <2> HIDE DEF ++
    <2>4. Sends /\ gen' = gen + 1
      BY <2>3, Generates
    <2>5. req[s].e \in Emails /\ Rooted(u, req[s].e)
      BY <1>1, <1>2, <2>3 DEF Informed
    <2>6. \A d : d = w ++ users[u] /\ Live(u) => Lawful(users[u], d)
      BY <1>3, <2>2, <2>3, <2>4, Columns DEF Lawful, Fresh, Honest
    <2>7. DOMAIN w \subseteq DOMAIN NoRow \ {"id"}
      BY <2>2 DEF NoRow
    <2> QED BY <1>2, <2>2, <2>3, <2>4, <2>5, <2>6, <2>7, SyncSaveSound DEF Fresh
  <1>5. ASSUME VerifyEmailSave(s) PROVE Sound
    <2>1. PICK w : w = [password |-> TRUE, isEmailVerified |-> TRUE,
                        emailVerificationToken |-> 0, emailVerificationExpires |-> 0,
                        migrationHistory |-> req[s].doc.migrationHistory]
      OBVIOUS
    <2>2. /\ req[s].pc = "saveverify" /\ UNCHANGED post /\ SaveAndSync(s, w, "idle", "idle")
      BY <1>5, <2>1 DEF VerifyEmailSave
    <2>3. Sends
      BY <2>2, Generates DEF post
    <2>4. Sure(u)
      BY <1>1, <1>2, <2>2 DEF Informed
    <2> HIDE DEF ++
    <2>6. ASSUME NEW d, d = w ++ users[u], Live(u) PROVE Lawful(users[u], d)
      <3>1. d.email = users[u].email
        BY <1>3, <2>1, <2>6, Columns, SMTT(30)
      <3>2. Proved(d.email)'
        BY <2>2, <2>4, <2>6, <3>1 DEF Sure, Proved, post
      <3> QED BY <1>3, <2>1, <2>6, <3>2, Columns DEF Lawful, Honest
    <2>7. DOMAIN w \subseteq DOMAIN NoRow \ {"id"} /\ "provider" \notin DOMAIN w
      BY <2>1 DEF NoRow
    <2> QED BY <1>2, <2>2, <2>3, <2>6, <2>7, SyncSaveSound
  <1>6. ASSUME OAuthTakeOver(s) PROVE Sound
    <2>1. PICK w : w = [provider |-> req[s].id, isEmailVerified |-> TRUE,
                        migrationHistory |-> req[s].doc.migrationHistory]
      OBVIOUS
    <2>2. /\ req[s].pc = "takeover" /\ UNCHANGED <<links, gen>> /\ SaveAndSync(s, w, "strategy", "idle")
          /\ opened' = opened \cup {[kind |-> "oauth", secret |-> 0, u |-> req[s].doc.id, to |-> req[s].e]}
      BY <1>6, <2>1 DEF OAuthTakeOver, Vouch
    <2>3. Sends
      BY <2>2, StoreAssumption DEF Sends, Honesty, HonestRows
    <2>4. Rooted(u, req[s].e) /\ req[s].id \in OAuthIds
      BY <1>1, <1>2, <2>2 DEF Informed
    <2> HIDE DEF ++
    <2>5. \A e : Proved(e) \/ e = req[s].e => \E l \in opened' : l.to = e
      <3>1. PICK k : k = [kind |-> "oauth", secret |-> 0, u |-> req[s].doc.id, to |-> req[s].e]
        OBVIOUS
      <3>2. opened' = opened \cup {k} /\ k.to = req[s].e
        BY <2>2, <3>1
      <3> QED BY <3>2 DEF Proved
    <2>6. ASSUME NEW d, d = w ++ users[u], Live(u) PROVE Lawful(users[u], d)
      <3>1. d.email = users[u].email
        BY <1>3, <2>1, <2>6, Columns
      <3>2. Proved(d.email)'
        BY <2>4, <2>5, <2>6, <3>1 DEF Rooted, Proved
      <3> QED BY <1>3, <2>1, <2>6, <3>2, Columns DEF Lawful, Honest
    <2>7. DOMAIN w \subseteq DOMAIN NoRow \ {"id"}
      BY <2>1 DEF NoRow
    <2> QED BY <1>2, <2>1, <2>2, <2>3, <2>4, <2>6, <2>7, SyncSaveSound
  <1>7. ASSUME OAuthStrategy(s) PROVE Sound
    <2>1. PICK w : w = [migrationHistory |-> req[s].doc.migrationHistory]
      OBVIOUS
    <2>2. UNCHANGED post /\ ((Answer(s) /\ UNCHANGED store) \/ SaveAndSync(s, w, "idle", "idle"))
      BY <1>7, <2>1 DEF OAuthStrategy
    <2>3. Sends
      BY <2>2, Generates DEF post
    <2> HIDE DEF ++
    <2>4. \A d : d = w ++ users[u] /\ Live(u) => Lawful(users[u], d)
      BY <1>3, <2>1, Columns DEF Lawful, Honest
    <2>5. DOMAIN w \subseteq DOMAIN NoRow \ {"id"} /\ "provider" \notin DOMAIN w
      BY <2>1 DEF NoRow
    <2>6. CASE Answer(s) /\ UNCHANGED store
      BY <2>2, <2>6, IdleInformed, ReadingOn DEF Answer
    <2>7. CASE SaveAndSync(s, w, "idle", "idle")
      BY <1>2, <2>3, <2>4, <2>5, <2>7, SyncSaveSound
    <2> QED BY <2>2, <2>6, <2>7
  <1> QED BY <1>4, <1>5, <1>6, <1>7

\* Those of a migration and of a login.
LEMMA MigrationSavesSound ==
    ASSUME Honesty, NEW s \in Slots
    PROVE  /\ InitiateSave(s) => Sound
           /\ ResendSave(s) => Sound
           /\ FinaliseProfile(s) => Sound
           /\ FinaliseSave(s) => Sound
           /\ LoginSave(s) => Sound
  <1>1. Informed(req[s])
    BY DEF Honesty
  <1>2. PICK u : u = req[s].doc.id
    OBVIOUS
  <1>3. u \in 0..MaxUsers /\ Typed(req[s].doc) /\ Typed(req[s].keep)
    BY <1>1, <1>2 DEF Informed, Typed
  <1>4. ASSUME InitiateSave(s) PROVE Sound
    <2>1. PICK w : w = [newEmailPending |-> req[s].e, migrationToken |-> Fresh,
                       migrationTokenExpires |-> now + TokenTtl,
                       currentEmailVerified |-> FALSE, newEmailVerified |-> FALSE,
                       migrationHistory |-> Append(req[s].doc.migrationHistory, Pending(req[s].e))]
      OBVIOUS
    <2>2. /\ req[s].pc = "initsave" /\ CanGenerate /\ gen' = Fresh /\ UNCHANGED <<links, opened>>
          /\ SaveAndSync(s, w, "mailmigrate", "idle")
      BY <1>4, <2>1 DEF InitiateSave
    <2>3. Sends /\ gen' = gen + 1
      BY <2>2, Generates
    <2>4. Sure(u) /\ req[s].e \in Emails
      BY <1>1, <1>2, <2>2 DEF Informed
    <2>7. /\ DOMAIN w = {"newEmailPending", "migrationToken", "migrationTokenExpires",
                         "currentEmailVerified", "newEmailVerified", "migrationHistory"}
          /\ w.newEmailPending = req[s].e /\ w.migrationToken = gen + 1 /\ w.newEmailVerified = FALSE
      BY <2>1 DEF Fresh
    <2>8. opened' = opened /\ gen' = gen + 1
      BY <2>2, <2>3
    <2> HIDE DEF ++
    <2>5. ASSUME NEW d, d = w ++ users[u], Live(u) PROVE Lawful(users[u], d)
      <3>1. d.email = users[u].email
        BY <1>3, <2>5, <2>7, Columns
      <3>2. Proved(d.email)'
        BY <2>4, <2>5, <2>8, <3>1 DEF Sure, Proved
      <3> QED BY <1>3, <2>4, <2>5, <2>7, <2>8, <3>2, Columns DEF Lawful, Honest
    <2>6. DOMAIN w \subseteq DOMAIN NoRow \ {"id"} /\ "provider" \notin DOMAIN w
      BY <2>7 DEF NoRow
    <2> QED BY <1>2, <2>2, <2>3, <2>5, <2>6, <2>7, SyncSaveSound
  <1>5. ASSUME ResendSave(s) PROVE Sound
    <2>1. PICK w : w = [migrationToken |-> Fresh, migrationTokenExpires |-> now + TokenTtl,
                        migrationHistory |-> req[s].doc.migrationHistory]
      OBVIOUS
    <2>2. /\ CanGenerate /\ gen' = Fresh /\ UNCHANGED <<links, opened>>
          /\ SaveAndSync(s, w, "mailmigrate", "idle")
      BY <1>5, <2>1 DEF ResendSave
    <2>3. Sends /\ gen' = gen + 1
      BY <2>2, Generates
    <2>6. /\ DOMAIN w = {"migrationToken", "migrationTokenExpires", "migrationHistory"}
          /\ w.migrationToken = gen + 1
      BY <2>1 DEF Fresh
    <2> HIDE DEF ++
    <2>4. ASSUME NEW d, d = w ++ users[u], Live(u) PROVE Lawful(users[u], d)
      BY <1>3, <2>3, <2>4, <2>6, Columns DEF Lawful, Honest
    <2>5. DOMAIN w \subseteq DOMAIN NoRow \ {"id"} /\ "provider" \notin DOMAIN w
      BY <2>6 DEF NoRow
    <2> QED BY <1>2, <2>2, <2>3, <2>4, <2>5, <2>6, SyncSaveSound
  <1>6. ASSUME FinaliseProfile(s) PROVE Sound
    <2>1. PICK w, cont : /\ SaveAndSync(s, w, cont, "duplicate") /\ cont \in {"idle", "checkbio"}
                         /\ \/ w = [migrationHistory |->
                                        MarkSuccess(req[s].doc.migrationHistory, req[s].e)]
                            \/ w = [migrationHistory |->
                                        MarkSuccess(req[s].doc.migrationHistory, req[s].e)]
                                   ++ Preserved(req[s].keep)
      BY <1>6 DEF FinaliseProfile
    <2>2. UNCHANGED post /\ req[s].pc = "finprofile"
      BY <1>6 DEF FinaliseProfile
    <2>3. Sends
      BY <2>2, Generates DEF post
    <2>4. req[s].e \in Emails
      BY <1>1, <2>2 DEF Informed
    <2>5. /\ DOMAIN w \subseteq {"migrationHistory", "bio", "provider"}
          /\ "provider" \in DOMAIN w => w.provider = req[s].keep.provider
      BY <2>1 DEF Preserved, ++
    <2> HIDE DEF ++
    <2>6. \A d : d = w ++ users[u] /\ Live(u) => Lawful(users[u], d)
      BY <1>3, <2>5, Columns DEF Lawful, Honest
    <2>7. DOMAIN w \subseteq DOMAIN NoRow \ {"id"} /\ ("provider" \in DOMAIN w => w.provider \in OAuthIds \cup {Local})
      BY <1>3, <2>5 DEF NoRow, Typed
    <2> QED BY <1>2, <2>1, <2>3, <2>4, <2>6, <2>7, SyncSaveSound
  <1>7. ASSUME NEW w, NEW e \in Emails, NEW cont \in {"idle", "checkbio"}, NEW onDup \in {"idle", "duplicate"},
               SaveAndSync(s, w, cont, onDup), UNCHANGED post,
               onDup = "duplicate" => req[s].e \in Emails, Used("new", u, e),
               DOMAIN w \subseteq DOMAIN NoRow \ {"id"},
               "provider" \in DOMAIN w => w.provider \in OAuthIds \cup {Local},
               {"email", "newEmailPending", "migrationToken"} \subseteq DOMAIN w,
               "emailVerificationToken" \notin DOMAIN w,
               w.email = e, w.newEmailPending = None, w.migrationToken = 0
        PROVE  Sound
    <2>1. Sends
      BY <1>7, Generates DEF post
    <2>2. Proved(e)'
      BY <1>7 DEF Used, Proved, post
    <2>3. e # None
      BY StoreAssumption
    <2> HIDE DEF ++
    <2>4. ASSUME NEW d, d = w ++ users[u], Live(u) PROVE Lawful(users[u], d)
      <3>1. d.email = e
        BY <1>3, <1>7, <2>4, Columns
      <3>2. Proved(d.email)'
        BY <2>2, <3>1
      <3> QED BY <1>3, <1>7, <2>3, <2>4, <3>1, <3>2, Columns DEF Lawful, Honest
    <2> QED BY <1>2, <1>7, <2>1, <2>4, SyncSaveSound
  <1>8. ASSUME FinaliseSave(s) PROVE Sound
    <2>1. PICK d, e : d = req[s].doc /\ e = req[s].e
      OBVIOUS
    <2>2. PICK w : w = Moved(d, e) ++ Preserved(d) ++
                      [migrationTokenExpires |-> 0,
                       migrationHistory |-> MarkSuccess(d.migrationHistory, e)]
      OBVIOUS
    <2>3. req[s].pc = "finsave" /\ UNCHANGED post /\ SaveAndSync(s, w, "checkbio", "duplicate")
      BY <1>8, <2>1, <2>2 DEF FinaliseSave
    <2>4. e \in Emails /\ Used("new", u, e)
      BY <1>1, <1>2, <2>1, <2>3 DEF Informed
    <2>5. /\ DOMAIN w = {"previousEmail", "email", "migrationExpiry", "lastMigrationDate",
                         "isEmailVerified", "newEmailPending", "migrationToken", "currentEmailVerified",
                         "newEmailVerified", "bio", "provider", "migrationTokenExpires", "migrationHistory"}
          /\ w.email = e /\ w.newEmailPending = None /\ w.migrationToken = 0
          /\ w.provider = d.provider
      BY <2>2 DEF Moved, Preserved, ++
    <2> HIDE DEF ++
    <2>6. DOMAIN w \subseteq DOMAIN NoRow \ {"id"} /\ w.provider \in OAuthIds \cup {Local}
      BY <1>3, <2>1, <2>5 DEF NoRow, Typed
    <2> QED BY <1>7, <2>1, <2>3, <2>4, <2>5, <2>6
  <1>9. ASSUME LoginSave(s) PROVE Sound
    <2>1. PICK d, e : d = req[s].doc /\ e = d.newEmailPending
      OBVIOUS
    <2>2. PICK w : w = Moved(d, e) ++ [migrationHistory |-> d.migrationHistory]
      OBVIOUS
    <2>3. req[s].pc = "loginsave" /\ UNCHANGED post /\ SaveAndSync(s, w, "idle", "idle")
      BY <1>9, <2>1, <2>2 DEF LoginSave
    <2>4. e \in Emails /\ Used("new", u, e)
      BY <1>1, <1>2, <2>1, <2>3 DEF Informed
    <2>5. /\ DOMAIN w = {"previousEmail", "email", "migrationExpiry", "lastMigrationDate",
                         "isEmailVerified", "newEmailPending", "migrationToken", "currentEmailVerified",
                         "newEmailVerified", "migrationHistory"}
          /\ w.email = e /\ w.newEmailPending = None /\ w.migrationToken = 0
      BY <2>2 DEF Moved, ++
    <2> HIDE DEF ++
    <2>6. DOMAIN w \subseteq DOMAIN NoRow \ {"id"} /\ "provider" \notin DOMAIN w
      BY <2>5 DEF NoRow
    <2> QED BY <1>7, <2>3, <2>4, <2>5, <2>6
  <1> QED BY <1>4, <1>5, <1>6, <1>8, <1>9

\* A save that the index does not follow.
LEMMA SaveSound ==
    ASSUME Honesty, Sends, NEW s \in Slots, NEW u, u = req[s].doc.id,
           NEW w, DOMAIN w \subseteq DOMAIN NoRow \ {"id"}, "provider" \notin DOMAIN w,
           NEW d, d = w ++ (IF Live(u) THEN users[u] ELSE req[s].doc),
           Live(u) => Lawful(users[u], d),
           NEW q, \/ UNCHANGED store /\ Answer(s)
                  \/ UNCHANGED store /\ ~Live(u) /\ req' = [req EXCEPT ![s] = q]
                  \/ Live(u) /\ WriteRow(d) /\ req' = [req EXCEPT ![s] = q],
           \/ q = Idle
           \/ /\ DOMAIN q = DOMAIN Idle /\ q.pc \in {"readhistory", "bothverified", "finprofile", "mailverify"}
              /\ q.doc \in {d, req[s].doc} /\ q.sd \in {d, req[s].sd} /\ q.keep = req[s].keep
              /\ q.x = req[s].x /\ q.e = req[s].e
              /\ q.pc \in {"mailverify", "finprofile"} => req[s].e \in Emails
              /\ q.pc = "mailverify" =>
                     /\ gen' = gen + 1 /\ "emailVerificationToken" \in DOMAIN w
                     /\ w.emailVerificationToken = gen' /\ Rooted(u, req[s].e) /\ q.sd = d
    PROVE  Sound
  <1> HIDE DEF ++
  <1>1. UNCHANGED store \/ (Live(u) /\ WriteRow(d))
    BY SMTT(30)
  <1>2. /\ d.id = u /\ u \in 0..MaxUsers /\ Typed(d)'
        /\ Grows /\ nextId' \in 1..(MaxUsers + 1) /\ gen' \in 0..MaxTokens
        /\ Stores(u, d) /\ (Live(u) => u \in Users /\ Honest(d)')
        /\ \A f \in DOMAIN NoRow :
               d[f] = IF f \in DOMAIN w THEN w[f] ELSE IF Live(u) THEN users[u][f] ELSE req[s].doc[f]
    BY <1>1, Rewritten
  <1>3. PICK r : r = req[s]
    BY Zenon
  <1>4. /\ Typed(r.keep)' /\ Typed(r.doc)' /\ Typed(r.sd)' /\ r.x \in 0..MaxUsers /\ r.x < nextId'
        /\ \A e : Rooted(u, e) => Rooted(u, e)'
    <2>3. Informed(r)
      BY <1>3, SMTT(30) DEF Honesty
    <2>1. Informed(r) /\ u < nextId
      BY <1>3, <2>3 DEF Informed, Typed
    <2>2. Informed(r)'
      BY <1>2, <2>1, StillInformed, Zenon DEF Honesty
    <2> QED BY <1>2, <2>1, <2>2, Lasting, Zenon DEF Informed, Honesty
  <1>5. Informed(Idle)'
    BY <1>2, IdleInformed, StillInformed, Zenon DEF Honesty
  <1>6. ASSUME req' = [req EXCEPT ![s] = q],
               (UNCHANGED store /\ ~Live(u)) \/ (Live(u) /\ WriteRow(d)), q # Idle
        PROVE  Informed(q)'
    <2>1. Live(u) => u \in Users
      BY <1>2, Zenon
    <2>2. \A v \in Users : (v = u /\ users'[v] = d /\ Live(u)) \/ users'[v] = users[v]
      BY <1>2, <1>6, <2>1, Zenon DEF WriteRow, store, Honesty, HonestRows
    <2>3. q.pc = "mailverify" => /\ d.emailVerificationToken \in Secrets'
                                 /\ VerifyTold(d.emailVerificationToken, r.e)'
      <3> SUFFICES ASSUME q.pc = "mailverify"
                   PROVE  /\ d.emailVerificationToken \in Secrets'
                          /\ VerifyTold(d.emailVerificationToken, r.e)'
        BY Zenon
      <3>1. d.emailVerificationToken = gen' /\ gen' \in Secrets' /\ gen' \notin Secrets /\ gen' # 0
        BY <1>2, <1>6, FreshSecret, Zenon DEF NoRow
      <3>2. \A v \in Users : users'[v].emailVerificationToken = gen' => v = u
        BY <2>2, <3>1, FreshSecret
      <3>3. Rooted(u, r.e)'
        BY <1>3, <1>4, <1>6
      <3> QED BY <3>1, <3>2, <3>3, Zenon DEF VerifyTold
    <2>4. /\ q.doc \in {d, r.doc} /\ q.sd \in {d, r.sd} /\ q.keep = r.keep /\ q.x = r.x /\ q.e = r.e
          /\ q.pc \in {"mailverify", "finprofile"} => q.e \in Emails
          /\ q.pc = "mailverify" => q.sd = d
          /\ DOMAIN q = DOMAIN Idle /\ q.pc \in {"readhistory", "bothverified", "finprofile", "mailverify"}
      BY <1>3, <1>6, Zenon
    <2>5. Typed(q.doc)' /\ Typed(q.sd)' /\ Typed(q.keep)' /\ q.x \in 0..MaxUsers /\ q.x < nextId'
      BY <1>2, <1>4, <2>4, Zenon
    <2> QED BY <2>3, <2>4, <2>5, ZenonT(30) DEF Informed
  <1>7. CASE UNCHANGED store /\ Answer(s)
    BY <1>2, <1>5, <1>7, Storing, Zenon DEF Answer
  <1>8. CASE /\ (UNCHANGED store /\ ~Live(u)) \/ (Live(u) /\ WriteRow(d))
             /\ req' = [req EXCEPT ![s] = q]
    <2>1. Informed(q)'
      BY <1>5, <1>6, <1>8
    <2> QED BY <1>2, <1>8, <2>1, Storing, Zenon
  <1> QED BY <1>7, <1>8

\* A request of which nothing is left.
LEMMA NothingLeft ==
    ASSUME NEW r, DOMAIN r = DOMAIN Idle PROVE Idle ++ r = Idle
  <1>1. Idle = [f \in DOMAIN Idle |-> Idle[f]]
    BY DEF Idle
  <1>2. DOMAIN Idle \cup DOMAIN r = DOMAIN Idle
    OBVIOUS
  <1>3. Idle ++ r = [f \in DOMAIN Idle |-> IF f \in DOMAIN Idle THEN Idle[f] ELSE r[f]]
    BY <1>2 DEF ++
  <1>4. [f \in DOMAIN Idle |-> IF f \in DOMAIN Idle THEN Idle[f] ELSE r[f]] = [f \in DOMAIN Idle |-> Idle[f]]
    OBVIOUS
  <1> HIDE DEF ++
  <1> QED BY <1>1, <1>3, <1>4

\* Those saves.
LEMMA PlainSavesSound ==
    ASSUME Honesty, NEW s \in Slots
    PROVE  /\ ResendVerificationSave(s) => Sound
           /\ UpdateBioSave(s) => Sound
           /\ VerifyHistorySave(s) => Sound
           /\ FinaliseSaveBio(s) => Sound
           /\ CleanupSave(s) => Sound
           /\ Steady /\ VerifyMigrationSave(s) => Sound
  <1>1. Informed(req[s]) /\ DOMAIN req[s] = DOMAIN Idle
    BY DEF Honesty, Informed
  <1>2. PICK u : u = req[s].doc.id
    OBVIOUS
  <1>3. u \in 0..MaxUsers
    BY <1>1, <1>2 DEF Informed, Typed
  <1>4. GoOn(s, "idle", <<>>) => Answer(s)
    BY GoOnTo
  <1>5. ASSUME ResendVerificationSave(s) PROVE Sound
    <2>1. PICK w, d, q : /\ w = [emailVerificationToken |-> Fresh,
                                 emailVerificationExpires |-> now + TokenTtl,
                                 migrationHistory |-> req[s].doc.migrationHistory]
                         /\ d = w ++ (IF Live(u) THEN users[u] ELSE req[s].doc)
                         /\ q = [pc |-> "mailverify", doc |-> d, sd |-> d] ++ req[s]
      OBVIOUS
    <2>2. \/ UNCHANGED store /\ Answer(s)
          \/ UNCHANGED store /\ ~Live(u) /\ req' = [req EXCEPT ![s] = q]
          \/ Live(u) /\ WriteRow(d) /\ req' = [req EXCEPT ![s] = q]
      BY <1>2, <1>4, <1>5, <2>1 DEF ResendVerificationSave, Save, Updated, Goto
    <2>3. req[s].pc = "reverifysave" /\ CanGenerate /\ gen' = Fresh /\ UNCHANGED <<links, opened>>
      BY <1>5 DEF ResendVerificationSave
    <2>4. Sends /\ gen' = gen + 1
      BY <2>3, Generates
    <2>5. req[s].e \in Emails /\ Rooted(u, req[s].e)
      BY <1>1, <1>2, <2>3 DEF Informed
    <2>6. /\ DOMAIN w = {"emailVerificationToken", "emailVerificationExpires", "migrationHistory"}
          /\ w.emailVerificationToken = gen + 1
      BY <2>1, SMTT(30) DEF Fresh
    <2>7. /\ DOMAIN q = DOMAIN Idle /\ q.pc = "mailverify" /\ q.doc = d /\ q.sd = d
          /\ q.keep = req[s].keep /\ q.x = req[s].x /\ q.e = req[s].e
      BY <1>1, <2>1 DEF ++, Idle
    <2> HIDE DEF ++
    <2>8. Live(u) => Lawful(users[u], d)
      BY <1>3, <2>1, <2>4, <2>6, Columns, SMTT(30) DEF Lawful, Honest
    <2>9. DOMAIN w \subseteq DOMAIN NoRow \ {"id"} /\ "provider" \notin DOMAIN w
      BY <2>6 DEF NoRow
    <2>10. /\ DOMAIN q = DOMAIN Idle /\ q.pc \in {"readhistory", "bothverified", "finprofile", "mailverify"}
           /\ q.doc \in {d, req[s].doc} /\ q.sd \in {d, req[s].sd} /\ q.keep = req[s].keep
           /\ q.x = req[s].x /\ q.e = req[s].e
           /\ q.pc \in {"mailverify", "finprofile"} => req[s].e \in Emails
           /\ q.pc = "mailverify" =>
                  /\ gen' = gen + 1 /\ "emailVerificationToken" \in DOMAIN w
                  /\ w.emailVerificationToken = gen' /\ Rooted(u, req[s].e) /\ q.sd = d
      BY <2>4, <2>5, <2>6, <2>7
    <2>11. d = w ++ (IF Live(u) THEN users[u] ELSE req[s].doc)
      BY <2>1
    <2> QED BY <1>2, <2>2, <2>4, <2>8, <2>9, <2>10, <2>11, SaveSound
  <1>6. ASSUME NEW w, NEW d, d = w ++ (IF Live(u) THEN users[u] ELSE req[s].doc),
               DOMAIN w \subseteq {"bio", "migrationHistory", "previousEmail", "migrationExpiry",
                                   "currentEmailVerified", "newEmailVerified"},
               "previousEmail" \in DOMAIN w => w.previousEmail = None,
               "newEmailVerified" \in DOMAIN w /\ Live(u) /\ users[u].newEmailPending # None =>
                   Used("new", u, users[u].newEmailPending),
               UNCHANGED post, NEW q,
               \/ UNCHANGED store /\ Answer(s)
               \/ UNCHANGED store /\ ~Live(u) /\ req' = [req EXCEPT ![s] = q]
               \/ Live(u) /\ WriteRow(d) /\ req' = [req EXCEPT ![s] = q],
               \/ q = Idle
               \/ q = [pc |-> "bothverified"] ++ req[s]
               \/ q = [pc |-> "readhistory", doc |-> d] ++ req[s]
        PROVE  Sound
    <2>1. Sends
      BY <1>6, Generates DEF post
    <2>2. \/ q = Idle
          \/ /\ DOMAIN q = DOMAIN Idle /\ q.pc \in {"readhistory", "bothverified"}
             /\ q.doc \in {d, req[s].doc} /\ q.sd = req[s].sd /\ q.keep = req[s].keep
             /\ q.x = req[s].x /\ q.e = req[s].e
      <3>1. CASE q = [pc |-> "bothverified"] ++ req[s]
        BY <1>1, <3>1 DEF ++, Idle
      <3>2. CASE q = [pc |-> "readhistory", doc |-> d] ++ req[s]
        BY <1>1, <3>2 DEF ++, Idle
      <3> QED BY <1>6, <3>1, <3>2
    <2> HIDE DEF ++
    <2>3. Live(u) => Lawful(users[u], d)
      BY <1>3, <1>6, Columns, SMTT(30) DEF Lawful, Honest
    <2>4. DOMAIN w \subseteq DOMAIN NoRow \ {"id"} /\ "provider" \notin DOMAIN w
      BY <1>6 DEF NoRow
    <2> QED BY <1>2, <1>6, <2>1, <2>2, <2>3, <2>4, SaveSound
  <1>7. ASSUME UpdateBioSave(s) PROVE Sound
    <2>1. PICK b \in {"old", "new"} :
              Save(s, [bio |-> b, migrationHistory |-> req[s].doc.migrationHistory],
                   LAMBDA d : Idle, "idle")
      BY <1>7 DEF UpdateBioSave
    <2>2. PICK w, d, q : /\ w = [bio |-> b, migrationHistory |-> req[s].doc.migrationHistory]
                         /\ d = w ++ (IF Live(u) THEN users[u] ELSE req[s].doc) /\ q = Idle
      OBVIOUS
    <2>3. Idle ++ req[s] = Idle
      BY <1>1, NothingLeft
    <2>4. \/ UNCHANGED store /\ Answer(s)
          \/ UNCHANGED store /\ ~Live(u) /\ req' = [req EXCEPT ![s] = q]
          \/ Live(u) /\ WriteRow(d) /\ req' = [req EXCEPT ![s] = q]
      BY <1>2, <1>4, <2>1, <2>2, <2>3 DEF Save, Updated, Goto
    <2>5. UNCHANGED post /\ DOMAIN w = {"bio", "migrationHistory"}
      BY <1>7, <2>2 DEF UpdateBioSave
    <2> HIDE DEF ++
    <2> QED BY <1>6, <2>2, <2>4, <2>5
  <1>8. ASSUME VerifyHistorySave(s) PROVE Sound
    <2>1. PICK h : Save(s, [migrationHistory |-> h], LAMBDA d : [pc |-> "bothverified"], "idle")
      BY <1>8 DEF VerifyHistorySave
    <2>2. PICK w, d, q : /\ w = [migrationHistory |-> h]
                         /\ d = w ++ (IF Live(u) THEN users[u] ELSE req[s].doc)
                         /\ q = [pc |-> "bothverified"] ++ req[s]
      OBVIOUS
    <2>3. \/ UNCHANGED store /\ Answer(s)
          \/ UNCHANGED store /\ ~Live(u) /\ req' = [req EXCEPT ![s] = q]
          \/ Live(u) /\ WriteRow(d) /\ req' = [req EXCEPT ![s] = q]
      BY <1>2, <1>4, <2>1, <2>2 DEF Save, Updated, Goto
    <2>4. UNCHANGED post /\ DOMAIN w = {"migrationHistory"}
      BY <1>8, <2>2 DEF VerifyHistorySave
    <2>5. /\ DOMAIN w \subseteq {"bio", "migrationHistory", "previousEmail", "migrationExpiry",
                                 "currentEmailVerified", "newEmailVerified"}
          /\ "previousEmail" \notin DOMAIN w /\ "newEmailVerified" \notin DOMAIN w
      BY <2>4
    <2> HIDE DEF ++
    <2> QED BY <1>6, <2>2, <2>3, <2>4, <2>5
  <1>9. ASSUME FinaliseSaveBio(s) PROVE Sound
    <2>1. PICK w, d, q : /\ w = [bio |-> req[s].keep.bio, migrationHistory |-> req[s].doc.migrationHistory]
                         /\ d = w ++ (IF Live(u) THEN users[u] ELSE req[s].doc) /\ q = Idle
      OBVIOUS
    <2>2. Idle ++ req[s] = Idle
      BY <1>1, NothingLeft
    <2>3. \/ UNCHANGED store /\ Answer(s)
          \/ UNCHANGED store /\ ~Live(u) /\ req' = [req EXCEPT ![s] = q]
          \/ Live(u) /\ WriteRow(d) /\ req' = [req EXCEPT ![s] = q]
      BY <1>2, <1>4, <1>9, <2>1, <2>2 DEF FinaliseSaveBio, Save, Updated, Goto
    <2>4. UNCHANGED post /\ DOMAIN w = {"bio", "migrationHistory"}
      BY <1>9, <2>1 DEF FinaliseSaveBio
    <2>5. /\ DOMAIN w \subseteq {"bio", "migrationHistory", "previousEmail", "migrationExpiry",
                                 "currentEmailVerified", "newEmailVerified"}
          /\ "previousEmail" \notin DOMAIN w /\ "newEmailVerified" \notin DOMAIN w
      BY <2>4
    <2> HIDE DEF ++
    <2> QED BY <1>6, <2>1, <2>3, <2>4, <2>5
  <1>10. ASSUME CleanupSave(s) PROVE Sound
    <2>1. PICK w, d, q : /\ w = [previousEmail |-> None, migrationExpiry |-> 0,
                                 migrationHistory |-> req[s].doc.migrationHistory]
                         /\ d = w ++ (IF Live(u) THEN users[u] ELSE req[s].doc) /\ q = Idle
      OBVIOUS
    <2>2. Idle ++ req[s] = Idle
      BY <1>1, NothingLeft
    <2>3. \/ UNCHANGED store /\ Answer(s)
          \/ UNCHANGED store /\ ~Live(u) /\ req' = [req EXCEPT ![s] = q]
          \/ Live(u) /\ WriteRow(d) /\ req' = [req EXCEPT ![s] = q]
      BY <1>2, <1>4, <1>10, <2>1, <2>2 DEF CleanupSave, Save, Updated, Goto
    <2>4. UNCHANGED post /\ DOMAIN w = {"previousEmail", "migrationExpiry", "migrationHistory"}
          /\ w.previousEmail = None
      BY <1>10, <2>1 DEF CleanupSave
    <2> HIDE DEF ++
    <2> QED BY <1>6, <2>1, <2>3, <2>4
  <1>11. ASSUME Steady, VerifyMigrationSave(s) PROVE Sound
    <2>1. PICK flag : flag = IF req[s].op = "new" THEN [newEmailVerified |-> TRUE]
                             ELSE [currentEmailVerified |-> TRUE]
      OBVIOUS
    <2>2. PICK w, d, q : /\ w = flag ++ [migrationHistory |-> req[s].doc.migrationHistory]
                         /\ d = w ++ (IF Live(u) THEN users[u] ELSE req[s].doc)
                         /\ q = [pc |-> "readhistory", doc |-> d] ++ req[s]
      OBVIOUS
    <2>3. \/ UNCHANGED store /\ Answer(s)
          \/ UNCHANGED store /\ ~Live(u) /\ req' = [req EXCEPT ![s] = q]
          \/ Live(u) /\ WriteRow(d) /\ req' = [req EXCEPT ![s] = q]
      BY <1>2, <1>4, <1>11, <2>1, <2>2 DEF VerifyMigrationSave, Save, Updated, Goto
    <2>4. /\ DOMAIN w \subseteq {"newEmailVerified", "currentEmailVerified", "migrationHistory"}
          /\ "newEmailVerified" \in DOMAIN w => req[s].op = "new"
      BY <2>1, <2>2 DEF ++
    <2>5. UNCHANGED post /\ req[s].pc = "saveverified"
      BY <1>11 DEF VerifyMigrationSave
    <2>6. req[s].op = "new" => Used("new", u, req[s].doc.newEmailPending)
      BY <1>1, <1>2, <2>5 DEF Informed
    <2>7. Live(u) => users[u].newEmailPending \in {None, req[s].doc.newEmailPending}
      BY <1>2, <1>11, <2>5 DEF Steady
    <2> HIDE DEF ++
    <2> QED BY <1>6, <2>2, <2>3, <2>4, <2>5, <2>6, <2>7
  <1> QED BY <1>5, <1>7, <1>8, <1>9, <1>10, <1>11

\* The update of a finalisation: to the address whose link was used.
LEMMA FinaliseUpdateSound ==
    ASSUME Honesty, NEW s \in Slots, FinaliseUpdate(s) PROVE Sound
  <1>1. Informed(req[s]) /\ DOMAIN req[s] = DOMAIN Idle /\ req[s].pc = "finupdate" /\ UNCHANGED post
    BY DEF Honesty, Informed, FinaliseUpdate
  <1>2. PICK u, e : u = req[s].doc.id /\ e = req[s].e
    OBVIOUS
  <1>3. e \in Emails /\ Used("new", u, e) /\ u \in 0..MaxUsers
    BY <1>1, <1>2 DEF Informed, Typed
  <1>4. PICK w, d : /\ w = Moved(req[s].doc, e) ++ [migrationTokenExpires |-> 0,
                                                    tokenVersion |-> req[s].doc.tokenVersion + 1]
                    /\ d = w ++ (IF Live(u) THEN users[u] ELSE req[s].doc)
    OBVIOUS
  <1>5. PICK q, c : q = [pc |-> "finprofile", doc |-> d] ++ req[s] /\ c = [pc |-> "duplicate"] ++ req[s]
    OBVIOUS
  <1>6. \/ UNCHANGED store /\ Answer(s)
        \/ UNCHANGED store /\ req' = [req EXCEPT ![s] = c]
        \/ Live(u) /\ WriteRow(d) /\ req' = [req EXCEPT ![s] = q]
    BY <1>2, <1>4, <1>5 DEF FinaliseUpdate, Goto
  <1>7. /\ DOMAIN w = {"previousEmail", "email", "migrationExpiry", "lastMigrationDate",
                       "isEmailVerified", "newEmailPending", "migrationToken", "currentEmailVerified",
                       "newEmailVerified", "migrationTokenExpires", "tokenVersion"}
        /\ w.email = e /\ w.newEmailPending = None /\ w.migrationToken = 0
    BY <1>4 DEF Moved, ++
  <1>8. /\ DOMAIN q = DOMAIN Idle /\ q.pc = "finprofile" /\ q.doc = d
        /\ q.sd = req[s].sd /\ q.keep = req[s].keep /\ q.x = req[s].x /\ q.e = req[s].e
    BY <1>1, <1>5 DEF ++, Idle
  <1>9. /\ DOMAIN c = DOMAIN Idle /\ c.pc = "duplicate" /\ c.doc = req[s].doc
        /\ c.sd = req[s].sd /\ c.keep = req[s].keep /\ c.x = req[s].x /\ c.e = req[s].e
    BY <1>1, <1>5 DEF ++, Idle
  <1>10. Informed(c)
    BY <1>1, <1>2, <1>3, <1>9 DEF Informed
  <1>11. Sends
    BY <1>1, Generates DEF post
  <1> HIDE DEF ++
  <1>12. Live(u) => Lawful(users[u], d)
    <2> SUFFICES ASSUME Live(u) PROVE Lawful(users[u], d)
      OBVIOUS
    <2>1. d = w ++ users[u]
      BY <1>4
    <2>2. d.email = e /\ e # None
      BY <1>3, <1>7, <2>1, Columns, StoreAssumption
    <2>3. Proved(d.email)'
      BY <1>1, <1>3, <2>2 DEF Used, Proved, post
    <2> QED BY <1>3, <1>7, <2>1, <2>2, <2>3, Columns DEF Lawful, Honest
  <1>13. DOMAIN w \subseteq DOMAIN NoRow \ {"id"} /\ "provider" \notin DOMAIN w
    BY <1>7 DEF NoRow
  <1>14. CASE UNCHANGED store /\ req' = [req EXCEPT ![s] = c]
    BY <1>1, <1>10, <1>14, ReadingOn
  <1>15. CASE \/ UNCHANGED store /\ Answer(s)
              \/ Live(u) /\ WriteRow(d) /\ req' = [req EXCEPT ![s] = q]
    BY <1>2, <1>3, <1>4, <1>8, <1>11, <1>12, <1>13, <1>15, SaveSound
  <1> QED BY <1>6, <1>14, <1>15

------------------------------------------------------------------------------
(* The index, accounts that go, and the rest of the world *)

\* an entry of the index that is right
Points(key, x) ==
    /\ x \in 0..MaxUsers /\ x < nextId
    /\ \A kind \in {"primary", "previous", "pending"}, e \in Emails : key = <<kind, e>> => Rooted(x, e)

\* What the index may be changed to.
LEMMA Repointed ==
    ASSUME Honesty, Grows, nextId' \in 1..(MaxUsers + 1), gen' \in 0..MaxTokens,
           DOMAIN idx' = Keys,
           \A key \in Keys : \/ idx'[key] = idx[key] \/ idx'[key].user = 0
                             \/ \E x \in 0..MaxUsers : idx'[key].user = x /\ Points(key, x)
    PROVE  HonestIndex'
  <1>1. 0 \in 0..MaxUsers /\ 0 < nextId /\ \A e : Rooted(0, e)
    BY StoreAssumption, SMTT(30) DEF Honesty, HonestRows, Rooted, Live
  <1>2. ASSUME NEW key \in Keys PROVE \E x \in 0..MaxUsers : idx'[key].user = x /\ Points(key, x)
    <2>1. CASE idx'[key] = idx[key]
      <3>1. PICK x : x = idx[key].user
        OBVIOUS
      <3>2. x \in 0..MaxUsers /\ Points(key, x)
        BY <3>1 DEF Points, Honesty, HonestIndex
      <3> QED BY <2>1, <3>1, <3>2
    <2>2. CASE idx'[key].user = 0
      BY <1>1, <2>2 DEF Points
    <2> QED BY <2>1, <2>2
  <1>3. \A key \in Keys : idx'[key].user \in 0..MaxUsers /\ idx'[key].user < nextId'
    <2> TAKE key \in Keys
    <2>1. PICK x \in 0..MaxUsers : idx'[key].user = x /\ Points(key, x)
      BY <1>2
    <2>2. x < nextId'
      BY <2>1, Lasting DEF Points, Honesty
    <2> QED BY <2>1, <2>2
  <1>4. \A kind \in {"primary", "previous", "pending"}, e \in Emails : Rooted(idx[<<kind, e>>].user, e)'
    <2> TAKE kind \in {"primary", "previous", "pending"}, e \in Emails
    <2>1. <<kind, e>> \in Keys
      BY DEF Keys
    <2>2. PICK x \in 0..MaxUsers : idx'[<<kind, e>>].user = x /\ Points(<<kind, e>>, x)
      BY <1>2, <2>1
    <2>3. x < nextId /\ Rooted(x, e)
      BY <2>2 DEF Points
    <2>4. Rooted(x, e)'
      BY <2>3, Lasting DEF Honesty
    <2> QED BY <2>2, <2>4
  <1> QED BY <1>3, <1>4 DEF HonestIndex

\* What does not change the rows and the links.
LEMMA StillRows ==
    ASSUME Honesty, UNCHANGED <<users, nextId, post>>
    PROVE  /\ Grows /\ nextId' \in 1..(MaxUsers + 1) /\ gen' \in 0..MaxTokens
           /\ HonestRows' /\ HonestLinks'
  <1>1. Grows /\ nextId' \in 1..(MaxUsers + 1) /\ gen' \in 0..MaxTokens
    BY StoreAssumption DEF Grows, Honesty, HonestRows, Live, post
  <1>2. links' = links /\ \A l \in opened' \ opened : l.secret = 0
    BY DEF post
  <1>3. HonestLinks' /\ \A r : Honest(r) => Honest(r)'
    BY <1>1, <1>2, StillHonest
  <1>4. \A u \in Users : Typed(users[u])' /\ users'[u] = users[u] /\ (Live(u)' <=> Live(u))
    BY DEF Honesty, HonestRows, Typed, Live
  <1>5. ASSUME NEW u \in Users, Live(u) PROVE users'[u].id = u /\ Honest(users[u])'
    <2>1. PICK r : r = users[u]
      OBVIOUS
    <2>2. Honest(r)' /\ r.id = u
      BY <1>3, <1>5, <2>1 DEF Honesty, HonestRows
    <2> QED BY <1>4, <2>1, <2>2
  <1>6. HonestRows'
    BY <1>1, <1>4, <1>5 DEF Honesty, HonestRows
  <1> QED BY <1>1, <1>3, <1>6

\* The requests stay where they are.
LEMMA Staying ==
    ASSUME Honesty, Grows, HonestRows', HonestLinks', HonestIndex', UNCHANGED req
    PROVE  Honesty'
  <1>1. ASSUME NEW t \in Slots PROVE Informed(req[t])'
    <2>1. PICK r : r = req[t]
      OBVIOUS
    <2>2. Informed(r)
      BY <2>1 DEF Honesty
    <2>3. Informed(r)'
      BY <2>2, StillInformed DEF Honesty, HonestRows
    <2>4. req'[t] = r
      BY <2>1
    <2> QED BY <2>3, <2>4
  <1>2. DOMAIN req' = Slots
    BY DEF Honesty
  <1>3. \A t \in Slots : Informed(req[t])'
    BY <1>1
  <1> QED BY <1>2, <1>3 DEF Honesty

\* A request that changes the index.
LEMMA IndexSound ==
    ASSUME Honesty, UNCHANGED <<users, nextId, post>>, NEW s \in Slots, NEW q, Informed(q),
           req' = [req EXCEPT ![s] = q], DOMAIN idx' = Keys,
           \A key \in Keys : \/ idx'[key] = idx[key] \/ idx'[key].user = 0
                             \/ \E x \in 0..MaxUsers : idx'[key].user = x /\ Points(key, x)
    PROVE  Sound
  <1>1. /\ Grows /\ nextId' \in 1..(MaxUsers + 1) /\ gen' \in 0..MaxTokens
        /\ HonestRows' /\ HonestLinks'
    BY StillRows
  <1>2. HonestIndex'
    BY <1>1, Repointed
  <1>3. Informed(q)'
    BY <1>1, StillInformed DEF Honesty
  <1> QED BY <1>1, <1>2, <1>3, Moving DEF Sound

\* The sync looks for its next key.
LEMMA SyncSelectSound ==
    ASSUME Honesty, NEW s \in Slots, SyncSelect(s) PROVE Sound
  <1>1. Informed(req[s]) /\ DOMAIN req[s] = DOMAIN Idle /\ req[s].pc = "sync" /\ Reads /\ Due(s) # {}
    BY Onward DEF SyncSelect
  <1>2. PICK k : k = Min(Due(s))
    OBVIOUS
  <1>3. k \in 1..4 /\ Wanted(req[s].sd, k)
    <2>1. Due(s) \subseteq 1..4
      BY <1>1 DEF Due, Informed
    <2>2. k \in Due(s)
      BY <1>1, <1>2, <2>1, FirstDue
    <2> QED BY <2>1, <2>2 DEF Due
  <1>4. PICK found : found = (idx[KeyOf(req[s].sd, k)] # NoEntry)
    OBVIOUS
  <1>5. PICK q : q = [pc |-> "upsert", k |-> k, found |-> found] ++ req[s]
    OBVIOUS
  <1>6. /\ DOMAIN q = DOMAIN Idle /\ q.pc = "upsert" /\ q.k = k /\ q.cont = req[s].cont
        /\ q.doc = req[s].doc /\ q.sd = req[s].sd /\ q.keep = req[s].keep /\ q.x = req[s].x
        /\ q.e = req[s].e /\ q.op = req[s].op /\ q.id = req[s].id /\ q.link = req[s].link
    BY <1>1, <1>5 DEF ++, Idle
  <1>7. /\ k = 2 => q.sd.previousEmail # None
        /\ k = 3 => q.sd.newEmailPending # None
        /\ k = 4 => q.sd.provider # Local
    BY <1>3, <1>6 DEF Wanted, InGrace, InPending
  <1>8. Informed(q)
    BY <1>1, <1>3, <1>6, <1>7 DEF Informed, Continuations
  <1> HIDE DEF ++
  <1>9. Goto(s, [pc |-> "upsert", k |-> k, found |-> found])
    BY <1>2, <1>4 DEF SyncSelect
  <1> QED BY <1>1, <1>5, <1>8, <1>9, Onward

\* The keys a document asks for, once its addresses are proved.
LEMMA KeyPoints ==
    ASSUME NEW d, Typed(d), Rooted(d.id, d.email), NEW k \in 1..4,
           d.previousEmail # None \/ d.newEmailPending # None => Sure(d.id),
           k = 2 => d.previousEmail # None, k = 3 => d.newEmailPending # None,
           k = 4 => d.provider # Local
    PROVE  Points(KeyOf(d, k), d.id)
  <1>1. d.id \in 0..MaxUsers /\ d.id < nextId
    BY DEF Typed
  <1>2. CASE k = 1
    BY <1>1, <1>2 DEF KeyOf, Points
  <1>3. CASE k \in {2, 3}
    <2>1. Sure(d.id)
      BY <1>3
    <2>2. \A e : Rooted(d.id, e)
      BY <2>1 DEF Sure, Rooted
    <2> QED BY <1>1, <2>2 DEF Points
  <1>4. CASE k = 4
    <2>1. KeyOf(d, k) = d.provider /\ d.provider \in OAuthIds
      BY <1>4 DEF KeyOf, Typed
    <2>2. \A kind \in {"primary", "previous", "pending"}, e \in Emails : d.provider # <<kind, e>>
      BY <2>1, StoreAssumption DEF OAuthIds
    <2> QED BY <1>1, <2>1, <2>2 DEF Points
  <1> QED BY <1>2, <1>3, <1>4

\* The index after the backfill of the first n users.
LEMMA BackfillPoints ==
    ASSUME HonestRows, NEW n \in 0..MaxUsers, NEW ix, NEW b, b = Backfill(ix, n)
    PROVE  /\ DOMAIN b = Keys
           /\ \A key \in Keys : \/ b[key] = ix[key] \/ b[key].user = 0
                                \/ \E x \in 0..MaxUsers : b[key].user = x /\ Points(key, x)
  <1> DEFINE done == {u \in 1..n : Live(u)}
             takers(key) == {u \in done : key \in expectedKeysForUser(users[u])}
             entry(d, key) == EntryOf(d, CHOOSE k \in 1..4 : Wanted(d, k) /\ KeyOf(d, k) = key)
  <1>1. b = [key \in Keys |-> IF takers(key) # {} THEN entry(users[Max(takers(key))], key)
                              ELSE IF ix[key].user \in done THEN NoEntry ELSE ix[key]]
    BY DEF Backfill
  <1>2. ASSUME NEW key \in Keys, takers(key) # {}
        PROVE  \E x \in 0..MaxUsers : b[key].user = x /\ Points(key, x)
    <2>1. PICK u \in takers(key) : u = Max(takers(key))
      <3>1. takers(key) \subseteq 1..n /\ n \in Nat
        BY StoreAssumption
      <3> HIDE DEF takers
      <3> QED BY <1>2, <3>1, LastIn
    <2>2. u \in Users /\ Live(u) /\ key \in expectedKeysForUser(users[u])
      BY <2>1, StoreAssumption DEF Users
    <2>3. \E k \in 1..4 : Wanted(users[u], k) /\ KeyOf(users[u], k) = key
      BY <2>2 DEF expectedKeysForUser
    <2>4. PICK k \in 1..4 : /\ Wanted(users[u], k) /\ KeyOf(users[u], k) = key
                            /\ entry(users[u], key) = EntryOf(users[u], k)
      BY <2>3
    <2>5. b[key] = EntryOf(users[u], k)
      BY <1>1, <1>2, <2>1, <2>4
    <2>6. Typed(users[u]) /\ users[u].id = u /\ Honest(users[u]) /\ u \in 0..MaxUsers
      BY <2>2 DEF HonestRows, Users
    <2>7. b[key].user = u
      BY <2>5, <2>6 DEF EntryOf
    <2>8. Rooted(u, users[u].email)
      BY DEF Rooted
    <2>9. users[u].previousEmail # None \/ users[u].newEmailPending # None => Sure(u)
      BY <2>6 DEF Honest, Sure
    <2>10. /\ k = 2 => users[u].previousEmail # None
           /\ k = 3 => users[u].newEmailPending # None
           /\ k = 4 => users[u].provider # Local
      BY <2>4 DEF Wanted, InGrace, InPending
    <2>11. Points(key, u)
      BY <2>4, <2>6, <2>8, <2>9, <2>10, KeyPoints
    <2> QED BY <2>6, <2>7, <2>11
  <1>3. ASSUME NEW key \in Keys, takers(key) = {} PROVE b[key] = ix[key] \/ b[key].user = 0
    <2>1. b[key] = IF ix[key].user \in done THEN NoEntry ELSE ix[key]
      BY <1>1, <1>3
    <2> HIDE DEF done
    <2> QED BY <2>1 DEF NoEntry
  <1>4. DOMAIN b = Keys
    BY <1>1
  <1> HIDE DEF takers
  <1> QED BY <1>2, <1>3, <1>4

\* It writes the entry.
LEMMA SyncWriteSound ==
    ASSUME Honesty, NEW s \in Slots, SyncWrite(s) PROVE Sound
  <1>1. Informed(req[s]) /\ DOMAIN req[s] = DOMAIN Idle /\ req[s].pc = "upsert"
        /\ UNCHANGED <<users, nextId, post>>
    BY ZenonT(30) DEF Honesty, Informed, SyncWrite
  <1>2. PICK d, k, key : d = req[s].sd /\ k = req[s].k /\ key = KeyOf(d, k)
    OBVIOUS
  <1>3. /\ k \in 1..4 /\ Typed(d) /\ Rooted(d.id, d.email)
        /\ k = 2 => d.previousEmail # None
        /\ k = 3 => d.newEmailPending # None
        /\ k = 4 => d.provider # Local
        /\ d.previousEmail # None \/ d.newEmailPending # None => Sure(d.id)
    BY <1>1, <1>2 DEF Informed
  <1>4. Points(key, d.id)
    BY <1>2, <1>3, KeyPoints
  <1>5. PICK entry : entry = EntryOf(d, k)
    OBVIOUS
  <1>6. entry.user = d.id /\ d.id \in 0..MaxUsers
    BY <1>3, <1>5 DEF EntryOf, Typed
  <1>7. DOMAIN idx' = Keys /\ \A j \in Keys : idx'[j] = idx[j] \/ (j = key /\ idx'[j] = entry)
    <2>1. idx' = idx \/ idx' = [idx EXCEPT ![key] = entry]
      BY <1>2, <1>5 DEF SyncWrite
    <2> QED BY <2>1 DEF Honesty, HonestIndex
  <1>8. \A j \in Keys : \/ idx'[j] = idx[j] \/ idx'[j].user = 0
                        \/ \E x \in 0..MaxUsers : idx'[j].user = x /\ Points(j, x)
    BY <1>4, <1>6, <1>7
  <1>9. PICK q : q = [pc |-> "sync", k |-> k + 1] ++ req[s]
    OBVIOUS
  <1>10. /\ DOMAIN q = DOMAIN Idle /\ q.pc = "sync" /\ q.k = k + 1 /\ q.cont = req[s].cont
         /\ q.doc = req[s].doc /\ q.sd = req[s].sd /\ q.keep = req[s].keep /\ q.x = req[s].x
         /\ q.e = req[s].e /\ q.op = req[s].op /\ q.id = req[s].id /\ q.link = req[s].link
    BY <1>1, <1>9 DEF ++, Idle
  <1>11. Informed(q)
    <2>1. q.k \in 1..5
      BY <1>3, <1>10
    <2> QED BY <1>1, <1>10, <2>1 DEF Informed, Continuations
  <1> HIDE DEF ++
  <1>12. req' = [req EXCEPT ![s] = Idle] \/ req' = [req EXCEPT ![s] = q]
    BY <1>2, <1>9 DEF SyncWrite, Answer, Goto
  <1> QED BY <1>1, <1>7, <1>8, <1>11, <1>12, IdleInformed, IndexSound

\* A request that deletes entries, and goes on.
LEMMA PruneSound ==
    ASSUME Honesty, NEW s \in Slots, NEW x, NEW kept, idx' = Prune(idx, x, kept),
           UNCHANGED <<users, nextId, post>>, NEW pc, GoOn(s, pc, <<>>),
           \/ req[s].pc = "sync" /\ pc = req[s].cont
           \/ req[s].pc = "finrelease" /\ pc = "findelete"
           \/ req[s].pc = "recrelease" /\ pc = "recdelete"
    PROVE  Sound
  <1>1. Informed(req[s]) /\ DOMAIN req[s] = DOMAIN Idle
    BY DEF Honesty, Informed
  <1>2. PICK q : q = [pc |-> pc] ++ req[s]
    OBVIOUS
  <1>3. /\ DOMAIN q = DOMAIN Idle /\ q.pc = pc /\ q.cont = req[s].cont
        /\ q.doc = req[s].doc /\ q.sd = req[s].sd /\ q.keep = req[s].keep /\ q.x = req[s].x
        /\ q.e = req[s].e /\ q.op = req[s].op /\ q.id = req[s].id /\ q.link = req[s].link
    BY <1>1, <1>2 DEF ++, Idle
  <1>4. Informed(q)
    <2>1. req[s].pc = "sync" => pc \in Continuations
      BY <1>1 DEF Informed
    <2> QED BY <1>1, <1>3, <2>1 DEF Informed, Continuations
  <1> HIDE DEF ++
  <1>5. req' = [req EXCEPT ![s] = Idle] \/ req' = [req EXCEPT ![s] = q]
    BY <1>2, GoOnTo DEF Answer, Goto
  <1>6. DOMAIN idx' = Keys /\ \A key \in Keys : idx'[key] = idx[key] \/ idx'[key].user = 0
    BY DEF Prune, NoEntry
  <1> QED BY <1>4, <1>5, <1>6, IdleInformed, IndexSound

\* The steps that do.
LEMMA PrunesSound ==
    ASSUME Honesty, NEW s \in Slots, SyncPrune(s) \/ FinaliseRelease(s) \/ RecoverRelease(s)
    PROVE  Sound
  <1> HIDE DEF ++
  <1>1. CASE SyncPrune(s)
    BY <1>1, PruneSound DEF SyncPrune
  <1>2. CASE FinaliseRelease(s)
    BY <1>2, PruneSound DEF FinaliseRelease, Release
  <1>3. CASE RecoverRelease(s)
    BY <1>3, PruneSound DEF RecoverRelease, Release
  <1> QED BY <1>1, <1>2, <1>3

\* A row that is deleted.
LEMMA Gone ==
    ASSUME Honesty, UNCHANGED <<nextId, post>>, NEW x, users' = [users EXCEPT ![x] = NoRow]
    PROVE  /\ Grows /\ nextId' \in 1..(MaxUsers + 1) /\ gen' \in 0..MaxTokens
           /\ HonestRows' /\ HonestLinks'
  <1>1. \A u \in Users : users'[u] = users[u] \/ (u = x /\ users'[u] = NoRow)
    BY DEF Honesty, HonestRows
  <1>2. NoRow.email = None
    BY DEF NoRow
  <1>3. \A u \in Users : Live(u)' => Live(u) /\ users'[u] = users[u]
    BY <1>1, <1>2 DEF Live
  <1>4. Grows /\ nextId' \in 1..(MaxUsers + 1) /\ gen' \in 0..MaxTokens
    BY <1>3, StoreAssumption DEF Grows, Honesty, HonestRows, post
  <1>5. links' = links /\ \A l \in opened' \ opened : l.secret = 0
    BY DEF post
  <1>6. HonestLinks' /\ \A r : Honest(r) => Honest(r)'
    BY <1>4, <1>5, StillHonest
  <1>7. Typed(NoRow)'
    <2>1. Typed(NoRow)
      BY IdleInformed DEF Informed, Idle
    <2> QED BY <1>4, <2>1, Lasting DEF Honesty
  <1>8. ASSUME NEW u \in Users
        PROVE  /\ Typed(users[u])'
               /\ IF Live(u)' THEN users'[u].id = u /\ Honest(users[u])' ELSE users'[u] = NoRow
    <2>1. CASE users'[u] = users[u]
      <3>1. PICK r : r = users[u]
        OBVIOUS
      <3>2. Typed(r) /\ (IF Live(u) THEN r.id = u /\ Honest(r) ELSE r = NoRow)
        BY <3>1 DEF Honesty, HonestRows
      <3>3. Typed(r)'
        BY <1>4, <3>2, Lasting DEF Honesty
      <3>4. Live(u)' <=> Live(u)
        BY <2>1 DEF Live
      <3>5. users'[u] = r
        BY <2>1, <3>1
      <3> QED BY <1>6, <3>2, <3>3, <3>4, <3>5
    <2>2. CASE users'[u] = NoRow
      BY <1>2, <1>7, <2>2 DEF Live
    <2> QED BY <1>1, <2>1, <2>2
  <1>9. HonestRows'
    BY <1>4, <1>8 DEF Honesty, HonestRows
  <1> QED BY <1>4, <1>6, <1>9

\* The finalisation and its recovery delete the account that has the new address.
LEMMA DeletesSound ==
    ASSUME Honesty, NEW s \in Slots, FinaliseDelete(s) \/ RecoverDelete(s)
    PROVE  Sound
  <1>1. Informed(req[s]) /\ DOMAIN req[s] = DOMAIN Idle
    BY DEF Honesty, Informed
  <1>2. PICK x : x = req[s].x
    OBVIOUS
  <1>3. PICK q : q = [pc |-> "finupdate"] ++ req[s]
    OBVIOUS
  <1>4. /\ DOMAIN q = DOMAIN Idle /\ q.pc = "finupdate" /\ q.cont = req[s].cont
        /\ q.doc = req[s].doc /\ q.sd = req[s].sd /\ q.keep = req[s].keep /\ q.x = req[s].x
        /\ q.e = req[s].e /\ q.op = req[s].op /\ q.id = req[s].id /\ q.link = req[s].link
    BY <1>1, <1>3 DEF ++, Idle
  <1>5. req[s].pc = "findelete" => Informed(q)
    BY <1>1, <1>4 DEF Informed
  <1> HIDE DEF ++
  <1>6. /\ users' = [users EXCEPT ![x] = NoRow] /\ idx' = Prune(idx, x, {})
        /\ UNCHANGED <<nextId, post>>
        /\ \/ req[s].pc = "findelete" /\ req' = [req EXCEPT ![s] = q]
           \/ req' = [req EXCEPT ![s] = Idle]
    BY <1>2, <1>3, GoOnTo DEF FinaliseDelete, RecoverDelete, Delete, Answer, Goto
  <1>7. /\ Grows /\ nextId' \in 1..(MaxUsers + 1) /\ gen' \in 0..MaxTokens
        /\ HonestRows' /\ HonestLinks'
    BY <1>6, Gone
  <1>8. DOMAIN idx' = Keys /\ \A key \in Keys : idx'[key] = idx[key] \/ idx'[key].user = 0
    BY <1>6 DEF Prune, NoEntry
  <1>9. HonestIndex'
    BY <1>7, <1>8, Repointed
  <1>10. Informed(Idle)' /\ (Informed(q) => Informed(q)')
    BY <1>7, IdleInformed, StillInformed DEF Honesty
  <1>11. CASE req[s].pc = "findelete" /\ req' = [req EXCEPT ![s] = q]
    BY <1>5, <1>7, <1>9, <1>10, <1>11, Moving DEF Sound
  <1>12. CASE req' = [req EXCEPT ![s] = Idle]
    BY <1>7, <1>9, <1>10, <1>12, Moving DEF Sound
  <1> QED BY <1>6, <1>11, <1>12

\* A row that is inserted.
LEMMA Added ==
    ASSUME Honesty, Sends, nextId <= MaxUsers, NEW r, DOMAIN r = DOMAIN NoRow, r.id = nextId,
           r.email # None, r.provider \in OAuthIds \cup {Local},
           r.emailVerificationToken \notin Secrets, r.migrationToken \notin Secrets,
           users' = [users EXCEPT ![nextId] = r], nextId' = nextId + 1
    PROVE  /\ Grows /\ nextId' \in 1..(MaxUsers + 1) /\ gen' \in 0..MaxTokens
           /\ nextId \in Users /\ ~Live(nextId) /\ users'[nextId] = r /\ Typed(r)'
           /\ \A v \in Users \ {nextId} : users'[v] = users[v] /\ (Live(v)' <=> Live(v))
           /\ Honest(r)' => HonestRows'
  <1>1. /\ nextId \in Users /\ nextId' \in 1..(MaxUsers + 1) /\ gen \in 0..MaxTokens /\ gen' \in 0..MaxTokens
        /\ nextId <= nextId' /\ gen <= gen' /\ nextId < nextId' /\ 0 \notin Users
        /\ nextId \in 0..MaxUsers
    BY StoreAssumption, SMTT(30) DEF Sends, Honesty, HonestRows, Users
  <1>2. ~Live(nextId) /\ users'[nextId] = r
    <2>1. Typed(users[nextId]) /\ (Live(nextId) => users[nextId].id = nextId)
      BY <1>1 DEF Honesty, HonestRows
    <2>2. Live(nextId) => nextId < nextId
      BY <2>1 DEF Typed
    <2> QED BY <1>1, <2>2 DEF Honesty, HonestRows
  <1>3. \A v \in Users \ {nextId} : users'[v] = users[v] /\ (Live(v)' <=> Live(v))
    BY <1>1 DEF Honesty, HonestRows, Live
  <1>4. Grows
    <2>1. nextId <= nextId' /\ gen <= gen' /\ opened \subseteq opened'
      BY <1>1 DEF Sends
    <2>2. ASSUME NEW v \in Users, v = nextId
          PROVE  /\ ~Live(v) /\ nextId <= v
                 /\ users'[v].emailVerificationToken \notin Secrets
                 /\ users'[v].migrationToken \notin Secrets
      BY <1>1, <1>2, <2>2
    <2>3. ASSUME NEW v \in Users, v # nextId, Live(v)'
          PROVE  Live(v) /\ users'[v] = users[v]
      BY <1>3, <2>3
    <2> QED BY <2>1, <2>2, <2>3 DEF Grows
  <1>5. Typed(r)'
    BY <1>1 DEF Typed
  <1>6. ASSUME Honest(r)' PROVE HonestRows'
    <2>1. ASSUME NEW v \in Users
          PROVE  /\ Typed(users[v])'
                 /\ IF Live(v)' THEN users'[v].id = v /\ Honest(users[v])' ELSE users'[v] = NoRow
      <3>1. CASE v = nextId
        <4>1. users'[v] = r /\ Live(v)'
          BY <1>1, <1>2, <3>1 DEF Live
        <4> QED BY <1>5, <1>6, <3>1, <4>1
      <3>2. CASE v # nextId
        <4>1. PICK d : d = users[v]
          OBVIOUS
        <4>2. Typed(d) /\ (IF Live(v) THEN d.id = v /\ Honest(d) ELSE d = NoRow)
          BY <4>1 DEF Honesty, HonestRows
        <4>3. Typed(d)' /\ (Honest(d) => Honest(d)')
          BY <1>1, <1>4, <4>2, Lasting, StillHonest DEF Honesty
        <4>4. users'[v] = d /\ (Live(v)' <=> Live(v))
          BY <1>3, <3>2, <4>1
        <4> QED BY <4>2, <4>3, <4>4
      <3> QED BY <3>1, <3>2
    <2> QED BY <1>1, <2>1 DEF Honesty, HonestRows
  <1> QED BY <1>1, <1>2, <1>3, <1>4, <1>5, <1>6

\* A request that inserts a row, and has the index follow.
LEMMA InsertSound ==
    ASSUME Honesty, NEW s \in Slots, NEW r0, NEW cont, InsertAndSync(s, r0, cont), Sends,
           DOMAIN r0 = DOMAIN NoRow, r0.email \in Emails, r0.provider \in OAuthIds \cup {Local},
           r0.previousEmail = None, r0.newEmailPending = None, r0.migrationToken = 0,
           r0.isEmailVerified => nextId' = nextId \/ Proved(r0.email)',
           r0.emailVerificationToken = 0 \/ (r0.emailVerificationToken = gen' /\ gen' = gen + 1),
           cont \in {"idle", "mailverify", "saveverified"},
           cont = "mailverify" => /\ r0.email = req[s].e
                                  /\ r0.emailVerificationToken = gen' /\ gen' = gen + 1,
           cont = "saveverified" => req[s].pc = "placeholder"
    PROVE  Sound
  <1>1. Informed(req[s]) /\ DOMAIN req[s] = DOMAIN Idle
    BY DEF Honesty, Informed
  <1>2. PICK r, c : r = [r0 EXCEPT !.id = nextId] /\ c = req[s]
    OBVIOUS
  <1>3. PICK q : q = SyncFrom(r, cont) ++ req[s]
    OBVIOUS
  <1>4. /\ DOMAIN q = DOMAIN Idle /\ q.pc = "sync" /\ q.k = 1 /\ q.cont = cont /\ q.sd = r
        /\ q.doc = c.doc /\ q.keep = c.keep /\ q.x = c.x /\ q.e = c.e /\ q.op = c.op
    BY <1>1, <1>2, <1>3 DEF SyncFrom, ++, Idle
  <1>5. /\ DOMAIN r = DOMAIN NoRow /\ r.id = nextId /\ \A f \in DOMAIN NoRow \ {"id"} : r[f] = r0[f]
    BY <1>2 DEF NoRow
  <1>6. /\ r.email = r0.email /\ r.provider = r0.provider /\ r.previousEmail = None
        /\ r.newEmailPending = None /\ r.migrationToken = 0
        /\ r.isEmailVerified = r0.isEmailVerified
        /\ r.emailVerificationToken = r0.emailVerificationToken
    BY <1>5 DEF NoRow
  <1> HIDE DEF ++
  <1>7. \/ UNCHANGED store /\ req' = [req EXCEPT ![s] = Idle]
        \/ /\ nextId <= MaxUsers /\ users' = [users EXCEPT ![nextId] = r] /\ nextId' = nextId + 1
           /\ UNCHANGED idx /\ req' = [req EXCEPT ![s] = q]
    BY <1>2, <1>3 DEF InsertAndSync, Answer, Goto
  <1>8. CASE UNCHANGED store /\ req' = [req EXCEPT ![s] = Idle]
    <2>1. Stores(0, NoRow) /\ 0 \in 0..MaxUsers /\ ~Live(0)
      BY <1>8, StoreAssumption DEF Stores, Live
    <2>2. Grows /\ nextId' \in 1..(MaxUsers + 1) /\ gen' \in 0..MaxTokens
      BY <2>1, StoreGrows
    <2>3. Informed(Idle)'
      BY <2>2, IdleInformed, StillInformed DEF Honesty
    <2> QED BY <1>8, <2>1, <2>3, Storing
  <1>9. CASE /\ nextId <= MaxUsers /\ users' = [users EXCEPT ![nextId] = r] /\ nextId' = nextId + 1
             /\ UNCHANGED idx /\ req' = [req EXCEPT ![s] = q]
    <2>1. /\ r.email \in Emails /\ r.email # None
          /\ r.emailVerificationToken \notin Secrets /\ r.migrationToken \notin Secrets
      BY <1>6, FreshSecret, StoreAssumption
    <2>2. /\ Grows /\ nextId' \in 1..(MaxUsers + 1) /\ gen' \in 0..MaxTokens
          /\ nextId \in Users /\ users'[nextId] = r /\ Typed(r)'
          /\ \A v \in Users \ {nextId} : users'[v] = users[v]
          /\ Honest(r)' => HonestRows'
      BY <1>5, <1>6, <1>9, <2>1, Added
    <2>3. Honest(r)'
      <3>1. nextId' # nextId
        BY <1>9 DEF Honesty, HonestRows
      <3>2. r.isEmailVerified => Proved(r.email)'
        BY <1>6, <3>1
      <3>3. {r.emailVerificationToken, r.migrationToken} \subseteq {0} \cup Secrets'
        BY <1>6, FreshSecret
      <3> QED BY <1>6, <3>2, <3>3 DEF Honest
    <2>4. HonestIndex' /\ HonestLinks'
      BY <1>9, <2>2, StillHonest DEF Sends
    <2>5. Rooted(r.id, r.email)'
      BY <1>5, <2>2 DEF Rooted
    <2>6. cont = "mailverify" => /\ r.emailVerificationToken \in Secrets'
                                 /\ VerifyTold(r.emailVerificationToken, c.e)' /\ c.e \in Emails
      <3> SUFFICES ASSUME cont = "mailverify"
                   PROVE  /\ r.emailVerificationToken \in Secrets'
                          /\ VerifyTold(r.emailVerificationToken, c.e)' /\ c.e \in Emails
        OBVIOUS
      <3>1. r.emailVerificationToken = gen' /\ gen' \in Secrets' /\ gen' \notin Secrets /\ gen' # 0
        BY <1>6, FreshSecret
      <3>2. \A v \in Users : users'[v].emailVerificationToken = gen' => v = nextId
        BY <2>2, <3>1, FreshSecret
      <3>3. c.e = r.email /\ c.e \in Emails
        <4>1. r0.email = req[s].e /\ r0.email \in Emails
          OBVIOUS
        <4>2. c.e = req[s].e /\ r.email = r0.email
          BY <1>2, <1>6
        <4> QED BY <4>1, <4>2
      <3>4. \A v \in Users : users'[v].emailVerificationToken = gen' => Rooted(v, c.e)'
        <4> TAKE v \in Users
        <4> HAVE users'[v].emailVerificationToken = gen'
        <4>1. v = nextId
          BY <3>2
        <4>2. users'[v].email = c.e
          BY <2>2, <3>3, <4>1
        <4> QED BY <4>2 DEF Rooted
      <3> QED BY <3>1, <3>3, <3>4 DEF VerifyTold
    <2>7. cont = "saveverified" => c.op = "new" /\ Used("new", c.doc.id, c.doc.newEmailPending)'
      <3>1. cont = "saveverified" => c.op = "new" /\ Used("new", c.doc.id, c.doc.newEmailPending)
        BY <1>1, <1>2 DEF Informed
      <3> QED BY <2>2, <3>1, Lasting DEF Honesty
    <2>8. /\ Typed(c.doc)' /\ Typed(c.keep)' /\ c.x \in 0..MaxUsers /\ c.x < nextId'
      <3>1. Typed(c.doc) /\ Typed(c.keep) /\ c.x \in 0..MaxUsers /\ c.x < nextId
        BY <1>1, <1>2 DEF Informed
      <3> QED BY <2>2, <3>1, Lasting DEF Honesty
    <2>9. cont \in {"idle", "mailverify", "saveverified"}
      OBVIOUS
    <2>10. Informed(q)'
      BY <1>4, <1>6, <2>2, <2>5, <2>6, <2>7, <2>8, <2>9 DEF Informed, Continuations
    <2> QED BY <1>9, <2>2, <2>3, <2>4, <2>10, Moving DEF Sound
  <1> QED BY <1>7, <1>8, <1>9

\* The three that do: register, the OAuth sign-in of somebody new, and the
\* placeholder of verifyNewEmail.
LEMMA InsertsSound ==
    ASSUME Honesty, ~AutoVerifyEmail, NEW s \in Slots
    PROVE  /\ RegisterSave(s) => Sound
           /\ OAuthCreate(s) => Sound
           /\ VerifyNewPlaceholder(s) => Sound
  <1>1. Informed(req[s])
    BY DEF Honesty
  <1>2. /\ NoRow.previousEmail = None /\ NoRow.newEmailPending = None /\ NoRow.migrationToken = 0
        /\ NoRow.isEmailVerified = FALSE /\ NoRow.emailVerificationToken = 0 /\ NoRow.provider = Local
    BY DEF NoRow
  <1>3. ASSUME RegisterSave(s), req[s].doc.id = 0 PROVE Sound
    <2>1. PICK r0 : r0 = Credentials ++ [NoRow EXCEPT !.email = req[s].e]
      OBVIOUS
    <2>2. /\ req[s].pc = "create" /\ CanGenerate /\ gen' = Fresh /\ UNCHANGED <<links, opened>>
          /\ InsertAndSync(s, r0, "mailverify")
      BY <1>3, <2>1 DEF RegisterSave
    <2>3. /\ DOMAIN r0 = DOMAIN NoRow /\ r0.email = req[s].e /\ r0.provider = Local
          /\ r0.previousEmail = None /\ r0.newEmailPending = None /\ r0.migrationToken = 0
          /\ r0.isEmailVerified = FALSE /\ r0.emailVerificationToken = Fresh
      BY <2>1 DEF Credentials, ++, NoRow
    <2> HIDE DEF ++
    <2>4. Sends /\ gen' = gen + 1
      BY <2>2, Generates
    <2>5. req[s].e \in Emails
      BY <1>1, <2>2 DEF Informed
    <2> QED BY <2>2, <2>3, <2>4, <2>5, InsertSound
  <1>4. ASSUME OAuthCreate(s) PROVE Sound
    <2>1. PICK r0 : r0 = [NoRow EXCEPT !.email = req[s].e, !.provider = req[s].id,
                                       !.isEmailVerified = TRUE]
      OBVIOUS
    <2>2. /\ req[s].pc = "oauthcreate" /\ UNCHANGED <<links, gen>> /\ InsertAndSync(s, r0, "idle")
          /\ IF nextId' # nextId THEN Vouch(nextId, req[s].e) ELSE UNCHANGED opened
      BY <1>4, <2>1 DEF OAuthCreate
    <2>3. /\ DOMAIN r0 = DOMAIN NoRow /\ r0.email = req[s].e /\ r0.provider = req[s].id
          /\ r0.previousEmail = None /\ r0.newEmailPending = None /\ r0.migrationToken = 0
          /\ r0.emailVerificationToken = 0
      BY <2>1 DEF NoRow
    <2>4. PICK k : k = [kind |-> "oauth", secret |-> 0, u |-> nextId, to |-> req[s].e]
      OBVIOUS
    <2>5. opened' = opened \/ (nextId' # nextId /\ opened' = opened \cup {k})
      BY <2>2, <2>4 DEF Vouch
    <2>6. nextId' = nextId \/ Proved(r0.email)'
      BY <2>2, <2>3, <2>4 DEF Vouch, Proved
    <2>7. Sends
      BY <2>2, <2>4, <2>5, StoreAssumption DEF Sends, Honesty, HonestRows
    <2>8. req[s].e \in Emails /\ req[s].id \in OAuthIds
      BY <1>1, <2>2 DEF Informed
    <2> QED BY <2>2, <2>3, <2>6, <2>7, <2>8, InsertSound
  <1>5. ASSUME VerifyNewPlaceholder(s) PROVE Sound
    <2>1. PICK r0 : r0 = [NoRow EXCEPT !.email = req[s].e]
      OBVIOUS
    <2>2. req[s].pc = "placeholder" /\ UNCHANGED post /\ InsertAndSync(s, r0, "saveverified")
      BY <1>5, <2>1 DEF VerifyNewPlaceholder
    <2>3. /\ DOMAIN r0 = DOMAIN NoRow /\ r0.email = req[s].e /\ r0.provider = Local
          /\ r0.previousEmail = None /\ r0.newEmailPending = None /\ r0.migrationToken = 0
          /\ r0.isEmailVerified = FALSE /\ r0.emailVerificationToken = 0
      BY <2>1 DEF NoRow
    <2>4. Sends
      BY <2>2, Generates DEF post
    <2>5. req[s].e \in Emails
      BY <1>1, <2>2 DEF Informed
    <2> QED BY <2>2, <2>3, <2>4, <2>5, InsertSound
  <1> QED BY <1>3, <1>4, <1>5, AccountSavesSound

\* The clock, the sweeper, a restart, the backfill, and a new version of a row.
LEMMA WorldSound ==
    ASSUME Honesty, \/ Tick \/ Sweep \/ Crash \/ Boot \/ UNCHANGED vars
                    \/ \E u \in Users : BumpVersion(u)
    PROVE  Sound
  <1>1. CASE Tick \/ UNCHANGED vars
    <2>1. UNCHANGED <<store, post, req>>
      BY <1>1 DEF Tick, vars
    <2>2. /\ Grows /\ nextId' \in 1..(MaxUsers + 1) /\ gen' \in 0..MaxTokens
          /\ HonestRows' /\ HonestLinks'
      BY <2>1, StillRows DEF store
    <2>3. HonestIndex'
      BY <2>1, <2>2, StillHonest DEF store
    <2> QED BY <2>1, <2>2, <2>3, Staying DEF Sound
  <1>2. CASE Sweep
    <2>1. UNCHANGED <<users, nextId, post, req>>
      BY <1>2 DEF Sweep
    <2>2. /\ Grows /\ nextId' \in 1..(MaxUsers + 1) /\ gen' \in 0..MaxTokens
          /\ HonestRows' /\ HonestLinks'
      BY <2>1, StillRows
    <2>3. DOMAIN idx' = Keys /\ \A key \in Keys : idx'[key] = idx[key] \/ idx'[key].user = 0
      BY <1>2 DEF Sweep, NoEntry
    <2>4. HonestIndex'
      BY <2>2, <2>3, Repointed
    <2> QED BY <2>1, <2>2, <2>4, Staying DEF Sound
  <1>3. CASE Crash
    <2>1. UNCHANGED <<store, post>> /\ req' = [s \in Slots |-> Idle]
      BY <1>3 DEF Crash
    <2>2. /\ Grows /\ nextId' \in 1..(MaxUsers + 1) /\ gen' \in 0..MaxTokens
          /\ HonestRows' /\ HonestLinks'
      BY <2>1, StillRows DEF store
    <2>3. HonestIndex'
      BY <2>1, <2>2, StillHonest DEF store
    <2>4. Informed(Idle)'
      BY <2>2, IdleInformed, StillInformed DEF Honesty
    <2>5. ASSUME NEW s \in Slots PROVE Informed(req[s])'
      <3>1. req'[s] = Idle
        BY <2>1
      <3> QED BY <2>4, <3>1
    <2>6. DOMAIN req' = Slots /\ \A s \in Slots : Informed(req[s])'
      BY <2>1, <2>5
    <2> QED BY <2>2, <2>3, <2>6 DEF Honesty, Sound
  <1>4. CASE Boot
    <2>1. UNCHANGED <<users, nextId, post, req>>
      BY <1>4 DEF Boot
    <2>2. PICK n \in 0..MaxUsers : idx' = Backfill(idx, n)
      BY <1>4 DEF Boot
    <2>3. /\ Grows /\ nextId' \in 1..(MaxUsers + 1) /\ gen' \in 0..MaxTokens
          /\ HonestRows' /\ HonestLinks'
      BY <2>1, StillRows
    <2>4. DOMAIN idx' = Keys
          /\ \A key \in Keys : \/ idx'[key] = idx[key] \/ idx'[key].user = 0
                               \/ \E x \in 0..MaxUsers : idx'[key].user = x /\ Points(key, x)
      BY <2>2, BackfillPoints DEF Honesty
    <2>5. HonestIndex'
      BY <2>3, <2>4, Repointed
    <2> QED BY <2>1, <2>3, <2>5, Staying DEF Sound
  <1>5. CASE \E u \in Users : BumpVersion(u)
    <2>1. PICK u \in Users : BumpVersion(u)
      BY <1>5
    <2>2. PICK p, r : p = users[u] /\ r = [users[u] EXCEPT !.tokenVersion = @ + 1]
      OBVIOUS
    <2>3. /\ Live(u) /\ users' = [users EXCEPT ![u] = r] /\ UNCHANGED <<nextId, idx, req, post>>
      BY <2>1, <2>2 DEF BumpVersion
    <2>4. Typed(p) /\ p.id = u /\ p.email # None /\ Honest(p) /\ u \in 0..MaxUsers
      BY <2>2, <2>3 DEF Honesty, HonestRows, Typed, Live
    <2>5. DOMAIN r = DOMAIN NoRow /\ \A f \in DOMAIN NoRow \ {"tokenVersion"} : r[f] = p[f]
      BY <2>2, <2>4 DEF Typed
    <2>6. /\ r.id = p.id /\ r.email = p.email /\ r.provider = p.provider
          /\ r.isEmailVerified = p.isEmailVerified /\ r.previousEmail = p.previousEmail
          /\ r.newEmailPending = p.newEmailPending /\ r.newEmailVerified = p.newEmailVerified
          /\ r.emailVerificationToken = p.emailVerificationToken
          /\ r.migrationToken = p.migrationToken
      BY <2>5 DEF NoRow
    <2>7. Honest(r) /\ Typed(r) /\ Fair(p, r)
      BY <2>4, <2>5, <2>6 DEF Honest, Typed, Fair
    <2>8. Stores(u, r) /\ Sends
      BY <2>2, <2>3, <2>7, Generates DEF Stores, post
    <2>9. Grows /\ nextId' \in 1..(MaxUsers + 1) /\ gen' \in 0..MaxTokens
      BY <2>4, <2>8, StoreGrows
    <2>10. Honest(r)'
      BY <2>7, <2>9, StillHonest
    <2>11. Grows /\ HonestRows' /\ HonestLinks' /\ HonestIndex'
      BY <2>4, <2>8, <2>10, Stored
    <2> QED BY <2>3, <2>11, Staying DEF Sound
  <1> QED BY <1>1, <1>2, <1>3, <1>4, <1>5

------------------------------------------------------------------------------
(* Theorems about requests that overlap *)

\* The accounts of Seed, their index and the links they have used.
LEMMA InitHonest ==
    ASSUME Init PROVE Honesty
  <1>1. Seed \in Seq(Row) /\ Len(Seed) \in Nat /\ DOMAIN Seed = 1..Len(Seed)
    BY SeedAssumption
  <1>2. /\ nextId = Len(Seed) + 1 /\ links = {} /\ gen = 0 /\ MaxTokens \in Nat /\ MaxUsers \in Nat
        /\ nextId \in 1..(MaxUsers + 1) /\ gen \in 0..MaxTokens /\ 0 < nextId
    BY <1>1, StoreAssumption DEF Init
  <1>3. ASSUME NEW u \in DOMAIN Seed
        PROVE  /\ Seed[u] \in Row /\ Seed[u].id = u /\ u \in Users /\ u < nextId
               /\ Seed[u].email # None
    BY <1>1, <1>2, <1>3, SeedAssumption, StoreAssumption DEF Users
  <1>4. \A u \in Users : \/ u \in DOMAIN Seed /\ users[u] = Seed[u]
                         \/ users[u] = NoRow
    BY <1>1 DEF Init, Users
  <1>5. \A l \in opened : l.secret = 0
    <2> SUFFICES ASSUME NEW l \in opened PROVE l.secret = 0
      OBVIOUS
    <2>1. PICK u \in DOMAIN Seed :
              \/ l = [kind |-> "verify", secret |-> 0, u |-> u, to |-> Seed[u].email]
              \/ l = [kind |-> "current", secret |-> 0, u |-> u, to |-> Seed[u].email]
              \/ l = [kind |-> "new", secret |-> 0, u |-> u, to |-> Seed[u].newEmailPending]
      BY DEF Init
    <2> QED BY <2>1
  <1>6. ASSUME NEW u \in DOMAIN Seed PROVE Honest(Seed[u])
    <2>1. ASSUME Seed[u].isEmailVerified PROVE Proved(Seed[u].email)
      <3>1. PICK l : l = [kind |-> "verify", secret |-> 0, u |-> u, to |-> Seed[u].email]
        OBVIOUS
      <3>2. l \in opened
        BY <2>1, <3>1 DEF Init
      <3> QED BY <3>1, <3>2 DEF Proved
    <2>2. ASSUME Seed[u].newEmailVerified PROVE Used("new", u, Seed[u].newEmailPending)
      <3>1. PICK l : l = [kind |-> "new", secret |-> 0, u |-> u, to |-> Seed[u].newEmailPending]
        OBVIOUS
      <3>2. l \in opened
        BY <2>2, <3>1 DEF Init
      <3> QED BY <3>1, <3>2 DEF Used
    <2>3. /\ Seed[u].previousEmail # None \/ Seed[u].newEmailPending # None => Seed[u].isEmailVerified
          /\ {Seed[u].emailVerificationToken, Seed[u].migrationToken} \subseteq {0, MaxTokens + 1}
      BY SeedAssumption
    <2>4. Seed[u].newEmailPending \in Emails \cup {None}
      BY <1>3 DEF Row
    <2> QED BY <1>3, <2>1, <2>2, <2>3, <2>4 DEF Honest, Secrets
  <1>7. Typed(NoRow) /\ NoRow.email = None
    <2>1. NoRow.id = 0 /\ NoRow.provider = Local /\ NoRow.email = None
      BY DEF NoRow
    <2> QED BY <1>2, <2>1 DEF Typed
  <1>8. ASSUME NEW u \in Users
        PROVE  /\ Typed(users[u])
               /\ IF Live(u) THEN users[u].id = u /\ Honest(users[u]) ELSE users[u] = NoRow
    <2>1. CASE u \in DOMAIN Seed /\ users[u] = Seed[u]
      <3>1. DOMAIN Seed[u] = DOMAIN NoRow /\ Seed[u].provider \in OAuthIds \cup {Local}
        BY <1>3, <2>1 DEF Row, NoRow
      <3>2. Typed(Seed[u])
        BY <1>2, <1>3, <2>1, <3>1 DEF Typed, Users
      <3>3. Live(u)
        BY <1>2, <1>3, <2>1 DEF Live, Users
      <3> QED BY <1>3, <1>6, <2>1, <3>2, <3>3
    <2>2. CASE users[u] = NoRow
      BY <1>7, <2>2 DEF Live
    <2> QED BY <1>4, <2>1, <2>2
  <1>9. HonestRows
    BY <1>2, <1>8 DEF HonestRows, Init
  <1>10. HonestLinks
    BY <1>2, <1>5 DEF HonestLinks
  <1>11. HonestIndex
    <2>1. PICK ix : ix = [key \in Keys |-> NoEntry]
      OBVIOUS
    <2>2. idx = Backfill(ix, MaxUsers) /\ MaxUsers \in 0..MaxUsers
      BY <1>2, <2>1 DEF Init
    <2>3. /\ DOMAIN idx = Keys
          /\ \A key \in Keys : \/ idx[key] = ix[key] \/ idx[key].user = 0
                               \/ \E x \in 0..MaxUsers : idx[key].user = x /\ Points(key, x)
      BY <1>9, <2>2, BackfillPoints
    <2>4. \A key \in Keys : \E x \in 0..MaxUsers : idx[key].user = x /\ Points(key, x)
      <3>1. \A key : Points(key, 0)
        BY <1>2 DEF Points, Rooted, Live
      <3>2. \A key \in Keys : ix[key].user = 0
        BY <2>1 DEF NoEntry
      <3> QED BY <1>2, <2>3, <3>1, <3>2
    <2>5. \A kind \in {"primary", "previous", "pending"}, e \in Emails : <<kind, e>> \in Keys
      BY DEF Keys
    <2> QED BY <2>3, <2>4, <2>5 DEF HonestIndex, Points
  <1>12. Informed(Idle)
    <2>1. 0 \in 0..MaxUsers
      BY <1>2
    <2> QED BY <1>2, <1>7, <2>1 DEF Informed, Idle
  <1> QED BY <1>9, <1>10, <1>11, <1>12 DEF Honesty, Init

\* Every step keeps the invariant, and what the requests have found out.
LEMMA StepSound ==
    ASSUME Honesty, Steady, ~AutoVerifyEmail, [Next]_vars PROVE Sound
  <1>1. ASSUME NEW s \in Slots, AccountStart(s) PROVE Sound
    <2>1. ASSUME NEW e \in Emails, Register(s, e) PROVE Sound
      BY <2>1, StartsSound
    <2>5. ASSUME NEW e \in Emails, ResendVerification(s, e) PROVE Sound
      BY <2>5, StartsSound
    <2>2. CASE \E l \in links : VerifyEmail(s, l)
      BY <2>2, ConsumeSound
    <2>3. CASE \E id \in OAuthIds : OAuth(s, id)
      BY <2>3, StartsSound
    <2>4. CASE \E u \in Users : UpdateBio(s, u)
      BY <2>4, StartsSound
    <2> QED BY <1>1, <2>1, <2>2, <2>3, <2>4, <2>5 DEF AccountStart
  <1>2. ASSUME NEW s \in Slots, AccountStep(s) PROVE Sound
    BY <1>2, ResolveSound, SyncSelectSound, SyncWriteSound, PrunesSound, AccountReadsSound,
       InsertsSound, MailSound, PlainSavesSound, AccountSavesSound, OAuthByIdSound
    DEF AccountStep
  <1>3. ASSUME NEW s \in Slots, MigrationStart(s) PROVE Sound
    <2>1. CASE \E u \in Users, e \in Emails : InitiateMigration(s, u, e)
      BY <2>1, StartsSound
    <2>2. CASE \E l \in links : VerifyMigration(s, l)
      BY <2>2, ConsumeSound
    <2>3. ASSUME NEW u \in Users, ResendMigration(s, u) PROVE Sound
      BY <2>3, StartsSound
    <2>5. ASSUME NEW u \in Users, FinalizeMigration(s, u) PROVE Sound
      BY <2>5, StartsSound
    <2>6. ASSUME NEW u \in Users, CleanupExpired(s, u) PROVE Sound
      BY <2>6, StartsSound
    <2>4. CASE \E e \in Emails : Login(s, e)
      BY <2>4, StartsSound
    <2> QED BY <1>3, <2>1, <2>2, <2>3, <2>4, <2>5, <2>6 DEF MigrationStart
  <1>4. ASSUME NEW s \in Slots, MigrationStep(s) PROVE Sound
    BY <1>4, MigrationReadsSound, MigrationSavesSound, MailSound, VerifyMigrationFindSound,
       InsertsSound, PlainSavesSound, VerifyHistoryReadSound, FinaliseReadSound, PrunesSound,
       DeletesSound, FinaliseUpdateSound, FinaliseReloadSound
    DEF MigrationStep
  <1>5. ASSUME NEW s \in Slots, StatementFails(s) PROVE Sound
    BY <1>5, StatementFailsSound
  <1>6. CASE \/ Tick \/ Sweep \/ Crash \/ Boot \/ UNCHANGED vars
             \/ \E u \in Users : BumpVersion(u)
    BY <1>6, WorldSound
  <1> QED BY <1>1, <1>2, <1>3, <1>4, <1>5, <1>6 DEF Next

\* Of requests that do not overlap the hypothesis of the next theorems holds.
THEOREM SteadyInSequence ==
    ASSUME OneAtATime
    PROVE  Spec => []Steady
  <1>1. Init => Inv
    BY InitGood
  <1>2. Inv /\ [Next]_vars => Inv'
    BY NextGood DEF Good
  <1>3. Inv => Steady
    <2> SUFFICES ASSUME Inv, NEW s \in Slots, req[s].pc \in {"saveverified", "finalise"}
                 PROVE  users[req[s].doc.id].newEmailPending = req[s].doc.newEmailPending
      BY DEF Steady
    <2>1. Knows(req[s])
      BY Facts
    <2>2. Current(req[s].doc)
      BY <2>1 DEF Knows, Documents
    <2> QED BY <2>2 DEF Current
  <1> QED BY <1>1, <1>2, <1>3, PTL DEF Spec

\* What holds along a run in which no migration is replaced under a request.
LEMMA HonestAlways ==
    ASSUME ~AutoVerifyEmail
    PROVE  Spec /\ []Steady => []Honesty /\ [][Grows]_vars
  <1>1. Init => Honesty
    BY InitHonest
  <1>2. Honesty /\ Steady /\ [Next]_vars => Honesty' /\ [Grows]_vars
    BY StepSound DEF Sound
  <1> QED BY <1>1, <1>2, PTL DEF Spec

\* Whatever the requests are that overlap, an account that counts as verified has
\* an address somebody proved to have: unless a migration is replaced by another
\* while its verification or finalisation is under way.
THEOREM ProvedOverlapping ==
    ASSUME ~AutoVerifyEmail
    PROVE  Spec /\ []Steady => []VerifiedIsProved
  <1>1. Honesty => VerifiedIsProved
    BY DEF Honesty, HonestRows, Honest, VerifiedIsProved, Proved
  <1> QED BY <1>1, HonestAlways, PTL

\* The address of an account only changes to one whose link that account has used,
\* whatever the requests are that overlap.
THEOREM MovesOverlapping ==
    ASSUME ~AutoVerifyEmail
    PROVE  Spec /\ []Steady =>
               [][\A u \in Users : Live(u) /\ Live(u)' /\ users'[u].email # users[u].email =>
                      Used("new", u, users[u].email)']_vars
  <1>1. Grows => \A u \in Users : Live(u) /\ Live(u)' /\ users'[u].email # users[u].email =>
                      Used("new", u, users[u].email)'
    BY DEF Grows
  <1> QED BY <1>1, HonestAlways, PTL

==============================================================================
