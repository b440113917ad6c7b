--------------------------- MODULE AccountsProofs ---------------------------
(***************************************************************************)
(* Theorems about the accounts (IdentityStore, Accounts and Migration) for *)
(* any number of addresses, accounts, identities, tokens and crashes, one  *)
(* request at a time: between its awaits a request may find the service    *)
(* dead, a statement on the index refused, an entry swept, a deadline      *)
(* passed or a new token version, but no other request changes what it has *)
(* read.  What overlapping requests can break is for the runs to show.     *)
(*                                                                         *)
(* The invariant Inv says, from the rows outwards, what the rows, the      *)
(* mailed links, the index and the request under way know of each other.   *)
(* A step of the program is Good when it keeps Inv and does what the       *)
(* action properties allow; there is one lemma for each step, and what     *)
(* kinds of steps share (reading, mailing, writing a row, inserting one,   *)
(* the sync) is proved before.                                             *)
(***************************************************************************)
EXTENDS Migration, Sums

\* there is one slot for a request
OneAtATime == \A s, t \in Slots : s = t

------------------------------------------------------------------------------
(* The rows *)

Secrets == (1..gen) \cup {MaxTokens + 1}

\* the link of that kind mailed for account u to address e was used
Used(kind, u, e) == \E l \in opened : l.kind = kind /\ l.u = u /\ l.to = e
Proved(e) == \E l \in opened : l.to = e

\* no statement on the index is refused
Reliable == MaxFaults = 0

\* the configuration does not skip the links
Trusted == ~AutoVerifyEmail

\* The columns of one row agree with each other and with the links used.
Consistent(r) ==
    /\ r.id < nextId
    /\ r.newEmailPending # None \/ r.previousEmail # None => r.isEmailVerified
    /\ r.currentEmailVerified \/ r.newEmailVerified \/ r.migrationToken # 0
           => r.newEmailPending # None
    /\ r.currentEmailVerified => Used("current", r.id, r.email)
    /\ r.newEmailVerified => Used("new", r.id, r.newEmailPending)
    /\ r.isEmailVerified /\ r.provider = Local => r.emailVerificationToken = 0
    /\ {r.emailVerificationToken, r.migrationToken} \subseteq {0} \cup Secrets
    /\ movedAt[r.id] <= r.lastMigrationDate /\ r.lastMigrationDate <= now
    /\ r.newEmailPending # None /\ movedAt[r.id] # 0 => now - movedAt[r.id] >= Cooldown
    /\ Reliable => r.email \notin {r.newEmailPending, r.previousEmail}
    /\ Trusted /\ r.isEmailVerified => Proved(r.email)

\* No two rows share an address, an identity or a secret.
Apart(r, q) ==
    /\ r.email # q.email
    /\ r.provider = q.provider => r.provider = Local
    /\ r.emailVerificationToken = q.emailVerificationToken => r.emailVerificationToken = 0
    /\ r.migrationToken = q.migrationToken => r.migrationToken = 0

Rows ==
    /\ \A u \in Users : Live(u) => users[u].id = u /\ Consistent(users[u])
    /\ \A u \in Users : ~Live(u) => users[u] = NoRow
    /\ \A u \in Users : u >= nextId => ~Live(u) /\ movedAt[u] = 0
    /\ \A u, v \in Users : Live(u) /\ Live(v) /\ u # v => Apart(users[u], users[v])

\* A link says what the row with its secret says.
Tells(l, r) ==
    /\ l.kind \in {"current", "new"} /\ r.migrationToken = l.secret =>
           /\ l.u = r.id
           /\ l.to = IF l.kind = "current" THEN r.email ELSE r.newEmailPending
    /\ l.kind = "verify" /\ r.emailVerificationToken = l.secret /\ Trusted /\ r.provider = Local =>
           l.to = r.email

Mails ==
    /\ \A l \in links : l.secret # 0
    /\ \A l \in links \cup opened : l.secret \in {0} \cup Secrets
    /\ \A l \in links \cup opened, u \in Users :
           l.secret # 0 /\ Live(u) => Tells(l, users[u])

------------------------------------------------------------------------------
(* The index *)

Permanent == ({"primary"} \X Emails) \cup OAuthIds

\* what the index is to say of a row for good
Wants(r, key) == key = <<"primary", r.email>> \/ (r.provider # Local /\ key = r.provider)

Settled(u) == \A key \in Permanent : idx[key].user = u <=> Wants(users[u], key)

\* no statement has failed since the last backfill, or none ever does
Intact == up /\ (~broken \/ Reliable)

\* request r is between a change of row u and the end of the sync
Behind(r, u) == \/ r.pc \in {"sync", "upsert"} /\ r.sd.id = u
                \/ r.pc = "finprofile" /\ r.doc.id = u
                \/ r.pc \in {"findelete", "recdelete"} /\ r.x = u

\* An entry that is not an identity names an account whose address it is, or a
\* verified one: only those have a former or a pending address, or have moved.
Fits(r, key) == key \in OAuthIds \/ key = <<"primary", r.email>> \/ r.isEmailVerified

Index ==
    /\ \A key \in Keys :
        /\ idx[key].user = 0 => idx[key] = NoEntry
        /\ idx[key].user # 0 => Live(idx[key].user)
        /\ key \in Permanent => idx[key].exp = 0
        /\ idx[key].user # 0 => Fits(users[idx[key].user], key)
    /\ Intact => \A u \in Users : Live(u) => Settled(u) \/ \E s \in Slots : Behind(req[s], u)

------------------------------------------------------------------------------
(* A request: what it knows at an await *)

\* the document d is what row d.id contains, as far as the proofs look at it;
\* the version may have changed, and queries leave the password out
Current(d) ==
    /\ d.id \in Users /\ Live(d.id)
    /\ LET r == users[d.id] IN
        /\ d.email = r.email /\ d.isEmailVerified = r.isEmailVerified
        /\ d.provider = r.provider
        /\ d.emailVerificationToken = r.emailVerificationToken
        /\ d.previousEmail = r.previousEmail
        /\ d.newEmailPending = r.newEmailPending
        /\ d.migrationToken = r.migrationToken
        /\ d.currentEmailVerified = r.currentEmailVerified
        /\ d.newEmailVerified = r.newEmailVerified
        /\ d.bio = r.bio

\* where it will be once the index is in sync
Stage(r) == IF r.pc \in {"sync", "upsert"} THEN r.cont ELSE r.pc

Continuations == {"idle", "mailverify", "strategy", "mailmigrate", "saveverified", "checkbio"}

Fields(r) ==
    /\ DOMAIN r = DOMAIN Idle
    /\ r.doc \in Row /\ r.sd \in Row /\ r.keep \in Row
    /\ r.x \in 0..MaxUsers /\ r.k \in 1..5
    /\ r.cont \in Continuations \cup {"oauthuser", "loginuser"}
    /\ r.id \in OAuthIds \cup {Local}
    /\ r.e \in Emails \cup {None}
    /\ r.pc \in {"sync", "upsert"} => r.cont \in Continuations
    /\ r.pc = "resolve" => r.k # 4 /\ r.k # 5 /\ r.cont \in {"oauthuser", "loginuser"}

InFinalise == {"finlookup", "finexists", "finrelease", "findelete", "finupdate",
               "finreload", "finsave", "duplicate", "recover", "recrelease", "recdelete"}
InInitiate == {"initlookup", "initexists", "initreload", "initsave"}
InVerifyNew == {"newlookup", "newexists", "placeholder"}
InOAuth    == {"oauthid", "oauthuser", "oauthprimary", "oauthprimaryuser", "oauthcreate"}
InRegister == {"holder", "lookup", "taken", "create"}

WithDocument ==
    InFinalise \cup InInitiate \cup InVerifyNew \cup
    {"reverifysave", "saveverify", "takeover", "strategy", "oauthprimary",
     "oauthprimaryuser", "findbio", "savebio", "resendsave", "saveverified",
     "readhistory", "savehistory", "bothverified", "finalise", "finprofile",
     "checkbio", "savebio2", "loginsave", "cleanup"}

WithAddress ==
    InFinalise \cup InInitiate \cup InVerifyNew \cup InOAuth \cup InRegister \cup
    {"mailverify", "reverify", "reverifysave", "resolve", "takeover", "finprofile",
     "loginuser", "loginsave"}

\* it may still insert a row, or generate a secret
Inserting(r) == \/ r.pc \in InRegister \cup InOAuth \cup InVerifyNew
                \/ r.pc = "resolve" /\ r.cont = "oauthuser"
                \/ r.pc = "findmigration" /\ r.op = "new"
Generating(r) == r.pc \in InRegister \cup InInitiate \cup {"reverify", "reverifysave", "resendsave"}

\* the account x that holds the address e, as a look at the index found
Holder(r) ==
    IF r.x = 0 THEN \A u \in Users : users[u].email # r.e
    ELSE Live(r.x) /\ users[r.x].email = r.e

\* the rows a request holds, and the accounts it found for the address
Documents(r) ==
    LET g == Stage(r) IN
    /\ g \in WithDocument => Current(r.doc)
    /\ g = "create" /\ r.doc.id # 0 => Current(r.doc) /\ ~r.doc.isEmailVerified
    /\ g \in {"mailverify", "mailmigrate"} => Current(r.sd)
    /\ g \in WithAddress => r.e \in Emails
    /\ g = "mailverify" /\ ~AutoVerifyEmail => r.sd.emailVerificationToken # 0
    /\ g = "mailmigrate" => r.sd.newEmailPending # None /\ r.sd.migrationToken # 0
    /\ g = "reverifysave" => ~r.doc.isEmailVerified /\ r.doc.provider = Local
    /\ g = "saveverify" => r.doc.provider = Local
    /\ g = "resendsave" => r.doc.newEmailPending # None
    /\ g \in {"oauthprimary", "oauthprimaryuser"} => r.doc.isEmailVerified
    /\ g \in {"create", "reverifysave"} /\ r.doc.id # 0 => users[r.doc.id].email = r.e
    /\ g = "mailverify" => r.sd.email = r.e
    /\ g \in {"taken", "reverify", "oauthuser", "oauthprimaryuser"} /\ Live(r.x) =>
           users[r.x].email = r.e \/ users[r.x].isEmailVerified
    /\ g = "takeover" => users[r.doc.id].email = r.e \/ users[r.doc.id].isEmailVerified
    /\ g \in InOAuth \cup {"takeover"} => r.id \in OAuthIds
    /\ g = "resolve" /\ r.cont = "oauthuser" => r.id \in OAuthIds
    /\ g = "savehistory" => r.keep.migrationHistory # <<>>
    /\ g \in (InFinalise \ {"finreload"}) \cup {"finprofile", "checkbio", "savebio2"} =>
           r.keep.bio = r.doc.bio /\ r.keep.provider = r.doc.provider

\* a migration: what has been promised, mailed and used
Migrating(r) ==
    LET g == Stage(r)
        row == users[r.doc.id]
    IN
    /\ g \in InInitiate =>
           /\ row.isEmailVerified /\ row.newEmailPending = None
           /\ movedAt[r.doc.id] # 0 => now - movedAt[r.doc.id] >= Cooldown
    /\ g = "findmigration" =>
           /\ r.op \in {"current", "new"} /\ r.link # 0
           /\ \E l \in opened : l.kind = r.op /\ l.secret = r.link
    /\ g \in InVerifyNew => r.op = "new"
    /\ g \in InVerifyNew \cup {"saveverified"} =>
           /\ row.newEmailPending # None
           /\ IF r.op = "new" THEN Used("new", r.doc.id, row.newEmailPending)
              ELSE Used("current", r.doc.id, row.email)
    /\ g \in InVerifyNew \cup InFinalise \cup {"loginsave"} => row.newEmailPending = r.e
    /\ g \in InFinalise \cup {"finalise", "loginsave"} => BothVerified(row)
    /\ g \in {"finrelease", "findelete", "recrelease", "recdelete"} => r.x \in Users /\ r.x # r.doc.id

\* what it knows, as long as no statement is refused, of who has the new address
Lookups(r) ==
    LET g == Stage(r) IN
    /\ g \in {"initexists", "newexists", "finexists", "finrelease", "findelete",
              "recover", "recrelease", "recdelete"} => Holder(r)
    /\ g \in {"initreload", "initsave"} => users[r.doc.id].email # r.e

\* a link for the verification of an address has been used
Verifying(r) ==
    /\ r.pc = "findverify" => r.link # 0 /\ \E l \in opened : l.kind = "verify" /\ l.secret = r.link
    /\ Stage(r) = "saveverify" /\ Trusted => Proved(users[r.doc.id].email)

\* the keys of sd written so far, and what the request expects of the next
Syncing(r) ==
    /\ Current(r.sd)
    /\ r.expected \subseteq Keys
    /\ \A key \in Permanent : key \in r.expected <=> Wants(r.sd, key)
    /\ \A j \in {1, 4} : j < r.k /\ Wanted(r.sd, j) => idx[KeyOf(r.sd, j)].user = r.sd.id
    /\ r.pc = "upsert" =>
           /\ r.k \in 1..4
           /\ r.k = 2 => r.sd.previousEmail # None
           /\ r.k = 3 => r.sd.newEmailPending # None
           /\ r.k = 4 => r.sd.provider # Local
           /\ ~r.found => idx[KeyOf(r.sd, r.k)] = NoEntry
           /\ r.found /\ r.k \in {1, 4} => idx[KeyOf(r.sd, r.k)] # NoEntry

Knows(r) ==
    /\ Fields(r)
    /\ r.pc # "idle" => up
    /\ Inserting(r) => nextId <= MaxUsers
    /\ Generating(r) => gen < MaxTokens
    /\ Documents(r) /\ Migrating(r) /\ Verifying(r)
    /\ Reliable => Lookups(r)
    /\ r.pc \in {"sync", "upsert"} => Syncing(r)

Types ==
    /\ users \in [Users -> Row] /\ nextId \in 1..(MaxUsers + 1)
    /\ idx \in [Keys -> [user : 0..MaxUsers, exp : Ends]]
    /\ DOMAIN req = Slots
    /\ links \subseteq Link /\ opened \subseteq Link
    /\ gen \in 0..MaxTokens /\ now \in 1..MaxNow
    /\ up \in BOOLEAN /\ broken \in BOOLEAN
    /\ crashes \in 0..MaxCrashes /\ faults \in 0..MaxFaults
    /\ movedAt \in [Users -> 0..MaxNow]

\* the inductive invariant
Inv == /\ Types /\ Rows /\ Mails /\ Index
       /\ \A s \in Slots : Knows(req[s])

------------------------------------------------------------------------------
(* What a step does to what the properties look at *)

\* what the refinement mapping of Migration (Ownership) gives EmailOwnership
owner  == [u \in Users |-> IF Live(u) THEN users[u].email
                           ELSE IF u < nextId THEN "gone" ELSE "unborn"]

proved == {<<l.u, l.kind, l.to>> : l \in {k \in opened : k.kind \in {"current", "new"}}}

\* the action of MigrationsSpaced
Spaces == \A u \in Users : movedAt'[u] # movedAt[u] /\ movedAt[u] # 0 =>
                               movedAt'[u] - movedAt[u] >= Cooldown

\* the action of BioSurvives
KeepsBio == \A u \in Users : Live(u) /\ users[u].bio # users'[u].bio =>
                \/ users'[u] = NoRow
                \/ \E s \in Slots : At(s, "savebio")

\* a good step keeps the invariant and does what the action properties allow
Good == /\ Inv' /\ Spaces /\ KeepsBio
        /\ Reliable => Ownership!Next \/ UNCHANGED <<owner, proved>>

------------------------------------------------------------------------------
(* Steps of a request that write nothing *)

\* there is only one request
LEMMA OnlyRequest ==
    ASSUME OneAtATime, NEW s \in Slots, NEW r, DOMAIN req = Slots, req' = [req EXCEPT ![s] = r]
    PROVE  DOMAIN req' = Slots /\ \A t \in Slots : req'[t] = r /\ req[t] = req[s]
  BY DEF OneAtATime

\* What a request knows of the rows, the links and the history does not
\* depend on the index.
LEMMA Remembers ==
    ASSUME UNCHANGED <<users, nextId, post, now, up, movedAt>>, NEW r
    PROVE  /\ Documents(r) => Documents(r)'
           /\ Migrating(r) => Migrating(r)'
           /\ Verifying(r) => Verifying(r)'
           /\ Lookups(r) => Lookups(r)'
           /\ \A d : Current(d) => Current(d)'
           /\ \A d, k : Wanted(d, k)' = Wanted(d, k)
  <1> USE DEF post
  <1>1. \A d : Current(d) => Current(d)'
    BY DEF Current, Live
  <1>2. Documents(r) => Documents(r)'
    BY <1>1 DEF Documents, Stage, Live
  <1>3. Migrating(r) => Migrating(r)'
    BY DEF Migrating, Used, BothVerified, Stage
  <1>4. Verifying(r) => Verifying(r)'
    BY DEF Verifying, Proved, Trusted, Reliable, Stage
  <1>5. Lookups(r) => Lookups(r)'
    BY DEF Lookups, Holder, Live, Stage
  <1>6. \A d, k : Wanted(d, k)' = Wanted(d, k)
    BY DEF Wanted, InGrace, InPending
  <1> QED BY <1>1, <1>2, <1>3, <1>4, <1>5, <1>6

\* What a step keeps that leaves rows, index, links, clock and health alone.
LEMMA Untouched ==
    ASSUME UNCHANGED <<store, post, now, health, movedAt>>
    PROVE  /\ Types /\ DOMAIN req' = Slots => Types'
           /\ Rows => Rows'
           /\ Mails => Mails'
           /\ \A r : Knows(r) => Knows(r)'
           /\ \A u \in Users : Live(u)' = Live(u) /\ Settled(u)' = Settled(u)
           /\ Intact' = Intact
           /\ owner' = owner /\ proved' = proved
           /\ Spaces /\ KeepsBio
  <1> USE DEF store, health
  <1>1. Types /\ DOMAIN req' = Slots => Types'
    BY DEF Types, post
  <1>2. Rows => Rows'
    BY DEF Rows, Live, Apart, Consistent, Used, Secrets, Proved, Trusted, Reliable, post
  <1>3. Mails => Mails'
    BY DEF Mails, Tells, Secrets, Live, Trusted, Reliable, post
  <1>4. ASSUME NEW r, Knows(r) PROVE Knows(r)'
    <2>1. Syncing(r) => Syncing(r)'
      BY Remembers DEF Syncing
    <2> QED BY <1>4, <2>1, Remembers DEF Knows, Fields, Reliable, Inserting, Generating, post
  <1>5. /\ \A u \in Users : Live(u)' = Live(u) /\ Settled(u)' = Settled(u)
        /\ Intact' = Intact
        /\ owner' = owner /\ proved' = proved
        /\ Spaces /\ KeepsBio
    BY DEF Live, Settled, Wants, Intact, owner, proved, Spaces, KeepsBio, Reliable, post
  <1> QED BY <1>1, <1>2, <1>3, <1>4, <1>5

\* A step that only reads keeps the invariant, if the request knows what it
\* has read and is behind with every row it was behind with.
LEMMA Reading ==
    ASSUME Inv, OneAtATime, NEW s \in Slots, NEW r, Reads, req' = [req EXCEPT ![s] = r],
           Knows(r), \A u \in Users : Behind(req[s], u) => Behind(r, u)
    PROVE  Good
  <1>1. DOMAIN req' = Slots /\ \A t \in Slots : req'[t] = r /\ req[t] = req[s]
    BY OnlyRequest DEF Inv, Types
  <1>2. UNCHANGED <<store, post, now, health, movedAt>>
    BY DEF Reads
  <1>3. Types' /\ Rows' /\ Mails' /\ Knows(r)'
    BY <1>1, <1>2, Untouched DEF Inv
  <1>4. Index'
    <2>1. \A key \in Keys :
             /\ idx'[key].user = 0 => idx'[key] = NoEntry
             /\ idx'[key].user # 0 => Live(idx[key].user)'
             /\ key \in Permanent => idx'[key].exp = 0
             /\ idx'[key].user # 0 => Fits(users'[idx'[key].user], key)
      BY <1>2 DEF Inv, Index, store, Live
    <2>2. ASSUME Intact', NEW u \in Users, Live(u)'
          PROVE  Settled(u)' \/ \E t \in Slots : Behind(req'[t], u)
      <3>1. Intact /\ Live(u) /\ Settled(u)' = Settled(u)
        BY <1>2, <2>2, Untouched
      <3> QED BY <1>1, <3>1 DEF Inv, Index
    <2> QED BY <2>1, <2>2 DEF Index
  <1>5. Spaces /\ KeepsBio /\ UNCHANGED <<owner, proved>>
    BY <1>2, Untouched
  <1> QED BY <1>1, <1>3, <1>4, <1>5 DEF Inv, Good

\* request r is not between a change of a row and the end of its sync
InStep(r) == \A u \in Users : ~Behind(r, u)

\* What the index says of an address is right, once nothing is behind.
LEMMA Lookup ==
    ASSUME Inv, NEW s \in Slots, OneAtATime, NEW e \in Emails,
           NEW x, x = findUserIdByPrimaryEmail(e)
    PROVE  /\ x \in 0..MaxUsers
           /\ x # 0 => users[x].email = e \/ users[x].isEmailVerified
           /\ Reliable /\ up /\ InStep(req[s]) =>
                  IF x = 0 THEN \A u \in Users : users[u].email # e
                  ELSE Live(x) /\ users[x].email = e
  <1> DEFINE key == <<"primary", e>>
  <1>1. key \in Keys /\ key \in Permanent
    BY DEF Keys, Permanent
  <1>2. /\ idx[key].user \in 0..MaxUsers /\ idx[key].exp = 0
        /\ idx[key].user # 0 => Live(idx[key].user)
    BY <1>1 DEF Inv, Types, Index
  <1>3. x = idx[key].user
    BY <1>2 DEF findUserIdByPrimaryEmail, isActive
  <1>4. ASSUME Reliable, up, InStep(req[s])
        PROVE  IF x = 0 THEN \A u \in Users : users[u].email # e
               ELSE Live(x) /\ users[x].email = e
    <2>1. \A u \in Users : Live(u) => Settled(u)
      BY <1>4 DEF Inv, Index, Intact, OneAtATime, InStep
    <2>2. ASSUME NEW u \in Users, Live(u) PROVE x = u <=> users[u].email = e
      <3>1. users[u] \in Row
        BY DEF Inv, Types
      <3>2. users[u].provider \in OAuthIds \cup {Local}
        BY <3>1 DEF Row
      <3>3. Wants(users[u], key) <=> users[u].email = e
        BY <3>2, StoreAssumption, SMTT(30) DEF Wants, OAuthIds
      <3> QED BY <1>1, <1>3, <2>1, <2>2, <3>3 DEF Settled
    <2>3. \A u \in Users : users[u].email = e => Live(u)
      BY StoreAssumption DEF Live, Users
    <2> QED BY <1>2, <1>3, <2>2, <2>3 DEF Users
  <1>5. x # 0 => users[x].email = e \/ users[x].isEmailVerified
    <2>1. key \notin OAuthIds
      BY StoreAssumption DEF OAuthIds
    <2> QED BY <1>1, <1>3, <2>1 DEF Inv, Index, Fits
  <1> HIDE DEF key
  <1> QED BY <1>2, <1>3, <1>4, <1>5

\* What the invariant says of a request and of the rows, for the proofs to cite.
LEMMA Facts ==
    ASSUME Inv, NEW s \in Slots
    PROVE  /\ Knows(req[s]) /\ Fields(req[s])
           /\ req[s].pc # "idle" => up
           /\ users \in [Users -> Row] /\ gen \in 0..MaxTokens /\ nextId \in 1..(MaxUsers + 1)
           /\ \A u \in Users : Live(u) => users[u].id = u /\ Consistent(users[u])
  BY DEF Inv, Knows, Types, Rows

\* The columns of a row that is not there are well typed.
LEMMA NoRowIsRow == NoRow \in Row
  <1>1. 0 \in Ends /\ 0 \in 0..MaxUsers /\ 0 \in 0..(MaxTokens + 1)
    BY StoreAssumption, SMTT(30) DEF Ends
  <1>2. <<>> \in Seq(History)
    OBVIOUS
  <1> QED BY <1>1, <1>2 DEF Row, NoRow

\* A slot without a request knows nothing and promises nothing.
LEMMA IdleKnows == Knows(Idle)
  BY NoRowIsRow, StoreAssumption
  DEF Knows, Fields, Documents, Migrating, Verifying, Lookups, Stage, Inserting, Generating, Idle, Continuations,
    WithDocument, WithAddress, InFinalise, InInitiate, InVerifyNew, InOAuth, InRegister

\* A request that only reads, and answers.
LEMMA Answers ==
    ASSUME Inv, OneAtATime, NEW s \in Slots, Reads, Answer(s), InStep(req[s])
    PROVE  Good
  BY IdleKnows, Reading DEF Answer, InStep

\* A request that only reads, and awaits its next statement.
LEMMA Continues ==
    ASSUME Inv, OneAtATime, NEW s \in Slots, NEW w, Reads, Goto(s, w), InStep(req[s]),
           Knows(w ++ req[s])
    PROVE  Good
  BY Reading DEF Goto, InStep

\* A request that starts.
LEMMA Begins ==
    ASSUME Inv, OneAtATime, NEW s \in Slots, NEW op, NEW w, Reads, Begin(s, op, w),
           Knows(w ++ [Idle EXCEPT !.op = op])
    PROVE  Good
  <1>1. InStep(req[s])
    BY DEF InStep, Behind, Begin
  <1> QED BY <1>1, Reading DEF Begin, InStep

\* where there is one request, no other may take the last id
LEMMA RoomForOne ==
    ASSUME Inv, OneAtATime, NEW s \in Slots, Room, req[s].pc = "idle"
    PROVE  nextId <= MaxUsers
  <1>1. {t \in Slots : req[t].pc # "idle"} = {}
    BY DEF OneAtATime
  <1>2. Cardinality({t \in Slots : req[t].pc # "idle"}) = 0
    BY <1>1, FS_EmptySet
  <1>3. nextId \in Nat
    BY Facts
  <1> QED BY <1>2, <1>3, StoreAssumption DEF Room

\* The columns of a row.
LEMMA RowIntro ==
    ASSUME NEW r, r = [f \in DOMAIN NoRow |-> r[f]],
           r.id \in 0..MaxUsers, r.email \in Emails \cup {None}, r.isEmailVerified \in BOOLEAN,
           r.password \in BOOLEAN, r.provider \in OAuthIds \cup {Local},
           r.emailVerificationToken \in 0..(MaxTokens + 1), r.emailVerificationExpires \in Ends,
           r.previousEmail \in Emails \cup {None}, r.migrationExpiry \in Ends,
           r.newEmailPending \in Emails \cup {None}, r.migrationToken \in 0..(MaxTokens + 1),
           r.migrationTokenExpires \in Ends, r.currentEmailVerified \in BOOLEAN,
           r.newEmailVerified \in BOOLEAN, r.lastMigrationDate \in Ends,
           r.tokenVersion \in Nat, r.migrationHistory \in Seq(History), r.bio \in {"old", "new"}
    PROVE  r \in Row
  BY DEF Row, NoRow

\* ... and every row has them.
LEMMA RowFields ==
    ASSUME NEW r \in Row
    PROVE  /\ r = [f \in DOMAIN NoRow |-> r[f]] /\ DOMAIN r = DOMAIN NoRow
           /\ r.id \in 0..MaxUsers /\ r.email \in Emails \cup {None} /\ r.isEmailVerified \in BOOLEAN
           /\ r.password \in BOOLEAN /\ r.provider \in OAuthIds \cup {Local}
           /\ r.emailVerificationToken \in 0..(MaxTokens + 1) /\ r.emailVerificationExpires \in Ends
           /\ r.previousEmail \in Emails \cup {None} /\ r.migrationExpiry \in Ends
           /\ r.newEmailPending \in Emails \cup {None} /\ r.migrationToken \in 0..(MaxTokens + 1)
           /\ r.migrationTokenExpires \in Ends /\ r.currentEmailVerified \in BOOLEAN
           /\ r.newEmailVerified \in BOOLEAN /\ r.lastMigrationDate \in Ends
           /\ r.tokenVersion \in Nat /\ r.migrationHistory \in Seq(History) /\ r.bio \in {"old", "new"}
  <1>1. r = [f \in DOMAIN NoRow |-> r[f]] /\ DOMAIN r = DOMAIN NoRow
    BY DEF Row, NoRow
  <1> QED BY <1>1 DEF Row

\* Assigning a field its own value changes nothing.
LEMMA ExceptSame ==
    ASSUME NEW r, NEW f, r = [g \in DOMAIN r |-> r[g]]
    PROVE  [r EXCEPT ![f] = r[f]] = r
  OBVIOUS

\* A document that was loaded is its row.
LEMMA Loaded ==
    ASSUME Inv, NEW u \in 0..MaxUsers, NEW d, d = Load(u)
    PROVE  /\ d \in Row
           /\ ~Live(u) => d = NoRow
           /\ Live(u) => /\ u \in Users /\ d.id = u /\ Current(d)
                         /\ d = [users[u] EXCEPT !.password = FALSE]
  <1>1. CASE Live(u)
    <2>1. u \in Users /\ users[u] \in Row /\ users[u].id = u
      BY <1>1 DEF Live, Users, Inv, Types, Rows
    <2>2. d = [users[u] EXCEPT !.password = FALSE]
      BY <1>1 DEF Load, Live
    <2>3. DOMAIN users[u] = DOMAIN NoRow
      BY <2>1, RowFields
    <2>4. d \in Row
      BY <2>1, <2>2 DEF Row
    <2>5. d.id = u /\ Current(d)
      BY <1>1, <2>1, <2>2, <2>3 DEF Current, NoRow
    <2> QED BY <1>1, <2>1, <2>2, <2>4, <2>5
  <1>2. CASE ~Live(u)
    <2>1. u # 0 => u \in Users /\ users[u] = NoRow
      BY <1>2 DEF Users, Inv, Rows
    <2>2. [NoRow EXCEPT !.password = FALSE] = NoRow
      <3>1. NoRow.password = FALSE /\ NoRow = [f \in DOMAIN NoRow |-> NoRow[f]]
        BY DEF NoRow
      <3> QED BY <3>1, ExceptSame
    <2>3. d = NoRow
      BY <2>1, <2>2 DEF Load
    <2> QED BY <1>2, <2>3, NoRowIsRow
  <1> QED BY <1>1, <1>2

------------------------------------------------------------------------------
(* The steps that only read: registration, verification and OAuth sign-in *)

USE DEF WithDocument, WithAddress, InFinalise, InInitiate, InVerifyNew, InOAuth, InRegister, Stage, At

\* register asks whether a migration has reserved the address.
LEMMA RegisterHolderGood ==
    ASSUME Inv, OneAtATime, NEW s \in Slots, RegisterHolder(s) PROVE Good
  <1>1. Knows(req[s]) /\ req[s].pc = "holder" /\ Reads
    BY Facts DEF RegisterHolder
  <1>2. InStep(req[s])
    BY <1>1, SMTT(30) DEF InStep, Behind
  <1>3. Knows([pc |-> "lookup"] ++ req[s])
    BY <1>1, ZenonT(30)
    DEF Knows, Fields, Documents, Migrating, Lookups, Verifying, Inserting, Generating, ++, Idle
  <1> QED BY <1>1, <1>2, <1>3, Answers, Continues DEF RegisterHolder

\* register looks the address up: the account found holds it.
LEMMA RegisterLookupGood ==
    ASSUME Inv, OneAtATime, NEW s \in Slots, RegisterLookup(s) PROVE Good
  <1>1. Knows(req[s]) /\ req[s].pc = "lookup" /\ Reads
    BY Facts DEF RegisterLookup
  <1>2. InStep(req[s])
    BY <1>1 DEF InStep, Behind
  <1>3. PICK x : x = findUserIdByPrimaryEmail(req[s].e)
    OBVIOUS
  <1>4. req[s].e \in Emails /\ up
    BY <1>1 DEF Knows, Documents
  <1>5. x \in 0..MaxUsers /\ (Live(x) => users[x].email = req[s].e \/ users[x].isEmailVerified)
    BY <1>3, <1>4, Lookup DEF Live
  <1>6. Knows([pc |-> "taken", x |-> x] ++ req[s])
    BY <1>1, <1>5, ZenonT(60)
    DEF Knows, Fields, Documents, Migrating, Lookups, Verifying, Inserting, Generating, ++, Idle
  <1> QED BY <1>1, <1>2, <1>3, <1>6, Continues DEF RegisterLookup

\* register loads that account, which is not verified.
LEMMA RegisterTakenGood ==
    ASSUME Inv, OneAtATime, NEW s \in Slots, RegisterTaken(s) PROVE Good
  <1>1. Knows(req[s]) /\ req[s].pc = "taken" /\ Reads
    BY Facts DEF RegisterTaken
  <1>2. InStep(req[s])
    BY <1>1 DEF InStep, Behind
  <1>3. PICK d : d = Load(req[s].x)
    OBVIOUS
  <1>4. /\ d \in Row
        /\ ~Live(req[s].x) => d = NoRow
        /\ Live(req[s].x) => req[s].x \in Users /\ d.id = req[s].x /\ Current(d)
    BY <1>1, <1>3, Loaded DEF Knows, Fields
  <1>5. d.id # 0 /\ ~d.isEmailVerified => Current(d) /\ users[d.id].email = req[s].e
    BY <1>1, <1>4 DEF Knows, Documents, Current, NoRow
  <1>6. ~d.isEmailVerified => Knows([pc |-> "create", doc |-> d] ++ req[s])
    BY <1>1, <1>4, <1>5, ZenonT(30)
    DEF Knows, Fields, Documents, Migrating, Lookups, Verifying, Inserting, Generating, ++, Idle
  <1> QED BY <1>1, <1>2, <1>3, <1>6, Answers, Continues DEF RegisterTaken

\* resendVerification loads the account at the address.
LEMMA ResendVerificationFindGood ==
    ASSUME Inv, OneAtATime, NEW s \in Slots, ResendVerificationFind(s) PROVE Good
  <1>1. Knows(req[s]) /\ req[s].pc = "reverify" /\ Reads
    BY Facts DEF ResendVerificationFind
  <1>2. InStep(req[s])
    BY <1>1 DEF InStep, Behind
  <1>3. PICK d : d = Load(req[s].x)
    OBVIOUS
  <1>4. /\ d \in Row
        /\ ~Live(req[s].x) => d = NoRow
        /\ Live(req[s].x) => req[s].x \in Users /\ d.id = req[s].x /\ Current(d)
    BY <1>1, <1>3, Loaded DEF Knows, Fields
  <1>5. d.id # 0 /\ ~d.isEmailVerified => Current(d) /\ users[d.id].email = req[s].e
    BY <1>1, <1>4 DEF Knows, Documents, Current, NoRow
  <1>6. d.id # 0 /\ ~d.isEmailVerified /\ d.provider = Local =>
            Knows([pc |-> "reverifysave", doc |-> d] ++ req[s])
    BY <1>1, <1>4, <1>5, ZenonT(60)
    DEF Knows, Fields, Documents, Migrating, Lookups, Verifying, Inserting, Generating, ++, Idle
  <1> QED BY <1>1, <1>2, <1>3, <1>6, Answers, Continues DEF ResendVerificationFind

\* verifyEmail finds the row with the secret of the link: the link was mailed
\* to the address of that row.
LEMMA VerifyEmailFindGood ==
    ASSUME Inv, OneAtATime, NEW s \in Slots, VerifyEmailFind(s) PROVE Good
  <1>1. Knows(req[s]) /\ req[s].pc = "findverify" /\ Reads
    BY Facts DEF VerifyEmailFind
  <1>2. InStep(req[s])
    BY <1>1 DEF InStep, Behind
  <1>3. ASSUME NEW u \in Users, Live(u), users[u].provider = Local,
               users[u].emailVerificationToken = req[s].link
        PROVE  Knows([pc |-> "saveverify", doc |-> users[u]] ++ req[s])
    <2>1. users[u] \in Row /\ users[u].id = u /\ Current(users[u])
      BY <1>3, Facts DEF Current
    <2>2. Trusted => Proved(users[u].email)
      <3>1. PICK l \in opened : l.kind = "verify" /\ l.secret = req[s].link /\ req[s].link # 0
        BY <1>1 DEF Knows, Verifying
      <3>2. Tells(l, users[u])
        BY <1>3, <3>1 DEF Inv, Mails
      <3> QED BY <1>3, <3>1, <3>2 DEF Tells, Proved
    <2> QED
      BY <1>1, <1>3, <2>1, <2>2, ZenonT(30)
      DEF Knows, Fields, Documents, Migrating, Lookups, Verifying, Inserting, Generating, ++, Idle
  <1> QED BY <1>1, <1>2, <1>3, Answers, Continues DEF VerifyEmailFind

\* The OAuth strategy loads the account with the identity.
LEMMA OAuthByIdGood ==
    ASSUME Inv, OneAtATime, NEW s \in Slots, OAuthById(s) PROVE Good
  <1>1. Knows(req[s]) /\ req[s].pc = "oauthid" /\ Reads
    BY Facts DEF OAuthById
  <1>2. InStep(req[s])
    BY <1>1 DEF InStep, Behind
  <1>3. PICK d : d = Load(req[s].x)
    OBVIOUS
  <1>4. /\ d \in Row
        /\ Live(req[s].x) => Current(d)
    BY <1>1, <1>3, Loaded, SMTT(30) DEF Knows, Fields
  <1>5. Live(req[s].x) => Knows([pc |-> "strategy", doc |-> d] ++ req[s])
    BY <1>1, <1>4, ZenonT(30)
    DEF Knows, Fields, Documents, Migrating, Lookups, Verifying, Inserting, Generating, ++, Idle
  <1>7. 1 \in 1..5 /\ 1 # 4 /\ 1 # 5
    OBVIOUS
  <1>6. Knows([pc |-> "resolve", k |-> 1, cont |-> "oauthuser"] ++ req[s])
    BY <1>1, <1>4, <1>7, ZenonT(60)
    DEF Knows, Fields, Documents, Migrating, Lookups, Verifying, Inserting, Generating, ++, Idle
  <1> QED BY <1>1, <1>2, <1>3, <1>5, <1>6, Continues DEF OAuthById

\* It looks up who has the address as primary address ...
LEMMA OAuthPrimaryGood ==
    ASSUME Inv, OneAtATime, NEW s \in Slots, OAuthPrimary(s) PROVE Good
  <1>1. Knows(req[s]) /\ req[s].pc = "oauthprimary" /\ Reads
    BY Facts DEF OAuthPrimary
  <1>2. InStep(req[s])
    BY <1>1 DEF InStep, Behind
  <1>3. PICK x : x = findUserIdByPrimaryEmail(req[s].e)
    OBVIOUS
  <1>4. req[s].e \in Emails /\ up
    BY <1>1 DEF Knows, Documents
  <1>5. x \in 0..MaxUsers /\ (Live(x) => users[x].email = req[s].e \/ users[x].isEmailVerified)
    BY <1>3, <1>4, Lookup DEF Live
  <1>6. Knows([pc |-> "oauthprimaryuser", x |-> x] ++ req[s])
    BY <1>1, <1>5, ZenonT(60)
    DEF Knows, Fields, Documents, Migrating, Lookups, Verifying, Inserting, Generating, ++, Idle
  <1> QED BY <1>1, <1>2, <1>3, <1>6, Continues DEF OAuthPrimary

\* It loads the account the address resolves to: by its address, or by a
\* former or pending one, which only a verified account has.
LEMMA OAuthUserGood ==
    ASSUME Inv, OneAtATime, NEW s \in Slots, OAuthUser(s) PROVE Good
  <1>1. Knows(req[s]) /\ req[s].pc = "oauthuser" /\ Reads
    BY Facts DEF OAuthUser
  <1>2. InStep(req[s])
    BY <1>1 DEF InStep, Behind
  <1>3. PICK d : d = Load(req[s].x)
    OBVIOUS
  <1>4. /\ d \in Row
        /\ Live(req[s].x) => req[s].x \in Users /\ d.id = req[s].x /\ Current(d)
    BY <1>1, <1>3, Loaded DEF Knows, Fields
  <1>5. Knows([doc |-> d, pc |-> "oauthcreate"] ++ req[s])
    BY <1>1, <1>4, ZenonT(30)
    DEF Knows, Fields, Documents, Migrating, Lookups, Verifying, Inserting, Generating, ++, Idle
  <1>6. Live(req[s].x) => Knows([doc |-> d, pc |-> "strategy"] ++ req[s])
    BY <1>1, <1>4, ZenonT(60)
    DEF Knows, Fields, Documents, Migrating, Lookups, Verifying, Inserting, Generating, ++, Idle
  <1>7. Live(req[s].x) /\ d.previousEmail = req[s].e =>
            Knows([doc |-> d, pc |-> "oauthprimary"] ++ req[s])
    <2>1. Live(req[s].x) /\ d.previousEmail = req[s].e => d.isEmailVerified
      <3>1. req[s].e # None
        BY <1>1, StoreAssumption, SMTT(30) DEF Knows, Documents
      <3> QED BY <1>4, <3>1, Facts DEF Current, Consistent
    <2> QED
      BY <1>1, <1>4, <2>1, ZenonT(60)
      DEF Knows, Fields, Documents, Migrating, Lookups, Verifying, Inserting, Generating, ++, Idle
  <1>8. Live(req[s].x) => Knows([doc |-> d, pc |-> "takeover"] ++ req[s])
    <2>1. Live(req[s].x) => users[d.id].email = req[s].e \/ users[d.id].isEmailVerified
      BY <1>1, <1>4 DEF Knows, Documents
    <2> QED
      BY <1>1, <1>4, <2>1, ZenonT(60)
      DEF Knows, Fields, Documents, Migrating, Lookups, Verifying, Inserting, Generating, ++, Idle
  <1>9. \E pc \in {"oauthcreate", "strategy", "oauthprimary", "takeover"} :
            Goto(s, [doc |-> d, pc |-> pc]) /\ Knows([doc |-> d, pc |-> pc] ++ req[s])
    BY <1>3, <1>5, <1>6, <1>7, <1>8 DEF OAuthUser, TakeOverOrSignIn
  <1> QED BY <1>1, <1>2, <1>9, Continues

\* ... and prefers that account.
LEMMA OAuthPrimaryUserGood ==
    ASSUME Inv, OneAtATime, NEW s \in Slots, OAuthPrimaryUser(s) PROVE Good
  <1>1. Knows(req[s]) /\ req[s].pc = "oauthprimaryuser" /\ Reads
    BY Facts DEF OAuthPrimaryUser
  <1>2. InStep(req[s])
    BY <1>1 DEF InStep, Behind
  <1>3. PICK d : d = IF Live(req[s].x) THEN Load(req[s].x) ELSE req[s].doc
    OBVIOUS
  <1>4. /\ d \in Row /\ Current(d)
        /\ IF Live(req[s].x) THEN d.id = req[s].x ELSE d = req[s].doc
    BY <1>1, <1>3, Loaded DEF Knows, Fields, Documents
  <1>5. Knows([doc |-> d, pc |-> "strategy"] ++ req[s])
    BY <1>1, <1>4, ZenonT(30)
    DEF Knows, Fields, Documents, Migrating, Lookups, Verifying, Inserting, Generating, ++, Idle
  <1>6. Knows([doc |-> d, pc |-> "takeover"] ++ req[s])
    <2>1. users[d.id].email = req[s].e \/ users[d.id].isEmailVerified
      BY <1>1, <1>4, SMTT(30) DEF Knows, Documents, Current
    <2> QED
      BY <1>1, <1>4, <2>1, ZenonT(60)
      DEF Knows, Fields, Documents, Migrating, Lookups, Verifying, Inserting, Generating, ++, Idle
  <1>7. Knows([doc |-> d, pc |-> "oauthcreate"] ++ req[s])
    BY <1>1, <1>4, ZenonT(30)
    DEF Knows, Fields, Documents, Migrating, Lookups, Verifying, Inserting, Generating, ++, Idle
  <1> QED BY <1>1, <1>2, <1>3, <1>5, <1>6, <1>7, Continues DEF OAuthPrimaryUser, TakeOverOrSignIn

\* updateBio loads the account of the session.
LEMMA UpdateBioFindGood ==
    ASSUME Inv, OneAtATime, NEW s \in Slots, UpdateBioFind(s) PROVE Good
  <1>1. Knows(req[s]) /\ req[s].pc = "findbio" /\ Reads
    BY Facts DEF UpdateBioFind
  <1>2. InStep(req[s])
    BY <1>1, SMTT(30) DEF InStep, Behind
  <1>3. ASSUME NEW u \in Users, Live(u) PROVE Knows([pc |-> "savebio", doc |-> Load(u)] ++ req[s])
    <2>1. Load(u) \in Row /\ Current(Load(u))
      BY <1>3, Loaded DEF Users
    <2> QED
      BY <1>1, <2>1, ZenonT(30)
      DEF Knows, Fields, Documents, Migrating, Lookups, Verifying, Inserting, Generating, ++, Idle
  <1> QED BY <1>1, <1>2, <1>3, Answers, Continues DEF UpdateBioFind

------------------------------------------------------------------------------
(* Requests that arrive *)

\* a request as it is created
LEMMA Created ==
    ASSUME NEW op, NEW r, r = [Idle EXCEPT !.op = op]
    PROVE  Fields(r) /\ r.op = op /\ r.pc = "idle" /\ r.cont = "idle"
  <1>1. DOMAIN r = DOMAIN Idle /\ \A f \in DOMAIN Idle : f # "op" => r[f] = Idle[f]
    OBVIOUS
  <1>2. r.op = op
    BY DEF Idle
  <1>3. /\ r.pc = "idle" /\ r.cont = "idle" /\ r.doc = NoRow /\ r.sd = NoRow /\ r.keep = NoRow
        /\ r.x = 0 /\ r.k = 1 /\ r.id = Local /\ r.e = None
    BY <1>1 DEF Idle
  <1> QED BY <1>1, <1>2, <1>3, NoRowIsRow, StoreAssumption DEF Fields, Continuations

\* The handlers start: register,
LEMMA RegisterGood ==
    ASSUME Inv, OneAtATime, NEW s \in Slots, NEW e \in Emails, Register(s, e) PROVE Good
  <1>1. up /\ req[s].pc = "idle" /\ Reads
    BY DEF Register, Begin
  <1>2. PICK r : r = [Idle EXCEPT !.op = "register"]
    OBVIOUS
  <1>3. Fields(r) /\ r.op = "register" /\ r.cont = "idle"
    BY <1>2, Created
  <1>4. nextId <= MaxUsers /\ gen < MaxTokens
    BY <1>1, RoomForOne DEF Register, CanGenerate
  <1>5. Knows([pc |-> "holder", e |-> e] ++ r)
    BY <1>1, <1>3, <1>4, Zenon
    DEF Knows, Fields, Documents, Migrating, Lookups, Verifying, Inserting, Generating, ++, Idle
  <1> QED BY <1>1, <1>2, <1>5, Begins DEF Register

\* the callback of an OAuth provider,
LEMMA OAuthGood ==
    ASSUME Inv, OneAtATime, NEW s \in Slots, NEW id \in OAuthIds, OAuth(s, id) PROVE Good
  <1>1. up /\ req[s].pc = "idle" /\ Reads
    BY DEF OAuth, Begin
  <1>2. PICK r : r = [Idle EXCEPT !.op = "oauth"]
    OBVIOUS
  <1>3. Fields(r) /\ r.op = "oauth" /\ r.cont = "idle"
    BY <1>2, Created
  <1>4. /\ nextId <= MaxUsers /\ id[2] \in Emails
        /\ findUserIdByOAuth(id) \in 0..MaxUsers
    <2>1. idx[id].user \in 0..MaxUsers
      BY SMTT(30) DEF Inv, Types, Keys
    <2> QED BY <1>1, <2>1, RoomForOne DEF OAuth, OAuthIds, findUserIdByOAuth
  <1>5. Knows([pc |-> "oauthid", id |-> id, e |-> id[2], x |-> findUserIdByOAuth(id)] ++ r)
    BY <1>1, <1>3, <1>4, ZenonT(30)
    DEF Knows, Fields, Documents, Migrating, Lookups, Verifying, Inserting, Generating, ++, Idle
  <1> QED BY <1>1, <1>2, <1>5, Begins DEF OAuth

\* resendVerification,
LEMMA ResendVerificationGood ==
    ASSUME Inv, OneAtATime, NEW s \in Slots, NEW e \in Emails, ResendVerification(s, e) PROVE Good
  <1>1. up /\ req[s].pc = "idle" /\ Reads /\ gen < MaxTokens
    BY DEF ResendVerification, Begin, CanGenerate
  <1>2. PICK r : r = [Idle EXCEPT !.op = "reverify"]
    OBVIOUS
  <1>3. Fields(r) /\ r.op = "reverify" /\ r.cont = "idle"
    BY <1>2, Created
  <1>4. PICK x : x = findUserIdByPrimaryEmail(e)
    OBVIOUS
  <1>5. x \in 0..MaxUsers /\ (Live(x) => users[x].email = e \/ users[x].isEmailVerified)
    BY <1>4, Lookup DEF Live
  <1>6. Knows([pc |-> "reverify", e |-> e, x |-> x] ++ r)
    BY <1>1, <1>3, <1>5, ZenonT(30)
    DEF Knows, Fields, Documents, Migrating, Lookups, Verifying, Inserting, Generating, ++, Idle
  <1> QED BY <1>1, <1>2, <1>4, <1>6, Begins DEF ResendVerification

\* updateBio,
LEMMA UpdateBioGood ==
    ASSUME Inv, OneAtATime, NEW s \in Slots, NEW u \in Users, UpdateBio(s, u) PROVE Good
  <1>1. up /\ req[s].pc = "idle" /\ Reads
    BY DEF UpdateBio, Begin
  <1>2. PICK r : r = [Idle EXCEPT !.op = "bio"]
    OBVIOUS
  <1>3. Fields(r) /\ r.op = "bio" /\ r.cont = "idle"
    BY <1>2, Created
  <1>4. Load(u) \in Row /\ Current(Load(u))
    BY Loaded, SMTT(30) DEF UpdateBio, Users
  <1>5. Knows([pc |-> "findbio", doc |-> Load(u)] ++ r)
    BY <1>1, <1>3, <1>4, Zenon
    DEF Knows, Fields, Documents, Migrating, Lookups, Verifying, Inserting, Generating, ++, Idle
  <1> QED BY <1>1, <1>2, <1>5, Begins DEF UpdateBio

------------------------------------------------------------------------------
(* Links: a step that only touches the mailboxes *)

\* A step that mails or opens links and leaves the rows and the index alone.
LEMMA Posting ==
    ASSUME Inv, OneAtATime, NEW s \in Slots, NEW r,
           UNCHANGED <<store, now, health, movedAt>>, req' = [req EXCEPT ![s] = r],
           gen' \in 0..MaxTokens, gen <= gen',
           InStep(req[s]), Knows(r)',
           links' \subseteq Link, opened' \subseteq Link, opened \subseteq opened',
           \A l \in links' : l.secret # 0,
           \A l \in (links' \cup opened') \ (links \cup opened) :
               l.secret # 0 => /\ l.secret \in Secrets
                               /\ \A u \in Users : Live(u) => Tells(l, users[u]),
           Reliable => Ownership!Next \/ proved' = proved
    PROVE  Good
  <1> USE DEF store, health
  <1>1. DOMAIN req' = Slots /\ \A t \in Slots : req'[t] = r /\ req[t] = req[s]
    BY OnlyRequest DEF Inv, Types
  <1>2. Types' /\ Secrets \subseteq Secrets'
    BY <1>1 DEF Inv, Types, Secrets
  <1>3. \A r1 : Consistent(r1) => Consistent(r1)'
    BY <1>2 DEF Consistent, Used, Proved, Trusted, Reliable
  <1>4. Rows'
    BY <1>3 DEF Inv, Rows, Live, Apart
  <1>5. Mails'
    <2>1. \A l, r1 : Tells(l, r1)' = Tells(l, r1)
      BY DEF Tells, Trusted, Reliable
    <2> QED BY <1>2, <2>1 DEF Inv, Mails, Live
  <1>6. Index'
    <2>1. \A key \in Keys :
             /\ idx'[key].user = 0 => idx'[key] = NoEntry
             /\ idx'[key].user # 0 => Live(idx[key].user)'
             /\ key \in Permanent => idx'[key].exp = 0
             /\ idx'[key].user # 0 => Fits(users'[idx'[key].user], key)
      BY DEF Inv, Index, Live
    <2>2. ASSUME Intact', NEW u \in Users, Live(u)' PROVE Settled(u)'
      <3>1. Intact /\ Live(u) /\ Settled(u)' = Settled(u)
        BY <2>2 DEF Intact, Live, Settled, Reliable
      <3> QED BY <1>1, <3>1 DEF Inv, Index, InStep
    <2> QED BY <2>1, <2>2 DEF Index
  <1>7. owner' = owner /\ Spaces /\ KeepsBio
    BY DEF owner, Live, Spaces, KeepsBio
  <1> QED BY <1>1, <1>2, <1>4, <1>5, <1>6, <1>7 DEF Inv, Good

\* A link to verify an address is opened: the address is proved.
LEMMA VerifyEmailGood ==
    ASSUME Inv, OneAtATime, NEW s \in Slots, NEW l \in links, VerifyEmail(s, l) PROVE Good
  <1>1. up /\ req[s].pc = "idle" /\ l.kind = "verify" /\ Consume(l)
    BY DEF VerifyEmail, Begin
  <1>2. PICK r : r = [Idle EXCEPT !.op = "verify"]
    OBVIOUS
  <1>3. Fields(r) /\ r.op = "verify" /\ r.cont = "idle"
    BY <1>2, Created
  <1>4. PICK q : q = [pc |-> "findverify", link |-> l.secret] ++ r
    OBVIOUS
  <1>5. Knows(q)'
    <2>1. up' /\ l.secret # 0 /\ l \in opened'
      BY <1>1 DEF Consume, Inv, Mails, health
    <2> QED
      BY <1>1, <1>3, <1>4, <2>1
      DEF Knows, Fields, Documents, Migrating, Lookups, Verifying, Inserting, Generating, ++, Idle
  <1>6. InStep(req[s]) /\ req' = [req EXCEPT ![s] = q]
    BY <1>1, <1>2, <1>4 DEF InStep, Behind, VerifyEmail, Begin
  <1>7. proved' = proved
    BY <1>1 DEF Consume, proved
  <1>8. /\ gen' \in 0..MaxTokens /\ gen <= gen' /\ links' \subseteq links
        /\ links' \cup opened' = links \cup opened /\ opened \subseteq opened'
        /\ links \subseteq Link /\ opened \subseteq Link /\ \A m \in links : m.secret # 0
    BY <1>1 DEF Consume, Inv, Types, Mails
  <1>9. UNCHANGED <<store, now, health, movedAt>>
    BY <1>1 DEF Consume
  <1> QED BY <1>5, <1>6, <1>7, <1>8, <1>9, Posting

\* Links that say what the rows with their secrets say are mailed.
LEMMA MailGood ==
    ASSUME Inv, OneAtATime, NEW s \in Slots, NEW batch, Mail(batch), Answer(s), InStep(req[s]),
           UNCHANGED <<store, gen, opened, now, health, movedAt>>, batch \subseteq Link,
           \A l \in batch : /\ l.secret # 0 /\ l.secret \in Secrets
                            /\ \A u \in Users : Live(u) => Tells(l, users[u])
    PROVE  Good
  <1>1. req' = [req EXCEPT ![s] = Idle]
    BY DEF Answer
  <1>2. PICK sent \in SUBSET batch : links' = links \cup sent
    BY DEF Mail
  <1>3. Knows(Idle)'
    BY NoRowIsRow, StoreAssumption
    DEF Knows, Fields, Documents, Migrating, Lookups, Verifying, Inserting, Generating, ++, Idle, Continuations
  <1>4. proved' = proved
    BY DEF proved
  <1>5. /\ gen' \in 0..MaxTokens /\ gen <= gen' /\ opened' = opened
        /\ links \subseteq Link /\ opened \subseteq Link /\ \A m \in links : m.secret # 0
    BY DEF Inv, Types, Mails
  <1> QED BY <1>1, <1>2, <1>3, <1>4, <1>5, Posting

\* the link with the secret of row u tells of that row only
LEMMA SecretOf ==
    ASSUME Inv, NEW u \in Users, Live(u), NEW v \in Users, Live(v)
    PROVE  /\ users[u].migrationToken # 0 /\ users[u].migrationToken = users[v].migrationToken
                  => u = v
           /\ users[u].emailVerificationToken # 0
                /\ users[u].emailVerificationToken = users[v].emailVerificationToken => u = v
  BY DEF Inv, Rows, Apart

\* register and resendVerification mail the link to verify the address.
LEMMA RegisterMailGood ==
    ASSUME Inv, OneAtATime, NEW s \in Slots, RegisterMail(s) PROVE Good
  <1>1. Knows(req[s]) /\ req[s].pc = "mailverify"
    BY Facts DEF RegisterMail
  <1>2. InStep(req[s])
    BY <1>1 DEF InStep, Behind
  <1> DEFINE d == req[s].sd
             l == [kind |-> "verify", secret |-> d.emailVerificationToken, u |-> d.id, to |-> req[s].e]
             batch == IF AutoVerifyEmail THEN {} ELSE {l}
  <1>3. ASSUME ~AutoVerifyEmail
        PROVE  /\ l \in Link /\ l.secret # 0 /\ l.secret \in Secrets
               /\ \A u \in Users : Live(u) => Tells(l, users[u])
    <2>1. /\ Current(d) /\ d.emailVerificationToken # 0 /\ req[s].e \in Emails
          /\ d.email = req[s].e
      BY <1>1, <1>3 DEF Knows, Documents
    <2>2. /\ d.id \in Users /\ Live(d.id) /\ users[d.id] \in Row
          /\ d.emailVerificationToken = users[d.id].emailVerificationToken
          /\ d.email = users[d.id].email /\ Consistent(users[d.id])
      BY <2>1, Facts DEF Current
    <2>3. d.emailVerificationToken \in Secrets /\ d.emailVerificationToken \in 0..(MaxTokens + 1)
      BY <2>1, <2>2, RowFields, Zenon DEF Consistent
    <2>4. ASSUME NEW u \in Users, Live(u) PROVE Tells(l, users[u])
      BY <2>1, <2>2, <2>4, SecretOf DEF Tells, Trusted
    <2> QED BY <2>1, <2>2, <2>3, <2>4, Zenon DEF Link
  <1>4. Mail(batch) /\ Answer(s) /\ UNCHANGED <<store, gen, opened, now, health, movedAt>>
    BY DEF RegisterMail
  <1> HIDE DEF l, d
  <1>5. batch \subseteq Link /\ \A m \in batch : /\ m.secret # 0 /\ m.secret \in Secrets
                            /\ \A u \in Users : Live(u) => Tells(m, users[u])
    BY <1>3
  <1> HIDE DEF batch
  <1> QED BY <1>2, <1>4, <1>5, MailGood

------------------------------------------------------------------------------
(* Reading and writing the index *)

\* An address is looked up as primary, former and pending address in turn.
LEMMA ResolveGood ==
    ASSUME Inv, OneAtATime, NEW s \in Slots, Resolve(s) PROVE Good
  <1>1. Knows(req[s]) /\ req[s].pc = "resolve" /\ Reads
    BY Facts DEF Resolve
  <1>2. InStep(req[s])
    BY <1>1 DEF InStep, Behind
  <1>3. /\ req[s].k \in 1..3 /\ req[s].cont \in {"oauthuser", "loginuser"}
        /\ req[s].e \in Emails /\ up
    BY <1>1 DEF Knows, Fields, Documents
  <1>4. PICK kind : kind = ResolveKinds[req[s].k]
    OBVIOUS
  <1>5. /\ kind \in {"primary", "previous", "pending"}
        /\ kind = "primary" <=> req[s].k = 1
    BY <1>3, <1>4 DEF ResolveKinds
  <1>6. PICK x : x = idx[<<kind, req[s].e>>].user
    OBVIOUS
  <1>7. <<kind, req[s].e>> \in Keys
    BY <1>3, <1>5 DEF Keys
  <1>8. /\ x \in 0..MaxUsers
        /\ x # 0 => users[x].email = req[s].e \/ users[x].isEmailVerified
    <2>1. x \in 0..MaxUsers
      BY <1>6, <1>7 DEF Inv, Types
    <2>2. <<kind, req[s].e>> \notin OAuthIds
      BY <1>5, StoreAssumption, SMTT(30) DEF OAuthIds
    <2> QED BY <1>6, <1>7, <2>1, <2>2 DEF Inv, Index, Fits
  <1>9. x # 0 => Knows([pc |-> req[s].cont, x |-> x] ++ req[s])
    <2>1. PICK q : q = [pc |-> req[s].cont, x |-> x] ++ req[s]
      OBVIOUS
    <2>2. /\ DOMAIN q = DOMAIN Idle /\ q.k = req[s].k /\ q.pc = req[s].cont
          /\ q.op = req[s].op /\ q.cont = req[s].cont /\ q.id = req[s].id /\ q.e = req[s].e
          /\ q.x = x /\ q.doc = req[s].doc /\ q.sd = req[s].sd /\ q.keep = req[s].keep
      BY <1>1, <2>1 DEF Knows, Fields, ++, Idle
    <2>3. Fields(q) /\ q.pc \in {"oauthuser", "loginuser"}
      BY <1>1, <1>3, <1>8, <2>2 DEF Knows, Fields
    <2>4. x # 0 => Documents(q)
      BY <1>1, <1>3, <1>8, <2>2 DEF Knows, Documents
    <2>5. Migrating(q) /\ (Reliable => Lookups(q)) /\ Verifying(q)
      BY <1>3, <2>2 DEF Migrating, Lookups, Verifying
    <2>6. Inserting(q) => nextId <= MaxUsers
      <3>1. Inserting(q) => q.pc = "oauthuser"
        BY <2>3 DEF Inserting
      <3>2. q.pc = "oauthuser" => Inserting(req[s])
        BY <1>1, <2>2 DEF Inserting
      <3> QED BY <1>1, <3>1, <3>2 DEF Knows
    <2>7. x # 0 => Knows(q)
      BY <1>3, <2>3, <2>4, <2>5, <2>6 DEF Knows, Generating
    <2> QED BY <2>1, <2>7
  <1>10. Knows([pc |-> req[s].cont, x |-> 0] ++ req[s])
    <2>1. ~Live(0) /\ 0 \in 0..MaxUsers
      BY StoreAssumption DEF Live
    <2> QED
      BY <1>1, <1>3, <2>1, ZenonT(30)
      DEF Knows, Fields, Documents, Migrating, Lookups, Verifying, Inserting, Generating, ++, Idle
  <1>11. req[s].k # 3 => Knows([k |-> req[s].k + 1] ++ req[s])
    <2>1. PICK k : k = req[s].k + 1
      OBVIOUS
    <2>2. req[s].k # 3 => k \in {2, 3}
      BY <1>3, <2>1
    <2>3. PICK q : q = [k |-> k] ++ req[s]
      OBVIOUS
    <2>4. /\ DOMAIN q = DOMAIN Idle /\ q.k = k /\ q.pc = "resolve"
          /\ q.op = req[s].op /\ q.cont = req[s].cont /\ q.id = req[s].id /\ q.e = req[s].e
          /\ q.x = req[s].x /\ q.doc = req[s].doc /\ q.sd = req[s].sd /\ q.keep = req[s].keep
      BY <1>1, <2>3 DEF Knows, Fields, ++, Idle
    <2>5. req[s].k # 3 => Fields(q)
      BY <1>1, <2>2, <2>4 DEF Knows, Fields
    <2>6. Documents(q) /\ Migrating(q) /\ (Reliable => Lookups(q)) /\ Verifying(q)
      BY <1>1, <2>4 DEF Knows, Documents, Migrating, Lookups, Verifying
    <2>7. req[s].k # 3 => Knows(q)
      BY <1>1, <2>4, <2>5, <2>6 DEF Knows, Inserting, Generating
    <2> QED BY <2>1, <2>3, <2>7
  <1> QED BY <1>1, <1>2, <1>4, <1>6, <1>9, <1>10, <1>11, Continues DEF Resolve, isActive

\* The keys and entries of a document.
LEMMA KeysOf ==
    ASSUME NEW d \in Row, d.email # None, d.id \in Users, NEW k \in 1..4,
           k = 2 => d.previousEmail # None, k = 3 => d.newEmailPending # None,
           k = 4 => d.provider # Local
    PROVE  /\ KeyOf(d, k) \in Keys
           /\ KeyOf(d, k) \in Permanent <=> k \in {1, 4}
           /\ k = 1 => KeyOf(d, k) = <<"primary", d.email>>
           /\ k = 4 => KeyOf(d, k) = d.provider
           /\ EntryOf(d, k) \in [user : 0..MaxUsers, exp : Ends]
           /\ EntryOf(d, k).user = d.id /\ d.id # 0
           /\ k \in {1, 4} => EntryOf(d, k).exp = 0
           /\ k \in {1, 4} => Wants(d, KeyOf(d, k))
  <1>1. /\ d.email \in Emails /\ d.provider \in OAuthIds \cup {Local}
        /\ d.previousEmail \in Emails \cup {None} /\ d.newEmailPending \in Emails \cup {None}
        /\ d.migrationExpiry \in Ends /\ d.migrationTokenExpires \in Ends
    BY RowFields
  <1>2. 0 \in Ends /\ d.id \in 0..MaxUsers /\ d.id # 0
    BY StoreAssumption, SMTT(30) DEF Ends, Users
  <1>3. CASE k = 1
    BY <1>1, <1>2, <1>3 DEF KeyOf, EntryOf, Keys, Permanent, Wants
  <1>4. CASE k = 2
    BY <1>1, <1>2, <1>4, StoreAssumption DEF KeyOf, EntryOf, Keys, Permanent, OAuthIds
  <1>5. CASE k = 3
    BY <1>1, <1>2, <1>5, StoreAssumption, SMTT(30) DEF KeyOf, EntryOf, Keys, Permanent, OAuthIds
  <1>6. CASE k = 4
    BY <1>1, <1>2, <1>6 DEF KeyOf, EntryOf, Keys, Permanent, Wants
  <1> QED BY <1>3, <1>4, <1>5, <1>6

\* What a row wants in the index, and what a verified one has there, fits it.
LEMMA Fitting ==
    ASSUME NEW r \in Row, NEW key, Wants(r, key) \/ r.isEmailVerified
    PROVE  Fits(r, key)
  <1>1. r.provider \in OAuthIds \cup {Local}
    BY RowFields
  <1> QED BY <1>1 DEF Fits, Wants

\* The smallest of some keys of a row is one of them.
LEMMA FirstDue ==
    ASSUME NEW S, S \subseteq 1..4, S # {}
    PROVE  Min(S) \in S /\ \A j \in S : Min(S) <= j
  <1>1. \E x \in S : \A j \in S : x <= j
    <2>1. CASE 1 \in S
      BY <2>1
    <2>2. CASE 1 \notin S /\ 2 \in S
      BY <2>2
    <2>3. CASE 1 \notin S /\ 2 \notin S /\ 3 \in S
      BY <2>3
    <2>4. CASE 1 \notin S /\ 2 \notin S /\ 3 \notin S
      <3>1. \A x \in S : x = 4
        BY <2>4
      <3>2. 4 \in S
        BY <3>1
      <3> QED BY <3>1, <3>2
    <2> QED BY <2>1, <2>2, <2>3, <2>4
  <1> QED BY <1>1 DEF Min

\* The sync looks whether its next key is in the index.
LEMMA SyncSelectGood ==
    ASSUME Inv, OneAtATime, NEW s \in Slots, SyncSelect(s) PROVE Good
  <1>1. Knows(req[s]) /\ req[s].pc = "sync" /\ Reads /\ Due(s) # {}
    BY Facts DEF SyncSelect
  <1>2. PICK k : k = Min(Due(s))
    OBVIOUS
  <1>3. k \in Due(s) /\ \A j \in Due(s) : k <= j
    BY <1>1, <1>2, FirstDue DEF Due, Knows, Fields
  <1>4. /\ k \in 1..4 /\ Wanted(req[s].sd, k)
        /\ \A j \in {1, 4} : j < k /\ Wanted(req[s].sd, j) => j < req[s].k
    BY <1>1, <1>3 DEF Due, Knows, Fields
  <1>5. PICK found : found = (idx[KeyOf(req[s].sd, k)] # NoEntry)
    OBVIOUS
  <1>6. PICK r : r = [pc |-> "upsert", k |-> k, found |-> found] ++ req[s]
    BY SMTT(30)
  <1>7. Knows(r)
    <2>1. /\ r.pc = "upsert" /\ r.k = k /\ r.found = found /\ r.sd = req[s].sd
          /\ r.expected = req[s].expected
      BY <1>1, <1>6 DEF Knows, Fields, ++, Idle
    <2>2. Syncing(r)
      <3>1. Syncing(req[s])
        BY <1>1 DEF Knows
      <3>2. \A j \in {1, 4} : j < k /\ Wanted(r.sd, j) => idx[KeyOf(r.sd, j)].user = r.sd.id
        BY <1>4, <2>1, <3>1 DEF Syncing
      <3>3. /\ k = 2 => r.sd.previousEmail # None
            /\ k = 3 => r.sd.newEmailPending # None
            /\ k = 4 => r.sd.provider # Local
        BY <1>4, <2>1 DEF Wanted, InGrace, InPending
      <3>4. /\ ~found => idx[KeyOf(r.sd, k)] = NoEntry
            /\ found => idx[KeyOf(r.sd, k)] # NoEntry
        BY <1>5, <2>1
      <3> QED BY <1>4, <2>1, <3>1, <3>2, <3>3, <3>4 DEF Syncing
    <2>3. /\ DOMAIN r = DOMAIN Idle /\ r.cont = req[s].cont /\ r.doc = req[s].doc
          /\ r.keep = req[s].keep /\ r.x = req[s].x /\ r.e = req[s].e /\ r.id = req[s].id
          /\ r.op = req[s].op /\ r.link = req[s].link
      BY <1>1, <1>6 DEF Knows, Fields, ++, Idle
    <2> QED
      BY <1>1, <1>4, <2>1, <2>2, <2>3
      DEF Knows, Fields, Documents, Migrating, Lookups, Verifying, Inserting, Generating, Continuations, Holder
  <1>8. \A u \in Users : Behind(req[s], u) => Behind(r, u)
    BY <1>1, <1>6 DEF Behind, Knows, Fields, ++, Idle
  <1> QED BY <1>1, <1>2, <1>5, <1>6, <1>7, <1>8, Reading DEF SyncSelect, Goto

\* A step that changes the index and the request, and may note a failure.
LEMMA Indexing ==
    ASSUME Inv, OneAtATime, NEW s \in Slots, NEW r,
           UNCHANGED <<users, nextId, post, now, up, crashes, faults, movedAt>>,
           broken' \in BOOLEAN, broken => broken',
           req' = [req EXCEPT ![s] = r], Knows(r)', Index',
           idx' \in [Keys -> [user : 0..MaxUsers, exp : Ends]]
    PROVE  Good
  <1> USE DEF post
  <1>1. DOMAIN req' = Slots /\ \A t \in Slots : req'[t] = r /\ req[t] = req[s]
    BY OnlyRequest DEF Inv, Types
  <1>2. Types'
    BY <1>1 DEF Inv, Types
  <1>3. Rows'
    BY DEF Inv, Rows, Live, Apart, Consistent, Used, Secrets, Proved, Trusted, Reliable
  <1>4. Mails'
    BY DEF Inv, Mails, Tells, Secrets, Live, Trusted, Reliable
  <1>5. owner' = owner /\ proved' = proved /\ Spaces /\ KeepsBio
    BY DEF owner, proved, Live, Spaces, KeepsBio
  <1> QED BY <1>1, <1>2, <1>3, <1>4, <1>5 DEF Inv, Good

\* The sync writes that key.  No other account is to have it: the entry it
\* overwrites has expired, or a statement has failed.
LEMMA SyncWriteGood ==
    ASSUME Inv, OneAtATime, NEW s \in Slots, SyncWrite(s) PROVE Good
  <1>1. Knows(req[s]) /\ req[s].pc = "upsert" /\ Syncing(req[s])
    BY Facts DEF SyncWrite, Knows
  <1>2. PICK d : d = req[s].sd
    OBVIOUS
  <1>3. PICK k : k = req[s].k
    OBVIOUS
  <1>4. PICK key : key = KeyOf(d, k)
    OBVIOUS
  <1>5. /\ d \in Row /\ d.id \in Users /\ Live(d.id) /\ d.email # None /\ k \in 1..4
        /\ users[d.id].id = d.id /\ Consistent(users[d.id])
        /\ d.email = users[d.id].email /\ d.provider = users[d.id].provider
        /\ d.previousEmail = users[d.id].previousEmail
        /\ d.newEmailPending = users[d.id].newEmailPending
        /\ k = 2 => d.previousEmail # None
        /\ k = 3 => d.newEmailPending # None
        /\ k = 4 => d.provider # Local
    <2>1. Fields(req[s]) /\ Syncing(req[s])
      BY <1>1 DEF Knows
    <2>2. d \in Row /\ Current(d)
      BY <1>2, <2>1 DEF Fields, Syncing
    <2>3. k \in 1..4 /\ (k = 2 => d.previousEmail # None) /\ (k = 3 => d.newEmailPending # None)
                    /\ (k = 4 => d.provider # Local)
      BY <1>1, <1>2, <1>3, <2>1 DEF Syncing
    <2>4. users[d.id].id = d.id /\ Consistent(users[d.id])
      BY <2>2, Facts DEF Current
    <2>5. d.email # None
      BY <2>2, Facts DEF Current, Live
    <2> QED BY <2>2, <2>3, <2>4, <2>5 DEF Current
  <1>6. /\ key \in Keys /\ (key \in Permanent <=> k \in {1, 4})
        /\ EntryOf(d, k) \in [user : 0..MaxUsers, exp : Ends]
        /\ EntryOf(d, k).user = d.id /\ d.id # 0
        /\ k \in {1, 4} => EntryOf(d, k).exp = 0 /\ Wants(d, key)
    BY <1>4, <1>5, KeysOf
  <1>7. /\ ~req[s].found => idx[key] = NoEntry
        /\ req[s].found /\ k \in {1, 4} => idx[key] # NoEntry
    BY <1>1, <1>2, <1>3, <1>4 DEF Syncing
  <1>8. PICK r : r = [pc |-> "sync", k |-> k + 1] ++ req[s]
    OBVIOUS
  <1>9. /\ req' = [req EXCEPT ![s] = r]
        /\ \/ idx' = idx /\ k \notin {1, 4}
           \/ idx' = [idx EXCEPT ![key] = EntryOf(d, k)]
        /\ broken' \in BOOLEAN /\ (broken => broken') /\ up' = up
    <2>1. broken \in BOOLEAN
      BY DEF Inv, Types
    <2> QED BY <1>2, <1>3, <1>4, <1>5, <1>7, <1>8, <2>1 DEF SyncWrite, Goto
  <1>10. idx \in [Keys -> [user : 0..MaxUsers, exp : Ends]]
    BY DEF Inv, Types
  <1>11. Index'
    <2>1. ASSUME NEW q \in Keys
          PROVE  /\ idx'[q].user = 0 => idx'[q] = NoEntry
                 /\ idx'[q].user # 0 => Live(idx'[q].user)
                 /\ q \in Permanent => idx'[q].exp = 0
                 /\ idx'[q].user # 0 => Fits(users[idx'[q].user], q)
      <3>1. CASE q = key /\ idx' # idx
        <4>1. idx'[q] = EntryOf(d, k)
          BY <1>6, <1>9, <1>10, <3>1
        <4>2. k \in {2, 3} => users[d.id].isEmailVerified
          BY <1>5 DEF Consistent
        <4>3. Wants(users[d.id], key) \/ users[d.id].isEmailVerified
          BY <1>5, <1>6, <4>2 DEF Wants
        <4>4. Fits(users[d.id], key)
          BY <1>5, <4>3, RowFields, Fitting DEF Inv, Types
        <4> QED BY <1>5, <1>6, <3>1, <4>1, <4>4
      <3>2. CASE q # key \/ idx' = idx
        <4>1. idx'[q] = idx[q]
          BY <1>9, <1>10, <3>2
        <4> QED BY <4>1 DEF Inv, Index
      <3> QED BY <3>1, <3>2
    <2>2. ASSUME Intact', NEW u \in Users, Live(u)
          PROVE  Settled(u)' \/ \E t \in Slots : Behind(req'[t], u)
      <3>1. CASE u = d.id
        <4>1. req'[s].pc = "sync" /\ req'[s].sd.id = u
          BY <1>1, <1>2, <1>8, <1>9, <3>1 DEF Knows, Fields, ++, Idle, Inv, Types
        <4> QED BY <4>1 DEF Behind
      <3>2. CASE u # d.id
        <4>1. Intact
          BY <1>9, <2>2 DEF Intact, SyncWrite, Inv, Types, Reliable
        <4>2. ~Behind(req[s], u)
          BY <1>1, <1>2, <3>2 DEF Behind
        <4>3. Settled(u)
          BY <2>2, <4>1, <4>2 DEF Inv, Index, OneAtATime
        <4>4. k \in {1, 4} => ~Wants(users[u], key)
          <5>1. Apart(users[u], users[d.id])
            BY <1>5, <2>2, <3>2 DEF Inv, Rows
          <5>2. users[u].provider \in OAuthIds \cup {Local}
            BY Facts, RowFields
          <5>3. CASE k = 1
            <6>1. key = <<"primary", d.email>>
              BY <1>4, <5>3 DEF KeyOf
            <6> QED BY <1>5, <5>1, <5>2, <6>1, StoreAssumption DEF Apart, Wants, OAuthIds
          <5>4. CASE k = 4
            <6>1. key = d.provider /\ key \in OAuthIds
              BY <1>4, <1>5, <5>4, RowFields DEF KeyOf
            <6> QED BY <1>5, <5>1, <5>2, <5>4, <6>1, StoreAssumption DEF Apart, Wants, OAuthIds
          <5> QED BY <5>3, <5>4
        <4>5. ASSUME NEW q \in Permanent PROVE idx'[q].user = u <=> Wants(users[u], q)
          <5>1. q \in Keys
            BY DEF Permanent, Keys
          <5>2. CASE q = key
            <6>1. idx'[q].user = d.id
              BY <1>6, <1>9, <1>10, <5>2
            <6> QED BY <1>6, <3>2, <4>4, <5>2, <6>1
          <5>3. CASE q # key
            <6>1. idx'[q] = idx[q]
              BY <1>9, <1>10, <5>1, <5>3
            <6> QED BY <4>3, <6>1 DEF Settled
          <5> QED BY <5>2, <5>3
        <4> QED BY <4>5 DEF Settled, SyncWrite
      <3> QED BY <3>1, <3>2
    <2> QED BY <2>1, <2>2 DEF Index, Live, SyncWrite
  <1>12. Knows(r)'
    <2>1. /\ r.pc = "sync" /\ r.k = k + 1 /\ r.sd = d /\ r.expected = req[s].expected
          /\ DOMAIN r = DOMAIN Idle /\ r.cont = req[s].cont /\ r.doc = req[s].doc
          /\ r.keep = req[s].keep /\ r.x = req[s].x /\ r.e = req[s].e /\ r.id = req[s].id
          /\ r.op = req[s].op /\ r.link = req[s].link
      BY <1>1, <1>2, <1>8, SMTT(30) DEF Knows, Fields, ++, Idle
    <2>2. /\ Current(r.sd)'
          /\ \A q : Current(q) => Current(q)'
      BY <1>1, <1>2, <2>1, ZenonT(60) DEF Syncing, Current, Live, SyncWrite
    <2>3. ASSUME NEW j \in {1, 4}, j < k + 1, Wanted(d, j) PROVE idx'[KeyOf(d, j)].user = d.id
      <3>1. KeyOf(d, j) \in Keys
        BY <1>5, <2>3, KeysOf DEF Wanted
      <3>2. j < k => idx[KeyOf(d, j)].user = d.id
        BY <1>1, <1>2, <1>3, <2>3 DEF Syncing
      <3>3. CASE idx' = idx /\ k \notin {1, 4}
        BY <1>5, <2>3, <3>2, <3>3
      <3>4. CASE idx' = [idx EXCEPT ![key] = EntryOf(d, k)] /\ KeyOf(d, j) = key
        BY <1>6, <1>10, <3>4
      <3>5. CASE idx' = [idx EXCEPT ![key] = EntryOf(d, k)] /\ KeyOf(d, j) # key
        <4>1. idx'[KeyOf(d, j)] = idx[KeyOf(d, j)]
          BY <1>10, <3>1, <3>5
        <4> QED BY <1>4, <1>5, <2>3, <3>2, <3>5, <4>1
      <3> QED BY <1>9, <3>3, <3>4, <3>5
    <2>4. Syncing(r)'
      <3>1. \A j \in {1, 4} : j < r.k /\ Wanted(r.sd, j)' => idx'[KeyOf(r.sd, j)].user = r.sd.id
        BY <2>1, <2>3, Remembers DEF SyncWrite
      <3>2. r.expected \subseteq Keys /\ \A q \in Permanent : q \in r.expected <=> Wants(r.sd, q)
        BY <1>1, <1>2, <2>1 DEF Syncing
      <3> QED BY <2>1, <2>2, <3>1, <3>2 DEF Syncing
    <2>5. k + 1 \in 1..5
      BY <1>5
    <2>6. Fields(r) /\ Documents(r) /\ Migrating(r) /\ Verifying(r) /\ (Reliable => Lookups(r))
      <3>1. Fields(r)
        BY <1>1, <1>2, <2>1, <2>5 DEF Knows, Fields
      <3>2. Documents(r)
        BY <1>1, <1>2, <2>1 DEF Knows, Documents
      <3>3. Migrating(r)
        BY <1>1, <2>1 DEF Knows, Migrating
      <3>4. Verifying(r)
        BY <1>1, <2>1 DEF Knows, Verifying
      <3>5. Reliable => Lookups(r)
        BY <1>1, <1>2, <2>1 DEF Knows, Lookups, Holder
      <3> QED BY <3>1, <3>2, <3>3, <3>4, <3>5
    <2>7. Documents(r)' /\ Migrating(r)' /\ Verifying(r)' /\ (Reliable => Lookups(r)')
      BY <2>6, Remembers DEF SyncWrite
    <2> QED BY <1>1, <1>9, <2>1, <2>4, <2>6, <2>7
            DEF Knows, Fields, Inserting, Generating, SyncWrite, Reliable, post
  <1>13. idx' \in [Keys -> [user : 0..MaxUsers, exp : Ends]]
    BY <1>6, <1>9, <1>10
  <1> QED BY <1>9, <1>11, <1>12, <1>13, Indexing DEF SyncWrite

\* Which entries a sync deletes: those of its account it did not expect.
LEMMA Pruned ==
    ASSUME Inv, NEW u \in Users, NEW kept, NEW pruned, pruned = Prune(idx, u, kept)
    PROVE  /\ pruned \in [Keys -> [user : 0..MaxUsers, exp : Ends]]
           /\ \A key \in Keys :
               /\ pruned[key] = idx[key] \/ pruned[key] = NoEntry
               /\ key \in kept \/ idx[key].user # u => pruned[key] = idx[key]
               /\ key \notin kept => pruned[key].user # u
  <1>1. NoEntry \in [user : 0..MaxUsers, exp : Ends] /\ NoEntry.user = 0 /\ u # 0
    BY StoreAssumption DEF NoEntry, Ends, Users
  <1>2. idx \in [Keys -> [user : 0..MaxUsers, exp : Ends]]
    BY DEF Inv, Types
  <1> QED BY <1>1, <1>2 DEF Prune

\* Pruning keeps the index right, and what it says of the other accounts.
LEMMA PrunedIndex ==
    ASSUME Inv, NEW u \in Users, NEW kept, idx' = Prune(idx, u, kept),
           UNCHANGED <<users, health>>
    PROVE  /\ \A key \in Keys :
               /\ idx'[key].user = 0 => idx'[key] = NoEntry
               /\ idx'[key].user # 0 => Live(idx[key].user)'
               /\ key \in Permanent => idx'[key].exp = 0
               /\ idx'[key].user # 0 => Fits(users'[idx'[key].user], key)
           /\ \A v \in Users \ {u} : Settled(v) => Settled(v)'
           /\ Intact' = Intact
  <1> USE DEF health
  <1>1. \A key \in Keys :
            /\ idx'[key] = idx[key] \/ idx'[key] = NoEntry
            /\ key \in kept \/ idx[key].user # u => idx'[key] = idx[key]
            /\ key \notin kept => idx'[key].user # u
    BY Pruned
  <1>2. NoEntry.user = 0 /\ NoEntry.exp = 0
    BY DEF NoEntry
  <1>3. \A key \in Permanent : key \in Keys
    BY DEF Permanent, Keys
  <1>4. ASSUME NEW v \in Users \ {u}, Settled(v) PROVE Settled(v)'
    <2>1. \A key \in Permanent : idx'[key].user = v <=> idx[key].user = v
      BY <1>1, <1>2, <1>3 DEF Users
    <2> QED BY <1>4, <2>1 DEF Settled
  <1> QED BY <1>1, <1>2, <1>4 DEF Inv, Index, Live, Intact, Reliable

\* A request that goes on without new variables.
LEMMA GoOnTo ==
    ASSUME NEW s, NEW pc, GoOn(s, pc, <<>>)
    PROVE  IF pc = "idle" THEN Answer(s) ELSE Goto(s, [pc |-> pc])
  <1>1. ([pc |-> pc] ++ <<>>) = [pc |-> pc]
    BY DEF ++
  <1> QED BY <1>1 DEF GoOn

\* The sync deletes them, and the row and the index agree.
LEMMA SyncPruneGood ==
    ASSUME Inv, OneAtATime, NEW s \in Slots, SyncPrune(s) PROVE Good
  <1>1. Knows(req[s]) /\ req[s].pc = "sync" /\ Syncing(req[s])
    BY Facts DEF SyncPrune, Knows
  <1>2. PICK d : d = req[s].sd
    OBVIOUS
  <1>3. PICK cont : cont = req[s].cont
    OBVIOUS
  <1>4. PICK r : r = IF cont = "idle" THEN Idle ELSE [pc |-> cont] ++ req[s]
    OBVIOUS
  <1>5. /\ d \in Row /\ Current(d) /\ d.id \in Users /\ Live(d.id) /\ d.email # None
        /\ d.email = users[d.id].email /\ d.provider = users[d.id].provider
        /\ cont \in Continuations
    BY <1>1, <1>2, <1>3 DEF Knows, Fields, Syncing, Current, Live
  <1>6. /\ req' = [req EXCEPT ![s] = r] /\ idx' = Prune(idx, d.id, req[s].expected)
        /\ UNCHANGED <<users, nextId, post, now, health, movedAt>>
    <2>1. IF cont = "idle" THEN Answer(s) ELSE Goto(s, [pc |-> cont])
      BY <1>3, GoOnTo DEF SyncPrune
    <2> QED BY <1>2, <1>4, <2>1 DEF SyncPrune, Answer, Goto
  <1>7. Settled(d.id)'
    <2>1. \A key \in Keys :
              /\ key \in req[s].expected => idx'[key] = idx[key]
              /\ key \notin req[s].expected => idx'[key].user # d.id
      BY <1>5, <1>6, Pruned
    <2>2. ASSUME NEW j \in {1, 4}, j = 4 => d.provider # Local PROVE idx[KeyOf(d, j)].user = d.id
      <3>1. Wanted(d, j)
        BY <2>2 DEF Wanted
      <3>2. j < req[s].k
        BY <1>1, <1>2, <3>1 DEF SyncPrune, Due, Knows, Fields
      <3> QED BY <1>1, <1>2, <3>1, <3>2 DEF Syncing
    <2>3. ASSUME NEW key \in Permanent PROVE idx'[key].user = d.id <=> Wants(users[d.id], key)
      <3>1. key \in Keys
        BY DEF Permanent, Keys
      <3>2. key \in req[s].expected <=> Wants(d, key)
        BY <1>1, <1>2 DEF Syncing
      <3>3. Wants(d, key) <=> Wants(users[d.id], key)
        BY <1>5 DEF Wants
      <3>4. Wants(d, key) => idx[key].user = d.id
        BY <2>2 DEF Wants, KeyOf
      <3> QED BY <2>1, <3>1, <3>2, <3>3, <3>4
    <2> QED BY <1>6, <2>3 DEF Settled
  <1>8. Index'
    <2>1. \A v \in Users \ {d.id} : Live(v)' /\ Intact' => Settled(v)'
      <3>1. \A v \in Users \ {d.id} : ~Behind(req[s], v)
        BY <1>1, <1>2 DEF Behind
      <3>2. \A v \in Users \ {d.id} : Live(v) /\ Intact => Settled(v)
        BY <3>1 DEF Inv, Index, OneAtATime
      <3> QED BY <1>5, <1>6, <3>2, PrunedIndex DEF Live
    <2> QED BY <1>5, <1>6, <1>7, <2>1, PrunedIndex DEF Index
  <1>9. Knows(r)'
    <2>1. CASE cont = "idle"
      BY <1>4, <2>1, NoRowIsRow, StoreAssumption
      DEF Knows, Fields, Documents, Migrating, Lookups, Verifying, Inserting, Generating, ++, Idle, Continuations
    <2>2. CASE cont # "idle"
      <3>1. /\ r.pc = cont /\ DOMAIN r = DOMAIN Idle /\ r.cont = cont /\ r.doc = req[s].doc
            /\ r.keep = req[s].keep /\ r.x = req[s].x /\ r.e = req[s].e /\ r.id = req[s].id
            /\ r.op = req[s].op /\ r.link = req[s].link /\ r.sd = d /\ r.k = req[s].k
        BY <1>1, <1>2, <1>3, <1>4, <2>2 DEF Knows, Fields, ++, Idle
      <3>2. cont \in {"mailverify", "strategy", "mailmigrate", "saveverified", "checkbio"}
        BY <1>5, <2>2 DEF Continuations
      <3>3. Fields(r)
        BY <1>1, <1>2, <1>3, <3>1, <3>2 DEF Knows, Fields
      <3>4. Documents(r)
        BY <1>1, <1>2, <1>3, <3>1, <3>2 DEF Knows, Documents
      <3>5. Migrating(r)
        BY <1>1, <1>3, <3>1, <3>2 DEF Knows, Migrating
      <3>6. Verifying(r)
        BY <1>1, <1>3, <3>1, <3>2 DEF Knows, Verifying
      <3>7. Reliable => Lookups(r)
        BY <1>1, <1>2, <1>3, <3>1, <3>2 DEF Knows, Lookups, Holder
      <3>8. Documents(r)' /\ Migrating(r)' /\ Verifying(r)' /\ (Reliable => Lookups(r)')
        BY <1>6, <3>4, <3>5, <3>6, <3>7, Remembers DEF health
      <3> QED BY <1>1, <1>6, <3>1, <3>2, <3>3, <3>8
              DEF Knows, Fields, Inserting, Generating, Reliable, health
    <2> QED BY <2>1, <2>2
  <1>10. idx' \in [Keys -> [user : 0..MaxUsers, exp : Ends]] /\ broken' \in BOOLEAN
    BY <1>5, <1>6, Pruned DEF Inv, Types, health
  <1> QED BY <1>6, <1>8, <1>9, <1>10, Indexing DEF health

\* releaseUserIdentityIndexes, before the account x is deleted
LEMMA ReleaseGood ==
    ASSUME Inv, OneAtATime, NEW s \in Slots, NEW pc, NEW then,
           <<pc, then>> \in {<<"finrelease", "findelete">>, <<"recrelease", "recdelete">>},
           At(s, pc), Release(s, req[s].x, then)
    PROVE  Good
  <1>1. Knows(req[s]) /\ req[s].pc = pc /\ req[s].x \in Users
    BY Facts DEF Knows, Migrating
  <1>2. InStep(req[s])
    BY <1>1 DEF InStep, Behind
  <1>3. PICK r : r = [pc |-> then] ++ req[s]
    OBVIOUS
  <1>4. /\ req' = [req EXCEPT ![s] = r] /\ idx' = Prune(idx, req[s].x, {})
        /\ UNCHANGED <<users, nextId, post, now, health, movedAt>>
    BY <1>3, GoOnTo DEF Release, Goto
  <1>5. Index'
    <2>1. Behind(req'[s], req[s].x)
      BY <1>1, <1>3, <1>4 DEF Behind, ++, Knows, Fields, Idle, Inv, Types
    <2>2. \A v \in Users \ {req[s].x} : Live(v)' /\ Intact' => Settled(v)'
      <3>1. \A v \in Users : Live(v) /\ Intact => Settled(v)
        BY <1>2 DEF Inv, Index, OneAtATime, InStep
      <3> QED BY <1>1, <1>4, <3>1, PrunedIndex DEF Live
    <2> QED BY <1>1, <1>4, <2>1, <2>2, PrunedIndex DEF Index
  <1>6. Knows(r)'
    <2>1. Knows(r)
      BY <1>1, <1>3, ZenonT(60)
      DEF Knows, Fields, Documents, Migrating, Lookups, Verifying, Inserting, Generating, ++, Idle, Holder
    <2> QED BY <1>1, <1>3, <1>4, <2>1, Remembers
            DEF Knows, Fields, Inserting, Generating, Reliable, health, post, ++, Idle
  <1>7. idx' \in [Keys -> [user : 0..MaxUsers, exp : Ends]] /\ broken' \in BOOLEAN
    BY <1>1, <1>4, Pruned DEF Inv, Types, health
  <1> QED BY <1>4, <1>5, <1>6, <1>7, Indexing DEF health

------------------------------------------------------------------------------
(* Time, failure and restart *)

\* Time passes: a deadline may be over, an account that may move still may.
LEMMA TickGood ==
    ASSUME Inv, Tick PROVE Good
  <1>1. /\ now \in Nat /\ now' = now + 1 /\ now' \in 1..MaxNow
        /\ UNCHANGED <<users, nextId, idx, req, links, gen, opened, up, crashes, faults, broken, movedAt>>
    BY StoreAssumption, SMTT(30) DEF Inv, Types, Tick, store, post, health
  <1>2. Types'
    BY <1>1 DEF Inv, Types
  <1>3. ASSUME NEW u \in Users, Live(u) PROVE users[u].id = u /\ Consistent(users[u])'
    <2>1. /\ users[u].id = u /\ Consistent(users[u])
          /\ users[u].lastMigrationDate \in Nat /\ movedAt[u] \in Nat /\ Cooldown \in Nat
      BY <1>3, Facts, RowFields, StoreAssumption DEF Inv, Types, Rows, Ends
    <2>2. now - movedAt[u] >= Cooldown => now' - movedAt'[u] >= Cooldown
      BY <1>1, <2>1
    <2>3. users[u].lastMigrationDate <= now => users[u].lastMigrationDate <= now'
      BY <1>1, <2>1
    <2> QED BY <1>1, <2>1, <2>2, <2>3 DEF Consistent, Used, Proved, Secrets, Trusted, Reliable
  <1>4. Rows'
    BY <1>1, <1>3 DEF Inv, Rows, Live, Apart
  <1>5. Mails'
    BY <1>1 DEF Inv, Mails, Tells, Secrets, Live, Trusted, Reliable
  <1>6. Index'
    BY <1>1 DEF Inv, Index, Live, Settled, Intact, Reliable
  <1>7. ASSUME NEW s \in Slots PROVE Knows(req[s])'
    <2>1. Knows(req[s])
      BY DEF Inv
    <2>2. PICK r : r = req[s]
      OBVIOUS
    <2>3. \A d : Current(d) => Current(d)'
      BY <1>1 DEF Current, Live
    <2>4. Documents(r)'
      BY <1>1, <2>1, <2>2, <2>3 DEF Knows, Documents, Live
    <2>5. Migrating(r)'
      <3>1. r.doc.id \in Users => movedAt[r.doc.id] \in Nat /\ Cooldown \in Nat
        BY StoreAssumption, SMTT(30) DEF Inv, Types
      <3>2. Stage(r) \in InInitiate => r.doc.id \in Users
        BY <2>1, <2>2, Zenon DEF Knows, Documents, Current
      <3> QED BY <1>1, <2>1, <2>2, <3>1, <3>2 DEF Knows, Migrating, Used, BothVerified
    <2>6. Verifying(r)'
      BY <1>1, <2>1, <2>2 DEF Knows, Verifying, Proved, Trusted, Reliable
    <2>7. Reliable => Lookups(r)'
      BY <1>1, <2>1, <2>2 DEF Knows, Lookups, Holder, Live
    <2>8. r.pc \in {"sync", "upsert"} => Syncing(r)'
      BY <1>1, <2>1, <2>2, <2>3 DEF Knows, Syncing, Wanted
    <2> QED BY <1>1, <2>1, <2>2, <2>4, <2>5, <2>6, <2>7, <2>8
            DEF Knows, Fields, Inserting, Generating, Reliable
  <1>8. owner' = owner /\ proved' = proved /\ Spaces /\ KeepsBio
    BY <1>1 DEF owner, proved, Live, Spaces, KeepsBio
  <1> QED BY <1>2, <1>4, <1>5, <1>6, <1>7, <1>8 DEF Inv, Good

\* A statement on the index fails and ends the request.
LEMMA StatementFailsGood ==
    ASSUME Inv, OneAtATime, NEW s \in Slots, StatementFails(s) PROVE Good
  <1>1. /\ req' = [req EXCEPT ![s] = Idle] /\ broken' = TRUE /\ faults' \in 0..MaxFaults
        /\ ~Reliable
        /\ UNCHANGED <<users, nextId, idx, links, gen, opened, now, up, crashes, movedAt>>
    BY StoreAssumption, SMTT(30) DEF StatementFails, Answer, Inv, Types, store, post, Reliable
  <1>2. DOMAIN req' = Slots /\ \A t \in Slots : req'[t] = Idle
    BY <1>1, OnlyRequest DEF Inv, Types
  <1>3. Types'
    BY <1>1, <1>2 DEF Inv, Types
  <1>4. Rows'
    BY <1>1 DEF Inv, Rows, Live, Apart, Consistent, Used, Secrets, Proved, Trusted, Reliable
  <1>5. Mails'
    BY <1>1 DEF Inv, Mails, Tells, Secrets, Live, Trusted, Reliable
  <1>6. Index'
    BY <1>1 DEF Inv, Index, Live, Intact, Reliable
  <1>7. Knows(Idle)'
    BY NoRowIsRow, StoreAssumption
    DEF Knows, Fields, Documents, Migrating, Lookups, Verifying, Inserting, Generating, ++, Idle, Continuations
  <1>8. owner' = owner /\ proved' = proved /\ Spaces /\ KeepsBio
    BY <1>1 DEF owner, proved, Live, Spaces, KeepsBio
  <1> QED BY <1>2, <1>3, <1>4, <1>5, <1>6, <1>7, <1>8 DEF Inv, Good

\* The service dies: the requests are gone, and nothing is promised until it
\* boots.
LEMMA CrashGood ==
    ASSUME Inv, Crash PROVE Good
  <1>1. /\ DOMAIN req' = Slots /\ \A t \in Slots : req'[t] = Idle
        /\ up' = FALSE /\ crashes' \in 0..MaxCrashes
        /\ UNCHANGED <<users, nextId, idx, links, gen, opened, now, faults, broken, movedAt>>
    BY StoreAssumption, SMTT(30) DEF Crash, Inv, Types, store, post
  <1>2. Types'
    BY <1>1 DEF Inv, Types
  <1>3. Rows'
    BY <1>1 DEF Inv, Rows, Live, Apart, Consistent, Used, Secrets, Proved, Trusted, Reliable
  <1>4. Mails'
    BY <1>1 DEF Inv, Mails, Tells, Secrets, Live, Trusted, Reliable
  <1>5. Index'
    BY <1>1 DEF Inv, Index, Live, Intact
  <1>6. Knows(Idle)'
    BY NoRowIsRow, StoreAssumption
    DEF Knows, Fields, Documents, Migrating, Lookups, Verifying, Inserting, Generating, ++, Idle, Continuations
  <1>7. owner' = owner /\ proved' = proved /\ Spaces /\ KeepsBio
    BY <1>1 DEF owner, proved, Live, Spaces, KeepsBio
  <1> QED BY <1>1, <1>2, <1>3, <1>4, <1>5, <1>6, <1>7 DEF Inv, Good

\* The sweeper deletes entries with a deadline; those for good have none.
LEMMA SweepGood ==
    ASSUME Inv, Sweep PROVE Good
  <1>1. UNCHANGED <<users, nextId, req, links, gen, opened, now, up, crashes, faults, broken, movedAt>>
    BY DEF Sweep, post, health
  <1>2. \A key \in Keys :
            /\ idx'[key] = idx[key] \/ idx'[key] = NoEntry
            /\ idx[key].exp = 0 => idx'[key] = idx[key]
    BY DEF Sweep
  <1>3. idx' \in [Keys -> [user : 0..MaxUsers, exp : Ends]]
    <2>1. NoEntry \in [user : 0..MaxUsers, exp : Ends]
      BY StoreAssumption DEF NoEntry, Ends
    <2>2. idx \in [Keys -> [user : 0..MaxUsers, exp : Ends]]
      BY DEF Inv, Types
    <2> QED BY <2>1, <2>2 DEF Sweep
  <1>4. \A key \in Permanent : key \in Keys /\ idx'[key] = idx[key]
    BY <1>2 DEF Inv, Index, Permanent, Keys
  <1>5. Types'
    BY <1>1, <1>3 DEF Inv, Types
  <1>6. Rows'
    BY <1>1 DEF Inv, Rows, Live, Apart, Consistent, Used, Secrets, Proved, Trusted, Reliable
  <1>7. Mails'
    BY <1>1 DEF Inv, Mails, Tells, Secrets, Live, Trusted, Reliable
  <1>8. Index'
    <2>1. \A key \in Keys :
             /\ idx'[key].user = 0 => idx'[key] = NoEntry
             /\ idx'[key].user # 0 => Live(idx[key].user)'
             /\ key \in Permanent => idx'[key].exp = 0
             /\ idx'[key].user # 0 => Fits(users'[idx'[key].user], key)
      BY <1>1, <1>2 DEF Inv, Index, Live, NoEntry
    <2>2. \A u \in Users : Settled(u) => Settled(u)'
      BY <1>1, <1>4 DEF Settled
    <2> QED BY <1>1, <2>1, <2>2 DEF Inv, Index, Live, Intact, Reliable
  <1>9. ASSUME NEW s \in Slots PROVE Knows(req[s])'
    <2>1. PICK r : r = req[s]
      OBVIOUS
    <2>2. Knows(r)
      BY <2>1 DEF Inv
    <2>3. r.pc \in {"sync", "upsert"} => Syncing(r)'
      <3>1. SUFFICES ASSUME r.pc \in {"sync", "upsert"} PROVE Syncing(r)'
        OBVIOUS
      <3>2. Syncing(r) /\ r.sd \in Row /\ r.sd.email # None /\ r.sd.id \in Users
        BY <2>2, <3>1 DEF Knows, Fields, Syncing, Current, Live
      <3>3. \A j \in {1, 4} : Wanted(r.sd, j) => KeyOf(r.sd, j) \in Permanent
        BY <3>2, KeysOf DEF Wanted
      <3>4. r.pc = "upsert" =>
               /\ ~r.found => idx'[KeyOf(r.sd, r.k)] = NoEntry
               /\ r.found /\ r.k \in {1, 4} => idx'[KeyOf(r.sd, r.k)] # NoEntry
        <4>1. SUFFICES ASSUME r.pc = "upsert" PROVE
               /\ ~r.found => idx'[KeyOf(r.sd, r.k)] = NoEntry
               /\ r.found /\ r.k \in {1, 4} => idx'[KeyOf(r.sd, r.k)] # NoEntry
          OBVIOUS
        <4>2. KeyOf(r.sd, r.k) \in Keys /\ (r.k \in {1, 4} => KeyOf(r.sd, r.k) \in Permanent)
          BY <3>2, <4>1, KeysOf DEF Syncing
        <4> QED BY <1>2, <1>4, <3>2, <4>1, <4>2 DEF Syncing
      <3>5. Current(r.sd)'
        BY <1>1, <3>2 DEF Syncing, Current, Live
      <3>6. \A j \in {1, 4} : j < r.k /\ Wanted(r.sd, j)' => idx'[KeyOf(r.sd, j)].user = r.sd.id
        BY <1>1, <1>4, <3>2, <3>3, Remembers DEF Syncing, post
      <3> QED BY <3>1, <3>2, <3>4, <3>5, <3>6 DEF Syncing
    <2> QED BY <1>1, <2>1, <2>2, <2>3, Remembers
            DEF Knows, Fields, Inserting, Generating, Reliable, post
  <1>10. owner' = owner /\ proved' = proved /\ Spaces /\ KeepsBio
    BY <1>1 DEF owner, proved, Live, Spaces, KeepsBio
  <1> QED BY <1>5, <1>6, <1>7, <1>8, <1>9, <1>10 DEF Inv, Good

\* A row's next version changes nothing else of it.
LEMMA BumpVersionGood ==
    ASSUME Inv, NEW u \in Users, BumpVersion(u) PROVE Good
  <1>1. UNCHANGED <<nextId, idx, req, links, gen, opened, now, up, crashes, faults, broken, movedAt>>
    BY DEF BumpVersion, post, health
  <1>2. users[u] \in Row /\ users \in [Users -> Row]
    BY DEF Inv, Types
  <1>3. users' = [users EXCEPT ![u] = [users[u] EXCEPT !.tokenVersion = @ + 1]]
    BY DEF BumpVersion
  <1>4. PICK r : r = [users[u] EXCEPT !.tokenVersion = @ + 1]
    OBVIOUS
  <1>5. r \in Row
    <2>1. users[u].tokenVersion + 1 \in Nat
      BY <1>2, RowFields
    <2> QED BY <1>2, <1>4, <2>1 DEF Row
  <1>6. users' \in [Users -> Row] /\ users'[u] = r /\ \A v \in Users : v # u => users'[v] = users[v]
    BY <1>2, <1>3, <1>4, <1>5
  <1>7. /\ r.id = users[u].id /\ r.email = users[u].email
        /\ r.isEmailVerified = users[u].isEmailVerified /\ r.provider = users[u].provider
        /\ r.emailVerificationToken = users[u].emailVerificationToken
        /\ r.previousEmail = users[u].previousEmail
        /\ r.newEmailPending = users[u].newEmailPending
        /\ r.migrationToken = users[u].migrationToken
        /\ r.currentEmailVerified = users[u].currentEmailVerified
        /\ r.newEmailVerified = users[u].newEmailVerified
        /\ r.lastMigrationDate = users[u].lastMigrationDate
        /\ r.bio = users[u].bio
    BY <1>2, <1>4, RowFields DEF NoRow
  <1>8. \A v \in Users :
            /\ users'[v].id = users[v].id /\ users'[v].email = users[v].email
            /\ users'[v].isEmailVerified = users[v].isEmailVerified
            /\ users'[v].provider = users[v].provider
            /\ users'[v].emailVerificationToken = users[v].emailVerificationToken
            /\ users'[v].previousEmail = users[v].previousEmail
            /\ users'[v].newEmailPending = users[v].newEmailPending
            /\ users'[v].migrationToken = users[v].migrationToken
            /\ users'[v].currentEmailVerified = users[v].currentEmailVerified
            /\ users'[v].newEmailVerified = users[v].newEmailVerified
            /\ users'[v].lastMigrationDate = users[v].lastMigrationDate
            /\ users'[v].bio = users[v].bio
    BY <1>6, <1>7
  <1> HIDE <1>3, <1>4, <1>6, <1>7
  <1>9. \A v : Live(v)' = Live(v) \/ v \notin Users
    BY <1>8 DEF Live
  <1>10. Live(u)
    BY DEF BumpVersion
  <1>11. Types'
    BY <1>1, <1>6 DEF Inv, Types
  <1>12. Rows'
    <2>1. \A v \in Users : Consistent(users[v]) => Consistent(users[v])'
      BY <1>1, <1>8 DEF Consistent, Used, Secrets, Proved, Trusted, Reliable
    <2>2. \A v \in Users : ~Live(v) => users'[v] = users[v]
      BY <1>6, <1>10
    <2>3. \A v, w \in Users : Apart(users[v], users[w]) => Apart(users[v], users[w])'
      BY <1>8 DEF Apart
    <2> QED BY <1>1, <1>8, <1>9, <2>1, <2>2, <2>3 DEF Inv, Rows
  <1>13. Mails'
    <2>1. \A l : \A v \in Users : Tells(l, users[v]) => Tells(l, users[v])'
      BY <1>8 DEF Tells, Trusted, Reliable
    <2> QED BY <1>1, <1>9, <2>1 DEF Inv, Mails, Secrets
  <1>14. Index'
    <2>1. \A key \in Keys : idx[key].user # 0 => idx[key].user \in Users
      BY DEF Inv, Types, Users
    <2>2. \A v \in Users : Settled(v)' = Settled(v)
      BY <1>1, <1>8 DEF Settled, Wants
    <2>3. \A key : \A v \in Users : Fits(users[v], key) => Fits(users'[v], key)
      BY <1>8 DEF Fits
    <2> QED BY <1>1, <1>9, <2>1, <2>2, <2>3 DEF Inv, Index, Intact, Reliable
  <1>15. ASSUME NEW s \in Slots PROVE Knows(req[s])'
    <2>1. PICK r1 : r1 = req[s]
      OBVIOUS
    <2>2. Knows(r1)
      BY <2>1 DEF Inv
    <2>3. \A d : Current(d) => Current(d)'
      BY <1>8, <1>9 DEF Current
    <2>4. Documents(r1)'
      <3>1. /\ Stage(r1) \in {"reverifysave", "takeover"} => r1.doc.id \in Users
            /\ Stage(r1) = "create" /\ r1.doc.id # 0 => r1.doc.id \in Users
            /\ r1.x # 0 => r1.x \in Users
        BY <2>2 DEF Knows, Fields, Documents, Current, Users
      <3>2. Live(r1.x)' => Live(r1.x) /\ r1.x \in Users
        BY <1>9, <3>1 DEF Live
      <3> QED BY <1>8, <2>2, <2>3, <3>1, <3>2 DEF Knows, Documents
    <2>5. Migrating(r1)'
      <3>1. Stage(r1) \in InInitiate \cup InVerifyNew \cup InFinalise \cup {"saveverified", "finalise", "loginsave"}
               => r1.doc.id \in Users
        BY <2>2 DEF Knows, Documents, Current
      <3> QED BY <1>1, <1>8, <2>2, <3>1 DEF Knows, Migrating, Used, BothVerified
    <2>6. Verifying(r1)'
      <3>1. Stage(r1) = "saveverify" => r1.doc.id \in Users
        BY <2>2 DEF Knows, Documents, Current
      <3> QED BY <1>1, <1>8, <2>2, <3>1 DEF Knows, Verifying, Proved, Trusted, Reliable
    <2>7. Reliable => Lookups(r1)'
      <3>1. /\ Stage(r1) \in {"initreload", "initsave"} => r1.doc.id \in Users
            /\ r1.x # 0 => r1.x \in Users
        BY <2>2 DEF Knows, Fields, Documents, Current, Users
      <3>2. Holder(r1) => Holder(r1)'
        BY <1>8, <1>9, <3>1 DEF Holder
      <3>3. Live(r1.x)' => Live(r1.x)
        BY <1>9, <3>1 DEF Live
      <3> QED BY <1>8, <2>2, <3>1, <3>2, <3>3 DEF Knows, Lookups, Live
    <2>8. r1.pc \in {"sync", "upsert"} => Syncing(r1)'
      BY <1>1, <2>2, <2>3 DEF Knows, Syncing, Wanted
    <2> QED BY <1>1, <2>1, <2>2, <2>4, <2>5, <2>6, <2>7, <2>8
            DEF Knows, Fields, Inserting, Generating, Reliable
  <1>16. owner' = owner /\ proved' = proved /\ Spaces /\ KeepsBio
    BY <1>1, <1>8, <1>9 DEF owner, proved, Spaces, KeepsBio
  <1> QED BY <1>11, <1>12, <1>13, <1>14, <1>15, <1>16 DEF Inv, Good

\* The largest of some numbers is one of them.
LEMMA LastIn ==
    ASSUME NEW n \in Nat, NEW S, S \subseteq 1..n, S # {}
    PROVE  Max(S) \in S
  <1> DEFINE T == {n - x : x \in S}
  <1>1. T # {} /\ T \subseteq Nat /\ T \subseteq 0..n
    <2>1. \A x \in S : n - x \in 0..n
      OBVIOUS
    <2>2. PICK x \in S : TRUE
      OBVIOUS
    <2>3. n - x \in T
      OBVIOUS
    <2> QED BY <2>1, <2>3
  <1>2. IsFiniteSet(0..n)
    BY FS_Interval
  <1>3. IsFiniteSet(T)
    BY <1>1, <1>2, FS_Subset
  <1>4. PICK t \in T : \A y \in T : t <= y
    <2> HIDE DEF T
    <2> QED BY <1>1, <1>3, LeastIn
  <1>5. PICK x \in S : t = n - x
    OBVIOUS
  <1>6. \A y \in S : y <= x
    <2> TAKE y \in S
    <2>1. n - y \in T
      OBVIOUS
    <2>2. t <= n - y
      BY <1>4, <2>1
    <2> QED BY <1>5, <2>2
  <1> QED BY <1>5, <1>6 DEF Max

\* The index after the backfill of the first n users.
LEMMA Backfilled ==
    ASSUME users \in [Users -> Row], Rows, NEW n \in 0..MaxUsers,
           NEW ix \in [Keys -> [user : 0..MaxUsers, exp : Ends]],
           \A key \in Keys :
               /\ ix[key].user = 0 => ix[key] = NoEntry
               /\ ix[key].user # 0 => Live(ix[key].user)
               /\ key \in Permanent => ix[key].exp = 0
               /\ ix[key].user # 0 => Fits(users[ix[key].user], key),
           NEW b, b = Backfill(ix, n)
    PROVE  /\ b \in [Keys -> [user : 0..MaxUsers, exp : Ends]]
           /\ \A key \in Keys :
               /\ b[key].user = 0 => b[key] = NoEntry
               /\ b[key].user # 0 => Live(b[key].user)
               /\ key \in Permanent => b[key].exp = 0
               /\ b[key].user # 0 => Fits(users[b[key].user], key)
           /\ n = MaxUsers =>
                  \A u \in Users, key \in Permanent :
                      Live(u) => (b[key].user = u <=> Wants(users[u], key))
  <1> DEFINE done == {u \in 1..n : Live(u)}
             takers(key) == {u \in done : key \in expectedKeysForUser(users[u])}
             entry(d, key) == EntryOf(d, CHOOSE k \in 1..4 : Wanted(d, k) /\ KeyOf(d, k) = key)
  <1>1. b = [key \in Keys |-> IF takers(key) # {} THEN entry(users[Max(takers(key))], key)
                              ELSE IF ix[key].user \in done THEN NoEntry ELSE ix[key]]
    BY DEF Backfill
  <1>2. NoEntry \in [user : 0..MaxUsers, exp : Ends] /\ NoEntry.user = 0 /\ NoEntry.exp = 0
    BY StoreAssumption, SMTT(30) DEF NoEntry, Ends
  <1>3. \A u \in done : /\ u \in Users /\ Live(u) /\ users[u] \in Row /\ users[u].id = u
                        /\ users[u].email # None /\ Consistent(users[u])
    <2>1. \A u \in done : u \in Users /\ Live(u)
      BY StoreAssumption, SMTT(30) DEF Users
    <2> QED BY <2>1 DEF Rows, Live
  <1>4. ASSUME NEW key \in Keys, takers(key) # {}
        PROVE  \E u \in takers(key), k \in 1..4 :
                   Wanted(users[u], k) /\ KeyOf(users[u], k) = key /\ b[key] = EntryOf(users[u], k)
    <2>1. PICK u \in takers(key) : u = Max(takers(key))
      <3>1. takers(key) \subseteq 1..n /\ n \in Nat
        BY StoreAssumption
      <3> HIDE DEF takers
      <3> QED BY <1>4, <3>1, LastIn
    <2>2. key \in expectedKeysForUser(users[u])
      BY <2>1
    <2>3. \E k \in 1..4 : Wanted(users[u], k) /\ KeyOf(users[u], k) = key
      BY <2>2 DEF expectedKeysForUser
    <2>4. PICK k \in 1..4 : /\ Wanted(users[u], k) /\ KeyOf(users[u], k) = key
                            /\ entry(users[u], key) = EntryOf(users[u], k)
      BY <2>3
    <2>5. b[key] = entry(users[u], key)
      BY <1>1, <1>4, <2>1
    <2> QED BY <2>1, <2>4, <2>5
  <1>5. ASSUME NEW key \in Keys, takers(key) = {}
        PROVE  b[key] = IF ix[key].user \in done THEN NoEntry ELSE ix[key]
    BY <1>1, <1>5
  <1>6. ASSUME NEW u \in done, NEW k \in 1..4, Wanted(users[u], k)
        PROVE  /\ KeyOf(users[u], k) \in Permanent <=> k \in {1, 4}
               /\ EntryOf(users[u], k) \in [user : 0..MaxUsers, exp : Ends]
               /\ EntryOf(users[u], k).user = u /\ u # 0
               /\ k \in {1, 4} => EntryOf(users[u], k).exp = 0 /\ Wants(users[u], KeyOf(users[u], k))
               /\ k \in {2, 3} => users[u].isEmailVerified
    <2>1. /\ k = 2 => users[u].previousEmail # None
          /\ k = 3 => users[u].newEmailPending # None
          /\ k = 4 => users[u].provider # Local
      BY <1>6 DEF Wanted, InGrace, InPending
    <2>2. users[u] \in Row /\ users[u].email # None /\ users[u].id = u /\ u \in Users
      BY <1>3
    <2>3. k \in {2, 3} => users[u].isEmailVerified
      BY <1>3, <2>1 DEF Consistent
    <2> QED BY <2>1, <2>2, <2>3, KeysOf
  <1>7. ASSUME NEW key \in Keys, takers(key) # {}
        PROVE  \E u \in takers(key) :
                   /\ b[key] \in [user : 0..MaxUsers, exp : Ends] /\ b[key].user = u /\ u # 0
                   /\ key \in Permanent => b[key].exp = 0 /\ Wants(users[u], key)
                   /\ Fits(users[u], key)
    <2>1. PICK u \in takers(key), k \in 1..4 :
              Wanted(users[u], k) /\ KeyOf(users[u], k) = key /\ b[key] = EntryOf(users[u], k)
      BY <1>4, <1>7
    <2>2. u \in done
      BY <2>1
    <2> HIDE DEF takers, done
    <2>3. k \in {2, 3} \/ k \in {1, 4}
      OBVIOUS
    <2> QED BY <1>3, <1>6, <2>1, <2>2, <2>3, Fitting
  <1>8. b \in [Keys -> [user : 0..MaxUsers, exp : Ends]]
    <2>1. \A key \in Keys : b[key] \in [user : 0..MaxUsers, exp : Ends]
      <3> HIDE DEF takers, done
      <3> QED BY <1>2, <1>5, <1>7
    <2> HIDE DEF takers, entry, done
    <2> QED BY <1>1, <2>1
  <1>9. ASSUME NEW key \in Keys
        PROVE  /\ b[key].user = 0 => b[key] = NoEntry
               /\ b[key].user # 0 => Live(b[key].user)
               /\ key \in Permanent => b[key].exp = 0
               /\ b[key].user # 0 => Fits(users[b[key].user], key)
    <2>1. CASE takers(key) # {}
      <3>1. \A u \in takers(key) : Live(u)
        BY <1>3
      <3> HIDE DEF takers, done
      <3> QED BY <1>7, <2>1, <3>1
    <2>2. CASE takers(key) = {}
      <3> HIDE DEF takers, done
      <3> QED BY <1>2, <1>5, <2>2
    <2> QED BY <2>1, <2>2
  <1>10. ASSUME n = MaxUsers, NEW u \in Users, NEW key \in Permanent, Live(u)
         PROVE  b[key].user = u <=> Wants(users[u], key)
    <2>1. key \in Keys
      BY DEF Permanent, Keys
    <2>2. u \in done /\ \A v \in Users : Live(v) => v \in done
      BY <1>10 DEF Users
    <2>3. Wants(users[u], key) => u \in takers(key)
      <3>1. /\ Wanted(users[u], 1) /\ KeyOf(users[u], 1) = <<"primary", users[u].email>>
            /\ users[u].provider # Local => Wanted(users[u], 4) /\ KeyOf(users[u], 4) = users[u].provider
        BY DEF Wanted, KeyOf
      <3> QED BY <2>2, <3>1 DEF Wants, expectedKeysForUser
    <2>4. ASSUME NEW v \in Users, Live(v), v # u, Wants(users[v], key) PROVE ~Wants(users[u], key)
      <3>1. Apart(users[u], users[v])
        BY <1>10, <2>4 DEF Rows
      <3>2. users[u].provider \in OAuthIds \cup {Local} /\ users[v].provider \in OAuthIds \cup {Local}
        BY RowFields
      <3> QED BY <2>4, <3>1, <3>2, StoreAssumption, SMTT(30) DEF Apart, Wants, OAuthIds
    <2>5. CASE takers(key) # {}
      <3>1. PICK v \in takers(key) : b[key].user = v /\ Wants(users[v], key)
        BY <1>7, <2>1, <2>5
      <3>2. v \in Users /\ Live(v)
        BY <1>3
      <3> HIDE DEF takers, done
      <3> QED BY <2>4, <3>1, <3>2
    <2>6. CASE takers(key) = {}
      <3>1. ix[key].user # 0 => ix[key].user \in done
        BY <2>1, <2>2 DEF Users, Live
      <3> HIDE DEF takers, done
      <3>2. b[key].user = 0
        BY <1>2, <1>5, <2>1, <2>6, <3>1
      <3> QED BY <2>3, <2>6, <3>2 DEF Users
    <2> QED BY <2>5, <2>6
  <1> QED BY <1>8, <1>9, <1>10

\* The service boots and fills the index from the rows: if no statement fails
\* it says of every account what it is to say.
LEMMA BootGood ==
    ASSUME Inv, Boot PROVE Good
  <1>1. PICK n \in 0..MaxUsers : /\ idx' = Backfill(idx, n)
                                 /\ broken' = (n < MaxUsers)
                                 /\ faults' = IF n < MaxUsers THEN faults + 1 ELSE faults
                                 /\ faults' <= MaxFaults
    BY DEF Boot
  <1>2. UNCHANGED <<users, nextId, req, links, gen, opened, now, crashes, movedAt>> /\ up' = TRUE /\ ~up
    BY DEF Boot, post
  <1>3. /\ idx' \in [Keys -> [user : 0..MaxUsers, exp : Ends]]
        /\ \A key \in Keys :
               /\ idx'[key].user = 0 => idx'[key] = NoEntry
               /\ idx'[key].user # 0 => Live(idx'[key].user)
               /\ key \in Permanent => idx'[key].exp = 0
               /\ idx'[key].user # 0 => Fits(users[idx'[key].user], key)
        /\ n = MaxUsers => \A u \in Users, key \in Permanent :
                               Live(u) => (idx'[key].user = u <=> Wants(users[u], key))
    <2>1. PICK b : b = Backfill(idx, n)
      OBVIOUS
    <2> QED BY <1>1, <2>1, Backfilled DEF Inv, Types, Index
  <1>4. faults' \in 0..MaxFaults /\ (n < MaxUsers => ~Reliable) /\ n \in Nat
    BY <1>1, StoreAssumption, SMTT(30) DEF Inv, Types, Reliable
  <1>5. \A s \in Slots : req[s].pc = "idle"
    BY <1>2, Facts
  <1>6. Types'
    BY <1>1, <1>2, <1>3, <1>4 DEF Inv, Types
  <1>7. Rows'
    BY <1>2 DEF Inv, Rows, Live, Apart, Consistent, Used, Secrets, Proved, Trusted, Reliable
  <1>8. Mails'
    BY <1>2 DEF Inv, Mails, Tells, Secrets, Live, Trusted, Reliable
  <1>9. Index'
    <2>1. Intact' => n = MaxUsers
      <3>1. Intact' => ~(n < MaxUsers)
        BY <1>1, <1>4, Zenon DEF Intact, Reliable
      <3> QED BY <1>4, <3>1, StoreAssumption
    <2> QED BY <1>2, <1>3, <2>1 DEF Index, Live, Settled
  <1>10. ASSUME NEW s \in Slots PROVE Knows(req[s])'
    <2>1. PICK r : r = req[s]
      OBVIOUS
    <2>2. Fields(r) /\ r.pc = "idle"
      BY <1>5, <2>1, Facts
    <2>3. Knows(r)'
      BY <1>2, <2>2
      DEF Knows, Fields, Documents, Migrating, Lookups, Verifying, Inserting, Generating, ++, Idle
    <2> QED BY <1>2, <2>1, <2>3
  <1>11. owner' = owner /\ proved' = proved /\ Spaces /\ KeepsBio
    BY <1>2 DEF owner, proved, Live, Spaces, KeepsBio
  <1> QED BY <1>6, <1>7, <1>8, <1>9, <1>10, <1>11 DEF Inv, Good

------------------------------------------------------------------------------
(* Writing rows *)

\* What writing a row changes.
LEMMA Written ==
    ASSUME Inv, NEW r \in Row, NEW u \in Users, u = r.id, Live(u), r.email # None, WriteRow(r)
    PROVE  /\ users'[u] = r
           /\ \A v \in Users \ {u} : users'[v] = users[v] /\ movedAt'[v] = movedAt[v]
           /\ movedAt'[u] = IF r.email # users[u].email THEN now ELSE movedAt[u]
           /\ users' \in [Users -> Row] /\ movedAt' \in [Users -> 0..MaxNow]
           /\ UNCHANGED <<nextId, idx, now, up, crashes, faults, broken>>
           /\ \A v \in Users : Live(v)' <=> Live(v)
           /\ Current(r)'
  <1>1. users \in [Users -> Row] /\ movedAt \in [Users -> 0..MaxNow] /\ now \in 1..MaxNow
    BY DEF Inv, Types
  <1>2. /\ users'[u] = r
        /\ \A v \in Users \ {u} : users'[v] = users[v] /\ movedAt'[v] = movedAt[v]
        /\ movedAt'[u] = IF r.email # users[u].email THEN now ELSE movedAt[u]
        /\ users' \in [Users -> Row] /\ movedAt' \in [Users -> 0..MaxNow]
        /\ UNCHANGED <<nextId, idx, now, up, crashes, faults, broken>>
    BY <1>1, StoreAssumption, SMTT(30) DEF WriteRow, health
  <1>3. \A v \in Users : Live(v)' <=> Live(v)
    BY <1>2 DEF Live
  <1>4. Current(r)'
    BY <1>2, <1>3 DEF Current
  <1> QED BY <1>2, <1>3, <1>4

\* A row is written.  The invariant is kept if the row is consistent, says what
\* the links with its secrets say or has a secret not used yet, keeps its address
\* or has proved the new one, and the index is made to follow.
LEMMA Writing ==
    ASSUME Inv, OneAtATime, NEW s \in Slots, NEW r \in Row, NEW q, NEW u \in Users,
           u = r.id, Live(u), r.email # None,
           WriteRow(r), ~Duplicate(r), req' = [req EXCEPT ![s] = q], Knows(q)',
           links' = links, opened' \subseteq Link, opened \subseteq opened',
           \A l \in opened' : l \notin opened => l.secret = 0,
           proved' = proved,
           gen' \in 0..MaxTokens, gen' = gen \/ gen' = gen + 1,
           Consistent(r)', users[u].isEmailVerified \/ r.email # users[u].email => r.isEmailVerified,
           \/ r.migrationToken = 0 \/ r.migrationToken \in (gen + 1)..gen'
           \/ /\ r.migrationToken = users[u].migrationToken
              /\ r.email = users[u].email /\ r.newEmailPending = users[u].newEmailPending,
           \/ r.emailVerificationToken = 0 \/ r.emailVerificationToken \in (gen + 1)..gen'
           \/ /\ r.emailVerificationToken = users[u].emailVerificationToken
              /\ \/ r.provider # Local
                 \/ r.provider = users[u].provider /\ r.email = users[u].email,
           \A v \in Users \ {u} : ~Behind(req[s], v),
           \/ Behind(q, u)
           \/ r.email = users[u].email /\ r.provider = users[u].provider /\ ~Behind(req[s], u),
           r.email # users[u].email =>
               /\ movedAt[u] # 0 => now - movedAt[u] >= Cooldown
               /\ Reliable => Used("current", u, users[u].email) /\ Used("new", u, r.email),
           r.bio = users[u].bio \/ At(s, "savebio")
    PROVE  Good
  <1>1. DOMAIN req' = Slots /\ \A t \in Slots : req'[t] = q /\ req[t] = req[s]
    BY OnlyRequest DEF Inv, Types
  <1>2. /\ users \in [Users -> Row] /\ movedAt \in [Users -> 0..MaxNow] /\ now \in 1..MaxNow
        /\ gen \in 0..MaxTokens
    BY DEF Inv, Types
  <1>3. /\ users'[u] = r
        /\ \A v \in Users \ {u} : users'[v] = users[v] /\ movedAt'[v] = movedAt[v]
        /\ movedAt'[u] = IF r.email # users[u].email THEN now ELSE movedAt[u]
        /\ users' \in [Users -> Row] /\ movedAt' \in [Users -> 0..MaxNow]
        /\ UNCHANGED <<nextId, idx, now, up, crashes, faults, broken>>
    BY Written
  <1>4. \A v \in Users : Live(v)' <=> Live(v)
    BY <1>3 DEF Live
  <1>5. Secrets \subseteq Secrets' /\ gen <= gen'
    BY <1>2 DEF Secrets
  <1>6. Types'
    BY <1>1, <1>3 DEF Inv, Types
  <1>7. \A v \in Users \ {u} : Live(v) => Apart(r, users[v])
    <2> SUFFICES ASSUME NEW v \in Users \ {u}, Live(v) PROVE Apart(r, users[v])
      OBVIOUS
    <2>1. Apart(users[u], users[v]) /\ Consistent(users[v])
      BY DEF Inv, Rows
    <2>2. r.email # users[v].email /\ (r.provider = users[v].provider => r.provider = Local)
      BY DEF Duplicate
    <2>3. /\ users[v].emailVerificationToken \notin (gen + 1)..gen'
          /\ users[v].migrationToken \notin (gen + 1)..gen'
      <3>1. MaxTokens \in Nat /\ gen \in Nat
        BY <1>2, StoreAssumption
      <3>2. \A x \in {0} \cup Secrets : x \notin (gen + 1)..gen'
        BY <1>2, <3>1 DEF Secrets
      <3> QED BY <2>1, <3>2 DEF Consistent
    <2> QED BY <2>1, <2>2, <2>3 DEF Apart
  <1>8. Rows'
    <2>1. ASSUME NEW v \in Users \ {u}, Live(v), Consistent(users[v]) PROVE Consistent(users[v])'
      BY <1>3, <1>5, <2>1, Facts DEF Consistent, Used, Proved, Trusted, Reliable
    <2>2. \A v, w \in Users : Live(v) /\ Live(w) /\ v # w => Apart(users'[v], users'[w])
      BY <1>3, <1>7 DEF Inv, Rows, Apart
    <2>3. \A v \in Users : Live(v) => users'[v].id = v /\ Consistent(users[v])'
      BY <1>3, <2>1 DEF Inv, Rows
    <2>4. \A v \in Users : v >= nextId => ~Live(v) /\ movedAt'[v] = 0
      BY <1>3 DEF Inv, Rows
    <2>5. \A v \in Users : ~Live(v) => users'[v] = NoRow
      BY <1>3 DEF Inv, Rows
    <2> QED BY <1>3, <1>4, <2>2, <2>3, <2>4, <2>5 DEF Rows, Apart
  <1>9. Mails'
    <2>1. ASSUME NEW l \in links \cup opened, l.secret # 0 PROVE Tells(l, r)
      <3>1. l.secret \in Secrets /\ Tells(l, users[u]) /\ users[u].id = u
        BY <2>1, Facts DEF Inv, Mails
      <3>2. l.secret \notin (gen + 1)..gen'
        BY <1>2, <3>1, StoreAssumption, SMTT(30) DEF Secrets
      <3>3. l.kind \in {"current", "new"} /\ r.migrationToken = l.secret =>
               /\ l.u = r.id
               /\ l.to = IF l.kind = "current" THEN r.email ELSE r.newEmailPending
        BY <2>1, <3>1, <3>2 DEF Tells
      <3>4. l.kind = "verify" /\ r.emailVerificationToken = l.secret /\ Trusted /\ r.provider = Local =>
               l.to = r.email
        BY <2>1, <3>1, <3>2 DEF Tells
      <3> QED BY <3>3, <3>4 DEF Tells
    <2>2. \A l, x : Tells(l, x)' <=> Tells(l, x)
      BY DEF Tells, Trusted, Reliable
    <2>3. \A l \in links' \cup opened', v \in Users : l.secret # 0 /\ Live(v) => Tells(l, users'[v])
      BY <1>3, <2>1 DEF Inv, Mails
    <2>4. \A l \in links' \cup opened' : l.secret \in {0} \cup Secrets'
      BY <1>5 DEF Inv, Mails
    <2> QED BY <1>4, <2>2, <2>3, <2>4 DEF Inv, Mails
  <1>10. Index'
    <2>1. ASSUME NEW key \in Keys
          PROVE  /\ idx'[key].user = 0 => idx'[key] = NoEntry
                 /\ idx'[key].user # 0 => Live(idx[key].user)'
                 /\ key \in Permanent => idx'[key].exp = 0
                 /\ idx'[key].user # 0 => Fits(users'[idx'[key].user], key)
      <3>1. idx[key].user # 0 => idx[key].user \in Users
        BY DEF Inv, Types, Users
      <3> QED BY <1>3, <1>4, <3>1 DEF Inv, Index, Fits
    <2>2. ASSUME Intact', NEW v \in Users, Live(v)
          PROVE  Settled(v)' \/ Behind(q, v)
      <3>1. Intact
        BY <1>3, <2>2 DEF Intact, Reliable
      <3>2. Settled(v) \/ Behind(req[s], v)
        BY <1>1, <2>2, <3>1 DEF Inv, Index
      <3>3. CASE v # u
        BY <1>3, <3>2, <3>3 DEF Settled
      <3>4. CASE v = u
        BY <1>3, <3>2, <3>4 DEF Settled, Wants
      <3> QED BY <3>3, <3>4
    <2> QED BY <1>1, <1>3, <1>4, <2>1, <2>2 DEF Index
  <1>11. Spaces /\ KeepsBio
    BY <1>3 DEF Spaces, KeepsBio
  <1>12. ASSUME Reliable PROVE Ownership!Next \/ UNCHANGED <<owner, proved>>
    <2>1. CASE r.email = users[u].email
      BY <1>3, <1>4, <2>1 DEF owner
    <2>2. CASE r.email # users[u].email
      <3>1. r.email \in Emails /\ users[u].email \in Emails
        BY <1>2, RowFields DEF Live
      <3>2. owner[u] = users[u].email /\ owner' = [owner EXCEPT ![u] = r.email]
        BY <1>3, <1>4 DEF owner
      <3>3. \A v \in Users : owner[v] # r.email
        BY <1>7, <2>2, <3>1, OwnershipAssumption DEF owner, Apart
      <3>4. <<u, "current", owner[u]>> \in proved /\ <<u, "new", r.email>> \in proved
        BY <1>12, <2>2, <3>2 DEF Used, proved
      <3>5. Ownership!Move(u, r.email)
        BY <3>1, <3>2, <3>3, <3>4
        DEF Ownership!Move, Ownership!Free, Ownership!Entitled, owner, proved
      <3> QED BY <3>1, <3>5 DEF Ownership!Next
    <2> QED BY <2>1, <2>2
  <1> QED BY <1>1, <1>6, <1>8, <1>9, <1>10, <1>11, <1>12 DEF Inv, Good

\* The row that a save makes: columns of w over those of the row.
LEMMA Merged ==
    ASSUME NEW row \in Row, NEW w, DOMAIN w \subseteq DOMAIN NoRow, NEW r, r = w ++ row
    PROVE  /\ r = [f \in DOMAIN NoRow |-> r[f]]
           /\ \A f \in DOMAIN NoRow : r[f] = IF f \in DOMAIN w THEN w[f] ELSE row[f]
  <1>1. DOMAIN row = DOMAIN NoRow
    BY RowFields
  <1>2. r = [f \in DOMAIN NoRow |-> IF f \in DOMAIN w THEN w[f] ELSE row[f]]
    BY <1>1 DEF ++
  <1> HIDE DEF ++
  <1> QED BY <1>2

\* A row that keeps its address and its identity is no duplicate.
LEMMA NotDuplicate ==
    ASSUME Inv, NEW u \in Users, Live(u), NEW r, r.id = u, r.email = users[u].email,
           r.provider = users[u].provider \/ r.provider = Local
    PROVE  ~Duplicate(r)
  BY DEF Duplicate, Inv, Rows, Apart

\* A request that starts to sync the document d.
LEMMA SyncShape ==
    ASSUME NEW r0, Fields(r0), NEW d \in Row, d.id \in Users, d.email # None,
           NEW cont \in Continuations, NEW doc \in Row,
           NEW q, \/ q = ([doc |-> d] ++ SyncFrom(d, cont)) ++ r0 /\ doc = d
                  \/ q = SyncFrom(d, cont) ++ r0 /\ doc = r0.doc
    PROVE  /\ Fields(q) /\ q.pc = "sync" /\ q.k = 1 /\ q.cont = cont /\ q.sd = d /\ q.doc = doc
           /\ q.op = r0.op /\ q.e = r0.e /\ q.x = r0.x /\ q.link = r0.link /\ q.id = r0.id
           /\ q.keep = r0.keep
           /\ q.expected \subseteq Keys
           /\ \A key \in Permanent : key \in q.expected <=> Wants(d, key)
           /\ \A u : Behind(q, u) <=> u = d.id
  <1>1. PICK ks : ks = expectedKeysForUser(d)
    OBVIOUS
  <1>2. PICK w : w = [pc |-> "sync", k |-> 1, sd |-> d, expected |-> ks, cont |-> cont]
    OBVIOUS
  <1>3. \/ q = ([doc |-> d] ++ w) ++ r0 /\ doc = d
        \/ q = w ++ r0 /\ doc = r0.doc
    BY <1>1, <1>2 DEF SyncFrom
  <1>4. DOMAIN r0 = DOMAIN Idle
    BY DEF Fields
  <1>5. /\ q.pc = "sync" /\ q.k = 1 /\ q.cont = cont /\ q.sd = d /\ q.doc = doc
        /\ q.op = r0.op /\ q.e = r0.e /\ q.x = r0.x /\ q.link = r0.link /\ q.id = r0.id
        /\ q.keep = r0.keep /\ q.expected = ks /\ DOMAIN q = DOMAIN Idle
    <2>1. CASE q = ([doc |-> d] ++ w) ++ r0 /\ doc = d
      BY <1>2, <1>4, <2>1 DEF ++, Idle
    <2>2. CASE q = w ++ r0 /\ doc = r0.doc
      BY <1>2, <1>4, <2>2 DEF ++, Idle
    <2> QED BY <1>3, <2>1, <2>2
  <1>6. Fields(q)
    BY <1>5 DEF Fields
  <1>7. ks \subseteq Keys /\ \A key \in Permanent : key \in ks <=> Wants(d, key)
    <2>1. \A k \in 1..4 : Wanted(d, k) =>
             /\ k = 2 => d.previousEmail # None
             /\ k = 3 => d.newEmailPending # None
             /\ k = 4 => d.provider # Local
      BY DEF Wanted, InGrace, InPending
    <2>2. \A k \in 1..4 : Wanted(d, k) =>
             /\ KeyOf(d, k) \in Keys
             /\ KeyOf(d, k) \in Permanent <=> k \in {1, 4}
             /\ k \in {1, 4} => Wants(d, KeyOf(d, k))
      BY <2>1, KeysOf
    <2>3. \A key : key \in ks <=> \E k \in 1..4 : Wanted(d, k) /\ key = KeyOf(d, k)
      BY <1>1 DEF expectedKeysForUser
    <2>4. ASSUME NEW key \in Permanent, Wants(d, key) PROVE key \in ks
      <3>1. Wanted(d, 1) /\ KeyOf(d, 1) = <<"primary", d.email>>
        BY DEF Wanted, KeyOf
      <3>2. d.provider # Local => Wanted(d, 4) /\ KeyOf(d, 4) = d.provider
        BY DEF Wanted, KeyOf
      <3> QED BY <2>3, <2>4, <3>1, <3>2 DEF Wants
    <2> QED BY <2>2, <2>3, <2>4
  <1>8. \A u : Behind(q, u) <=> u = d.id
    BY <1>5 DEF Behind
  <1> QED BY <1>5, <1>6, <1>7, <1>8

\* What it has to know for that.
LEMMA SyncKnows ==
    ASSUME NEW r0, Fields(r0), NEW d \in Row, d.id \in Users, d.email # None,
           NEW cont \in Continuations, NEW doc \in Row,
           NEW q, \/ q = ([doc |-> d] ++ SyncFrom(d, cont)) ++ r0 /\ doc = d
                  \/ q = SyncFrom(d, cont) ++ r0 /\ doc = r0.doc,
           up', Current(d)', Documents(q)', Migrating(q)', Reliable => Lookups(q)'
    PROVE  Knows(q)'
  <1>1. /\ Fields(q) /\ q.pc = "sync" /\ q.k = 1 /\ q.cont = cont /\ q.sd = d
        /\ q.expected \subseteq Keys
        /\ \A key \in Permanent : key \in q.expected <=> Wants(d, key)
    BY SyncShape
  <1>2. Syncing(q)'
    BY <1>1 DEF Syncing
  <1>3. Verifying(q)'
    BY <1>1 DEF Verifying, Continuations
  <1>4. Fields(q)'
    BY <1>1 DEF Fields
  <1> QED BY <1>1, <1>2, <1>3, <1>4 DEF Knows, Inserting, Generating, Reliable

\* the row r has the columns of w, and otherwise those of the row before
Overlaid(r, w, row) ==
    /\ r = [f \in DOMAIN NoRow |-> r[f]]
    /\ \A f \in DOMAIN NoRow : r[f] = IF f \in DOMAIN w THEN w[f] ELSE row[f]

\* request s goes on as q and row r is written, if its columns are nobody else's
Writes(s, r, q, onDup) ==
    \/ Duplicate(r) /\ GoOn(s, onDup, <<>>) /\ UNCHANGED <<store, now, health, movedAt>>
    \/ ~Duplicate(r) /\ req' = [req EXCEPT ![s] = q] /\ WriteRow(r)

Syncs(q, r, cont, r0) == q = ([doc |-> r] ++ SyncFrom(r, cont)) ++ r0

\* What save() and the sync do to a row that is there.
LEMMA SaveStep ==
    ASSUME Inv, NEW s \in Slots, NEW u, u = req[s].doc.id,
           NEW w, DOMAIN w \subseteq DOMAIN NoRow \ {"id"}, NEW cont, NEW onDup,
           Current(req[s].doc), SaveAndSync(s, w, cont, onDup)
    PROVE  \E r, q : /\ u \in Users /\ Live(u) /\ r.id = u
                     /\ Overlaid(r, w, users[u])
                     /\ Syncs(q, r, cont, req[s])
                     /\ Writes(s, r, q, onDup)
  <1>1. u \in Users /\ Live(u) /\ users[u] \in Row /\ users[u].id = u
    BY Facts DEF Current
  <1>2. PICK r : r = w ++ users[u]
    OBVIOUS
  <1>3. PICK q : q = ([doc |-> r] ++ SyncFrom(r, cont)) ++ req[s]
    OBVIOUS
  <1>4. Writes(s, r, q, onDup)
    BY <1>1, <1>2, <1>3 DEF SaveAndSync, Save, Updated, Goto, Writes
  <1>5. Overlaid(r, w, users[u])
    BY <1>1, <1>2, Merged DEF Overlaid
  <1>6. r.id = u
    BY <1>1, <1>5 DEF NoRow, Overlaid
  <1> QED BY <1>1, <1>3, <1>4, <1>5, <1>6 DEF Syncs

\* Deadlines and secrets that are set are within the bounds.
LEMMA Deadlines ==
    ASSUME Inv
    PROVE  /\ {0, now, now + TokenTtl, now + GraceTtl} \subseteq Ends
           /\ {0, gen + 1} \subseteq 0..(MaxTokens + 1)
           /\ gen < MaxTokens => gen + 1 \in 0..MaxTokens
           /\ gen \in 0..MaxTokens /\ gen \in Nat /\ gen + 1 # 0 /\ gen + 1 \in (gen + 1)..(gen + 1)
           /\ now \in 1..MaxNow
  <1>1. now \in 1..MaxNow /\ gen \in 0..MaxTokens
    BY DEF Inv, Types
  <1>2. /\ MaxNow \in Nat /\ TokenTtl \in Nat /\ GraceTtl \in Nat /\ MaxTokens \in Nat
        /\ now \in Nat /\ gen \in Nat
    BY <1>1, StoreAssumption
  <1>3. {0, now, now + TokenTtl, now + GraceTtl} \subseteq Ends
    BY <1>1, <1>2 DEF Ends
  <1> QED BY <1>1, <1>2, <1>3

\* A link that was used stays used.
LEMMA StillUsed ==
    ASSUME Inv, opened \subseteq opened', gen' \in 0..MaxTokens, gen' = gen \/ gen' = gen + 1
    PROVE  /\ \A kind, u, e : Used(kind, u, e) => Used(kind, u, e)'
           /\ \A e : Proved(e) => Proved(e)'
           /\ Secrets \subseteq Secrets'
           /\ gen' = gen + 1 => gen + 1 \in Secrets'
  <1>1. gen \in Nat
    BY StoreAssumption DEF Inv, Types
  <1> QED BY <1>1 DEF Used, Proved, Secrets

------------------------------------------------------------------------------
(* Saves of registration, verification and OAuth sign-in *)

\* a request that answers knows nothing
LEMMA Answered ==
    ASSUME NEW q, q = Idle PROVE Knows(q)' /\ InStep(q)
  BY NoRowIsRow, StoreAssumption
  DEF Knows, Fields, Documents, Migrating, Lookups, Verifying, Inserting, Generating, Idle, Continuations,
      InStep, Behind

\* verifyEmail marks the account verified: its address is proved.
LEMMA VerifyEmailSaveGood ==
    ASSUME Inv, OneAtATime, NEW s \in Slots, VerifyEmailSave(s) PROVE Good
  <1>1. /\ Knows(req[s]) /\ Fields(req[s]) /\ req[s].pc = "saveverify" /\ up
        /\ Current(req[s].doc) /\ req[s].doc \in Row /\ req[s].keep \in Row
        /\ Trusted => Proved(users[req[s].doc.id].email)
    <2>1. Knows(req[s]) /\ Fields(req[s]) /\ req[s].pc = "saveverify" /\ up
      BY Facts DEF VerifyEmailSave
    <2>2. Current(req[s].doc) /\ req[s].doc \in Row /\ req[s].keep \in Row
      BY <2>1, StoreAssumption DEF Knows, Documents, Fields
    <2>3. Trusted => Proved(users[req[s].doc.id].email)
      BY <2>1, <2>2, StoreAssumption DEF Knows, Documents, Migrating, Lookups, Verifying, Generating
    <2> QED BY <2>1, <2>2, <2>3
  <1>2. PICK u : u = req[s].doc.id
    OBVIOUS
  <1>3. PICK w : w = [password |-> TRUE, isEmailVerified |-> TRUE,
                      emailVerificationToken |-> 0, emailVerificationExpires |-> 0,
                      migrationHistory |-> req[s].doc.migrationHistory]
    OBVIOUS
  <1>4. DOMAIN w \subseteq DOMAIN NoRow \ {"id"}
    BY <1>3 DEF NoRow
  <1>5. PICK r, q : /\ u \in Users /\ Live(u) /\ r.id = u
                    /\ Overlaid(r, w, users[u])
                    /\ Syncs(q, r, "idle", req[s])
                    /\ Writes(s, r, q, "idle")
    <2>1. SaveAndSync(s, w, "idle", "idle")
      BY <1>3 DEF VerifyEmailSave
    <2> QED BY <1>1, <1>2, <1>4, <2>1, SaveStep
  <1>6. /\ users[u] \in Row /\ Consistent(users[u]) /\ users[u].id = u
        /\ LET d == req[s].doc IN
            /\ d.email = users[u].email /\ d.isEmailVerified = users[u].isEmailVerified
            /\ d.provider = users[u].provider /\ d.bio = users[u].bio
            /\ d.newEmailPending = users[u].newEmailPending
    BY <1>1, <1>2, <1>5, Facts DEF Current
  <1>7. /\ r.email = users[u].email
        /\ r.isEmailVerified = TRUE
        /\ r.password = TRUE
        /\ r.provider = users[u].provider
        /\ r.emailVerificationToken = 0
        /\ r.emailVerificationExpires = 0
        /\ r.previousEmail = users[u].previousEmail
        /\ r.migrationExpiry = users[u].migrationExpiry
        /\ r.newEmailPending = users[u].newEmailPending
        /\ r.migrationToken = users[u].migrationToken
        /\ r.migrationTokenExpires = users[u].migrationTokenExpires
        /\ r.currentEmailVerified = users[u].currentEmailVerified
        /\ r.newEmailVerified = users[u].newEmailVerified
        /\ r.lastMigrationDate = users[u].lastMigrationDate
        /\ r.tokenVersion = users[u].tokenVersion
        /\ r.migrationHistory = req[s].doc.migrationHistory
        /\ r.bio = users[u].bio
    BY <1>1, <1>3, <1>5 DEF NoRow, Overlaid
  <1>7a. r \in Row
    <2>1. r.migrationHistory \in Seq(History)
      BY <1>1, <1>7, RowFields
    <2>2. /\ {0, now, now + TokenTtl, now + GraceTtl} \subseteq Ends
          /\ {0, gen + 1} \subseteq 0..(MaxTokens + 1)
      BY Deadlines
    <2>2a. /\ r.id \in 0..MaxUsers /\ r.email \in Emails \cup {None} /\ r.isEmailVerified \in BOOLEAN
           /\ r.password \in BOOLEAN /\ r.provider \in OAuthIds \cup {Local}
           /\ r.emailVerificationToken \in 0..(MaxTokens + 1) /\ r.emailVerificationExpires \in Ends
           /\ r.previousEmail \in Emails \cup {None} /\ r.migrationExpiry \in Ends
           /\ r.newEmailPending \in Emails \cup {None} /\ r.migrationToken \in 0..(MaxTokens + 1)
           /\ r.migrationTokenExpires \in Ends /\ r.currentEmailVerified \in BOOLEAN
           /\ r.newEmailVerified \in BOOLEAN /\ r.lastMigrationDate \in Ends
           /\ r.tokenVersion \in Nat /\ r.bio \in {"old", "new"}
      BY <1>1, <1>5, <1>6, <1>7, <2>2, RowFields, AccountsAssumption
    <2> QED BY <1>5, <2>1, <2>2a, RowIntro DEF Overlaid
  <1>8. ~Duplicate(r)
    BY <1>1, <1>5, <1>6, <1>7, NotDuplicate
  <1>9. req' = [req EXCEPT ![s] = q] /\ WriteRow(r) /\ UNCHANGED post
    BY <1>5, <1>8 DEF VerifyEmailSave, Writes, Fresh
  <1>9a. gen' \in 0..MaxTokens /\ (gen' = gen \/ gen' = gen + 1) /\ gen <= gen'
    BY <1>1, <1>9, Deadlines DEF post
  <1>9b. /\ links' = links /\ opened' \subseteq Link /\ opened \subseteq opened' /\ proved' = proved
         /\ \A l \in opened' : l \notin opened => l.secret = 0
    BY <1>9 DEF post, proved, Inv, Types
  <1>10. UNCHANGED <<nextId, now, up>> /\ movedAt'[u] = movedAt[u] /\ Current(r)' /\ r.email # None
    <2>1. r.email # None
      BY <1>1, <1>5, <1>7, StoreAssumption DEF Live
    <2>2. WriteRow(r)
      BY <1>9
    <2>3. /\ movedAt'[u] = IF r.email # users[u].email THEN now ELSE movedAt[u]
          /\ UNCHANGED <<nextId, now, up>> /\ Current(r)'
      BY <1>5, <1>7a, <2>1, <2>2, Written
    <2> QED BY <1>7, <2>1, <2>3
  <1>11. Consistent(r)'
    <2>1. /\ \A kind, v, e : Used(kind, v, e) => Used(kind, v, e)'
          /\ \A e : Proved(e) => Proved(e)'
          /\ Secrets \subseteq Secrets'
          /\ gen' = gen + 1 => gen + 1 \in Secrets'
      BY <1>9a, <1>9b, StillUsed
    <2> QED
      BY <1>1, <1>2, <1>5, <1>6, <1>7, <1>9, <1>10, <2>1, ZenonT(60) DEF Consistent, Trusted, Reliable
  <1>12. Knows(q)' /\ Behind(q, u) /\ \A v \in Users : Behind(q, v) => v = u
    <2>1. q = ([doc |-> r] ++ SyncFrom(r, "idle")) ++ req[s]
      BY <1>5 DEF Syncs
    <2>2. /\ Fields(q) /\ q.pc = "sync" /\ q.cont = "idle" /\ q.sd = r /\ q.doc = r
          /\ q.op = req[s].op /\ q.e = req[s].e /\ q.x = req[s].x /\ q.keep = req[s].keep
          /\ \A v : Behind(q, v) <=> v = u
      BY <1>1, <1>5, <1>7a, <1>10, <2>1, SyncShape DEF Continuations
    <2>3. Documents(q)' /\ Migrating(q)' /\ (Reliable => Lookups(q)')
      BY <1>1, <1>2, <1>6, <1>7, <1>10, <2>2, Deadlines, Zenon DEF Documents, Migrating, Lookups
    <2> QED BY <1>1, <1>5, <1>7a, <1>10, <2>1, <2>2, <2>3, SyncKnows DEF Continuations
  <1>13. /\ \A v \in Users \ {u} : ~Behind(req[s], v)
         /\ Behind(q, u)
    BY <1>1, <1>2, <1>5, <1>12 DEF Behind
  <1>14. /\ \/ r.migrationToken = 0 \/ r.migrationToken \in (gen + 1)..gen'
            \/ /\ r.migrationToken = users[u].migrationToken
               /\ r.email = users[u].email /\ r.newEmailPending = users[u].newEmailPending
         /\ \/ r.emailVerificationToken = 0 \/ r.emailVerificationToken \in (gen + 1)..gen'
            \/ /\ r.emailVerificationToken = users[u].emailVerificationToken
               /\ \/ r.provider # Local
                  \/ r.provider = users[u].provider /\ r.email = users[u].email
    BY <1>1, <1>6, <1>7, <1>9, Deadlines
  <1>15. users[u].isEmailVerified \/ r.email # users[u].email => r.isEmailVerified
    BY <1>1, <1>2, <1>6, <1>7
  <1>16. r.email # users[u].email =>
            /\ movedAt[u] # 0 => now - movedAt[u] >= Cooldown
            /\ Reliable => Used("current", u, users[u].email) /\ Used("new", u, r.email)
    BY <1>7
  <1>17. r.bio = users[u].bio \/ At(s, "savebio")
    BY <1>1, <1>6, <1>7
  <1>18. req' = [req EXCEPT ![s] = q] /\ WriteRow(r)
    BY <1>9
  <1> QED
    BY <1>5, <1>7, <1>7a, <1>8, <1>9a, <1>9b, <1>10, <1>11, <1>12, <1>13, <1>14, <1>15, <1>16, <1>17,
       <1>18, Writing

\* register again for an address that was never verified.
LEMMA RegisterSaveAgain ==
    ASSUME Inv, OneAtATime, NEW s \in Slots, RegisterSave(s), req[s].doc.id # 0 PROVE Good
  <1>1. /\ Knows(req[s]) /\ Fields(req[s]) /\ req[s].pc = "create" /\ up
        /\ Current(req[s].doc) /\ req[s].doc \in Row /\ req[s].keep \in Row
        /\ ~req[s].doc.isEmailVerified /\ req[s].e \in Emails /\ gen < MaxTokens
        /\ users[req[s].doc.id].email = req[s].e
    <2>1. Knows(req[s]) /\ Fields(req[s]) /\ req[s].pc = "create" /\ up
      BY Facts DEF RegisterSave
    <2>2. Current(req[s].doc) /\ req[s].doc \in Row /\ req[s].keep \in Row
      BY <2>1, StoreAssumption DEF Knows, Documents, Fields
    <2>3. ~req[s].doc.isEmailVerified
      BY <2>1, <2>2, StoreAssumption DEF Knows, Documents, Migrating, Lookups, Verifying, Generating
    <2>4. req[s].e \in Emails
      BY <2>1, <2>2, StoreAssumption DEF Knows, Documents, Migrating, Lookups, Verifying, Generating
    <2>5. gen < MaxTokens
      BY <2>1, <2>2, StoreAssumption DEF Knows, Documents, Migrating, Lookups, Verifying, Generating
    <2>6. users[req[s].doc.id].email = req[s].e
      BY <2>1, <2>2, StoreAssumption DEF Knows, Documents, Migrating, Lookups, Verifying, Generating
    <2> QED BY <2>1, <2>2, <2>3, <2>4, <2>5, <2>6
  <1>2. PICK u : u = req[s].doc.id
    OBVIOUS
  <1>3. PICK w : w = Credentials ++ [migrationHistory |-> req[s].doc.migrationHistory]
    OBVIOUS
  <1>4. DOMAIN w \subseteq DOMAIN NoRow \ {"id"}
    BY <1>3 DEF NoRow, Credentials, ++, Fresh
  <1>5. PICK r, q : /\ u \in Users /\ Live(u) /\ r.id = u
                    /\ Overlaid(r, w, users[u])
                    /\ Syncs(q, r, "mailverify", req[s])
                    /\ Writes(s, r, q, "idle")
    <2>1. SaveAndSync(s, w, "mailverify", "idle")
      BY <1>3 DEF RegisterSave
    <2> QED BY <1>1, <1>2, <1>4, <2>1, SaveStep
  <1>6. /\ users[u] \in Row /\ Consistent(users[u]) /\ users[u].id = u
        /\ LET d == req[s].doc IN
            /\ d.email = users[u].email /\ d.isEmailVerified = users[u].isEmailVerified
            /\ d.provider = users[u].provider /\ d.bio = users[u].bio
            /\ d.newEmailPending = users[u].newEmailPending
        /\ ~users[u].isEmailVerified
    BY <1>1, <1>2, <1>5, Facts DEF Current
  <1>7. /\ r.email = users[u].email
        /\ r.isEmailVerified = AutoVerifyEmail
        /\ r.password = TRUE
        /\ r.provider = Local
        /\ r.emailVerificationToken = IF AutoVerifyEmail THEN 0 ELSE gen + 1
        /\ r.emailVerificationExpires = IF AutoVerifyEmail THEN 0 ELSE now + TokenTtl
        /\ r.previousEmail = users[u].previousEmail
        /\ r.migrationExpiry = users[u].migrationExpiry
        /\ r.newEmailPending = users[u].newEmailPending
        /\ r.migrationToken = users[u].migrationToken
        /\ r.migrationTokenExpires = users[u].migrationTokenExpires
        /\ r.currentEmailVerified = users[u].currentEmailVerified
        /\ r.newEmailVerified = users[u].newEmailVerified
        /\ r.lastMigrationDate = users[u].lastMigrationDate
        /\ r.tokenVersion = users[u].tokenVersion
        /\ r.migrationHistory = req[s].doc.migrationHistory
        /\ r.bio = users[u].bio
    BY <1>1, <1>3, <1>5 DEF NoRow, Overlaid, Credentials, ++, Fresh
  <1>7a. r \in Row
    <2>1. r.migrationHistory \in Seq(History)
      BY <1>1, <1>7, RowFields
    <2>2. /\ {0, now, now + TokenTtl, now + GraceTtl} \subseteq Ends
          /\ {0, gen + 1} \subseteq 0..(MaxTokens + 1)
      BY Deadlines
    <2>2a. /\ r.id \in 0..MaxUsers /\ r.email \in Emails \cup {None} /\ r.isEmailVerified \in BOOLEAN
           /\ r.password \in BOOLEAN /\ r.provider \in OAuthIds \cup {Local}
           /\ r.emailVerificationToken \in 0..(MaxTokens + 1) /\ r.emailVerificationExpires \in Ends
           /\ r.previousEmail \in Emails \cup {None} /\ r.migrationExpiry \in Ends
           /\ r.newEmailPending \in Emails \cup {None} /\ r.migrationToken \in 0..(MaxTokens + 1)
           /\ r.migrationTokenExpires \in Ends /\ r.currentEmailVerified \in BOOLEAN
           /\ r.newEmailVerified \in BOOLEAN /\ r.lastMigrationDate \in Ends
           /\ r.tokenVersion \in Nat /\ r.bio \in {"old", "new"}
      BY <1>1, <1>5, <1>6, <1>7, <2>2, RowFields, AccountsAssumption
    <2> QED BY <1>5, <2>1, <2>2a, RowIntro DEF Overlaid
  <1>8. ~Duplicate(r)
    BY <1>1, <1>5, <1>6, <1>7, NotDuplicate
  <1>9. req' = [req EXCEPT ![s] = q] /\ WriteRow(r) /\ gen' = gen + 1 /\ UNCHANGED <<links, opened>>
    BY <1>5, <1>8 DEF RegisterSave, Writes, Fresh
  <1>9a. gen' \in 0..MaxTokens /\ (gen' = gen \/ gen' = gen + 1) /\ gen <= gen'
    BY <1>1, <1>9, Deadlines DEF post
  <1>9b. /\ links' = links /\ opened' \subseteq Link /\ opened \subseteq opened' /\ proved' = proved
         /\ \A l \in opened' : l \notin opened => l.secret = 0
    BY <1>9 DEF post, proved, Inv, Types
  <1>10. UNCHANGED <<nextId, now, up>> /\ movedAt'[u] = movedAt[u] /\ Current(r)' /\ r.email # None
    <2>1. r.email # None
      BY <1>1, <1>5, <1>7, StoreAssumption DEF Live
    <2>2. WriteRow(r)
      BY <1>9
    <2>3. /\ movedAt'[u] = IF r.email # users[u].email THEN now ELSE movedAt[u]
          /\ UNCHANGED <<nextId, now, up>> /\ Current(r)'
      BY <1>5, <1>7a, <2>1, <2>2, Written
    <2> QED BY <1>7, <2>1, <2>3
  <1>11. Consistent(r)'
    <2>1. /\ \A kind, v, e : Used(kind, v, e) => Used(kind, v, e)'
          /\ \A e : Proved(e) => Proved(e)'
          /\ Secrets \subseteq Secrets'
          /\ gen' = gen + 1 => gen + 1 \in Secrets'
      BY <1>9a, <1>9b, StillUsed
    <2> QED
      BY <1>1, <1>2, <1>5, <1>6, <1>7, <1>9, <1>10, <2>1, ZenonT(60) DEF Consistent, Trusted, Reliable
  <1>12. Knows(q)' /\ Behind(q, u) /\ \A v \in Users : Behind(q, v) => v = u
    <2>1. q = ([doc |-> r] ++ SyncFrom(r, "mailverify")) ++ req[s]
      BY <1>5 DEF Syncs
    <2>2. /\ Fields(q) /\ q.pc = "sync" /\ q.cont = "mailverify" /\ q.sd = r /\ q.doc = r
          /\ q.op = req[s].op /\ q.e = req[s].e /\ q.x = req[s].x /\ q.keep = req[s].keep
          /\ \A v : Behind(q, v) <=> v = u
      BY <1>1, <1>5, <1>7a, <1>10, <2>1, SyncShape DEF Continuations
    <2>3. Documents(q)' /\ Migrating(q)' /\ (Reliable => Lookups(q)')
      BY <1>1, <1>2, <1>6, <1>7, <1>10, <2>2, Deadlines, ZenonT(60) DEF Documents, Migrating, Lookups
    <2> QED BY <1>1, <1>5, <1>7a, <1>10, <2>1, <2>2, <2>3, SyncKnows DEF Continuations
  <1>13. /\ \A v \in Users \ {u} : ~Behind(req[s], v)
         /\ Behind(q, u)
    BY <1>1, <1>2, <1>5, <1>12 DEF Behind
  <1>14. /\ \/ r.migrationToken = 0 \/ r.migrationToken \in (gen + 1)..gen'
            \/ /\ r.migrationToken = users[u].migrationToken
               /\ r.email = users[u].email /\ r.newEmailPending = users[u].newEmailPending
         /\ \/ r.emailVerificationToken = 0 \/ r.emailVerificationToken \in (gen + 1)..gen'
            \/ /\ r.emailVerificationToken = users[u].emailVerificationToken
               /\ \/ r.provider # Local
                  \/ r.provider = users[u].provider /\ r.email = users[u].email
    BY <1>1, <1>6, <1>7, <1>9, Deadlines
  <1>15. users[u].isEmailVerified \/ r.email # users[u].email => r.isEmailVerified
    BY <1>1, <1>2, <1>6, <1>7
  <1>16. r.email # users[u].email =>
            /\ movedAt[u] # 0 => now - movedAt[u] >= Cooldown
            /\ Reliable => Used("current", u, users[u].email) /\ Used("new", u, r.email)
    BY <1>7
  <1>17. r.bio = users[u].bio \/ At(s, "savebio")
    BY <1>1, <1>6, <1>7
  <1>18. req' = [req EXCEPT ![s] = q] /\ WriteRow(r)
    BY <1>9
  <1> QED
    BY <1>5, <1>7, <1>7a, <1>8, <1>9a, <1>9b, <1>10, <1>11, <1>12, <1>13, <1>14, <1>15, <1>16, <1>17,
       <1>18, Writing

\* The OAuth strategy saves an account that it did not change.
LEMMA OAuthStrategySave ==
    ASSUME Inv, OneAtATime, NEW s \in Slots, OAuthStrategy(s),
           SaveAndSync(s, [migrationHistory |-> req[s].doc.migrationHistory], "idle", "idle")
    PROVE  Good
  <1>1. /\ Knows(req[s]) /\ Fields(req[s]) /\ req[s].pc = "strategy" /\ up
        /\ Current(req[s].doc) /\ req[s].doc \in Row /\ req[s].keep \in Row
    <2>1. Knows(req[s]) /\ Fields(req[s]) /\ req[s].pc = "strategy" /\ up
      BY Facts DEF OAuthStrategy
    <2>2. Current(req[s].doc) /\ req[s].doc \in Row /\ req[s].keep \in Row
      BY <2>1, StoreAssumption DEF Knows, Documents, Fields
    <2> QED BY <2>1, <2>2
  <1>2. PICK u : u = req[s].doc.id
    OBVIOUS
  <1>3. PICK w : w = [migrationHistory |-> req[s].doc.migrationHistory]
    OBVIOUS
  <1>4. DOMAIN w \subseteq DOMAIN NoRow \ {"id"}
    BY <1>3 DEF NoRow
  <1>5. PICK r, q : /\ u \in Users /\ Live(u) /\ r.id = u
                    /\ Overlaid(r, w, users[u])
                    /\ Syncs(q, r, "idle", req[s])
                    /\ Writes(s, r, q, "idle")
    <2>1. SaveAndSync(s, w, "idle", "idle")
      BY <1>3 DEF OAuthStrategy
    <2> QED BY <1>1, <1>2, <1>4, <2>1, SaveStep
  <1>6. /\ users[u] \in Row /\ Consistent(users[u]) /\ users[u].id = u
        /\ LET d == req[s].doc IN
            /\ d.email = users[u].email /\ d.isEmailVerified = users[u].isEmailVerified
            /\ d.provider = users[u].provider /\ d.bio = users[u].bio
            /\ d.newEmailPending = users[u].newEmailPending
    BY <1>1, <1>2, <1>5, Facts DEF Current
  <1>7. /\ r.email = users[u].email
        /\ r.isEmailVerified = users[u].isEmailVerified
        /\ r.password = users[u].password
        /\ r.provider = users[u].provider
        /\ r.emailVerificationToken = users[u].emailVerificationToken
        /\ r.emailVerificationExpires = users[u].emailVerificationExpires
        /\ r.previousEmail = users[u].previousEmail
        /\ r.migrationExpiry = users[u].migrationExpiry
        /\ r.newEmailPending = users[u].newEmailPending
        /\ r.migrationToken = users[u].migrationToken
        /\ r.migrationTokenExpires = users[u].migrationTokenExpires
        /\ r.currentEmailVerified = users[u].currentEmailVerified
        /\ r.newEmailVerified = users[u].newEmailVerified
        /\ r.lastMigrationDate = users[u].lastMigrationDate
        /\ r.tokenVersion = users[u].tokenVersion
        /\ r.migrationHistory = req[s].doc.migrationHistory
        /\ r.bio = users[u].bio
    BY <1>1, <1>3, <1>5 DEF NoRow, Overlaid
  <1>7a. r \in Row
    <2>1. r.migrationHistory \in Seq(History)
      BY <1>1, <1>7, RowFields
    <2>2. /\ {0, now, now + TokenTtl, now + GraceTtl} \subseteq Ends
          /\ {0, gen + 1} \subseteq 0..(MaxTokens + 1)
      BY Deadlines
    <2>2a. /\ r.id \in 0..MaxUsers /\ r.email \in Emails \cup {None} /\ r.isEmailVerified \in BOOLEAN
           /\ r.password \in BOOLEAN /\ r.provider \in OAuthIds \cup {Local}
           /\ r.emailVerificationToken \in 0..(MaxTokens + 1) /\ r.emailVerificationExpires \in Ends
           /\ r.previousEmail \in Emails \cup {None} /\ r.migrationExpiry \in Ends
           /\ r.newEmailPending \in Emails \cup {None} /\ r.migrationToken \in 0..(MaxTokens + 1)
           /\ r.migrationTokenExpires \in Ends /\ r.currentEmailVerified \in BOOLEAN
           /\ r.newEmailVerified \in BOOLEAN /\ r.lastMigrationDate \in Ends
           /\ r.tokenVersion \in Nat /\ r.bio \in {"old", "new"}
      BY <1>1, <1>5, <1>6, <1>7, <2>2, RowFields, AccountsAssumption
    <2> QED BY <1>5, <2>1, <2>2a, RowIntro DEF Overlaid
  <1>8. ~Duplicate(r)
    BY <1>1, <1>5, <1>6, <1>7, NotDuplicate
  <1>9. req' = [req EXCEPT ![s] = q] /\ WriteRow(r) /\ UNCHANGED post
    BY <1>5, <1>8 DEF OAuthStrategy, Writes, Fresh
  <1>9a. gen' \in 0..MaxTokens /\ (gen' = gen \/ gen' = gen + 1) /\ gen <= gen'
    BY <1>1, <1>9, Deadlines DEF post
  <1>9b. /\ links' = links /\ opened' \subseteq Link /\ opened \subseteq opened' /\ proved' = proved
         /\ \A l \in opened' : l \notin opened => l.secret = 0
    BY <1>9 DEF post, proved, Inv, Types
  <1>10. UNCHANGED <<nextId, now, up>> /\ movedAt'[u] = movedAt[u] /\ Current(r)' /\ r.email # None
    <2>1. r.email # None
      BY <1>1, <1>5, <1>7, StoreAssumption DEF Live
    <2>2. WriteRow(r)
      BY <1>9
    <2>3. /\ movedAt'[u] = IF r.email # users[u].email THEN now ELSE movedAt[u]
          /\ UNCHANGED <<nextId, now, up>> /\ Current(r)'
      BY <1>5, <1>7a, <2>1, <2>2, Written
    <2> QED BY <1>7, <2>1, <2>3
  <1>11. Consistent(r)'
    <2>1. /\ \A kind, v, e : Used(kind, v, e) => Used(kind, v, e)'
          /\ \A e : Proved(e) => Proved(e)'
          /\ Secrets \subseteq Secrets'
          /\ gen' = gen + 1 => gen + 1 \in Secrets'
      BY <1>9a, <1>9b, StillUsed
    <2> QED
      BY <1>1, <1>2, <1>5, <1>6, <1>7, <1>9, <1>10, <2>1, ZenonT(60) DEF Consistent, Trusted, Reliable
  <1>12. Knows(q)' /\ Behind(q, u) /\ \A v \in Users : Behind(q, v) => v = u
    <2>1. q = ([doc |-> r] ++ SyncFrom(r, "idle")) ++ req[s]
      BY <1>5 DEF Syncs
    <2>2. /\ Fields(q) /\ q.pc = "sync" /\ q.cont = "idle" /\ q.sd = r /\ q.doc = r
          /\ q.op = req[s].op /\ q.e = req[s].e /\ q.x = req[s].x /\ q.keep = req[s].keep
          /\ \A v : Behind(q, v) <=> v = u
      BY <1>1, <1>5, <1>7a, <1>10, <2>1, SyncShape DEF Continuations
    <2>3. Documents(q)' /\ Migrating(q)' /\ (Reliable => Lookups(q)')
      BY <1>1, <1>2, <1>6, <1>7, <1>10, <2>2, Deadlines, Zenon DEF Documents, Migrating, Lookups
    <2> QED BY <1>1, <1>5, <1>7a, <1>10, <2>1, <2>2, <2>3, SyncKnows DEF Continuations
  <1>13. /\ \A v \in Users \ {u} : ~Behind(req[s], v)
         /\ Behind(q, u)
    BY <1>1, <1>2, <1>5, <1>12 DEF Behind
  <1>14. /\ \/ r.migrationToken = 0 \/ r.migrationToken \in (gen + 1)..gen'
            \/ /\ r.migrationToken = users[u].migrationToken
               /\ r.email = users[u].email /\ r.newEmailPending = users[u].newEmailPending
         /\ \/ r.emailVerificationToken = 0 \/ r.emailVerificationToken \in (gen + 1)..gen'
            \/ /\ r.emailVerificationToken = users[u].emailVerificationToken
               /\ \/ r.provider # Local
                  \/ r.provider = users[u].provider /\ r.email = users[u].email
    BY <1>1, <1>6, <1>7, <1>9, Deadlines
  <1>15. users[u].isEmailVerified \/ r.email # users[u].email => r.isEmailVerified
    BY <1>1, <1>2, <1>6, <1>7, Zenon
  <1>16. r.email # users[u].email =>
            /\ movedAt[u] # 0 => now - movedAt[u] >= Cooldown
            /\ Reliable => Used("current", u, users[u].email) /\ Used("new", u, r.email)
    BY <1>7
  <1>17. r.bio = users[u].bio \/ At(s, "savebio")
    BY <1>1, <1>6, <1>7
  <1>18. req' = [req EXCEPT ![s] = q] /\ WriteRow(r)
    BY <1>9
  <1> QED
    BY <1>5, <1>7, <1>7a, <1>8, <1>9a, <1>9b, <1>10, <1>11, <1>12, <1>13, <1>14, <1>15, <1>16, <1>17,
       <1>18, Writing

\* resendVerification saves a new secret.
LEMMA ResendVerificationSaveGood ==
    ASSUME Inv, OneAtATime, NEW s \in Slots, ResendVerificationSave(s) PROVE Good
  <1>1. /\ Knows(req[s]) /\ Fields(req[s]) /\ req[s].pc = "reverifysave" /\ up
        /\ Current(req[s].doc) /\ req[s].doc \in Row /\ req[s].keep \in Row
        /\ ~req[s].doc.isEmailVerified /\ req[s].e \in Emails /\ gen < MaxTokens
        /\ users[req[s].doc.id].email = req[s].e
    <2>1. Knows(req[s]) /\ Fields(req[s]) /\ req[s].pc = "reverifysave" /\ up
      BY Facts DEF ResendVerificationSave
    <2>2. Current(req[s].doc) /\ req[s].doc \in Row /\ req[s].keep \in Row
      BY <2>1, StoreAssumption DEF Knows, Documents, Fields
    <2>3. ~req[s].doc.isEmailVerified
      BY <2>1, <2>2, StoreAssumption DEF Knows, Documents, Migrating, Lookups, Verifying, Generating, Current, Users
    <2>4. req[s].e \in Emails
      BY <2>1, <2>2, StoreAssumption DEF Knows, Documents, Migrating, Lookups, Verifying, Generating, Current, Users
    <2>5. gen < MaxTokens
      BY <2>1, <2>2, StoreAssumption DEF Knows, Documents, Migrating, Lookups, Verifying, Generating, Current, Users
    <2>6. users[req[s].doc.id].email = req[s].e
      BY <2>1, <2>2, StoreAssumption DEF Knows, Documents, Migrating, Lookups, Verifying, Generating, Current, Users
    <2> QED BY <2>1, <2>2, <2>3, <2>4, <2>5, <2>6
  <1>2. PICK u : u = req[s].doc.id
    OBVIOUS
  <1>3. PICK w : w = [emailVerificationToken |-> Fresh, emailVerificationExpires |-> now + TokenTtl,
                migrationHistory |-> req[s].doc.migrationHistory]
    OBVIOUS
  <1>4. DOMAIN w \subseteq DOMAIN NoRow \ {"id"}
    BY <1>3 DEF NoRow, Fresh
  <1>5. PICK r, q : /\ u \in Users /\ Live(u) /\ r.id = u
                    /\ Overlaid(r, w, users[u])
                    /\ q = [pc |-> "mailverify", doc |-> r, sd |-> r] ++ req[s]
                    /\ Writes(s, r, q, "idle")
    <2>1. u \in Users /\ Live(u) /\ users[u] \in Row /\ users[u].id = u
      BY <1>1, <1>2, Facts DEF Current
    <2>2. PICK r : r = w ++ users[u]
      OBVIOUS
    <2>3. PICK q : q = [pc |-> "mailverify", doc |-> r, sd |-> r] ++ req[s]
      OBVIOUS
    <2>4. Writes(s, r, q, "idle")
      BY <1>2, <1>3, <2>1, <2>2, <2>3 DEF ResendVerificationSave, Save, Updated, Goto, Writes
    <2>5. Overlaid(r, w, users[u])
      BY <1>4, <2>1, <2>2, Merged DEF Overlaid
    <2>6. r.id = u
      BY <1>4, <2>1, <2>5 DEF NoRow, Overlaid
    <2> QED BY <2>1, <2>3, <2>4, <2>5, <2>6
  <1>6. /\ users[u] \in Row /\ Consistent(users[u]) /\ users[u].id = u
        /\ LET d == req[s].doc IN
            /\ d.email = users[u].email /\ d.isEmailVerified = users[u].isEmailVerified
            /\ d.provider = users[u].provider /\ d.bio = users[u].bio
            /\ d.newEmailPending = users[u].newEmailPending
        /\ ~users[u].isEmailVerified
    BY <1>1, <1>2, <1>5, Facts DEF Current
  <1>7. /\ r.email = users[u].email
        /\ r.isEmailVerified = users[u].isEmailVerified
        /\ r.password = users[u].password
        /\ r.provider = users[u].provider
        /\ r.emailVerificationToken = gen + 1
        /\ r.emailVerificationExpires = now + TokenTtl
        /\ r.previousEmail = users[u].previousEmail
        /\ r.migrationExpiry = users[u].migrationExpiry
        /\ r.newEmailPending = users[u].newEmailPending
        /\ r.migrationToken = users[u].migrationToken
        /\ r.migrationTokenExpires = users[u].migrationTokenExpires
        /\ r.currentEmailVerified = users[u].currentEmailVerified
        /\ r.newEmailVerified = users[u].newEmailVerified
        /\ r.lastMigrationDate = users[u].lastMigrationDate
        /\ r.tokenVersion = users[u].tokenVersion
        /\ r.migrationHistory = req[s].doc.migrationHistory
        /\ r.bio = users[u].bio
    BY <1>1, <1>3, <1>5 DEF NoRow, Overlaid, Fresh
  <1>7a. r \in Row
    <2>1. r.migrationHistory \in Seq(History)
      BY <1>1, <1>7, RowFields
    <2>2. /\ {0, now, now + TokenTtl, now + GraceTtl} \subseteq Ends
          /\ {0, gen + 1} \subseteq 0..(MaxTokens + 1)
      BY Deadlines
    <2>2a. /\ r.id \in 0..MaxUsers /\ r.email \in Emails \cup {None} /\ r.isEmailVerified \in BOOLEAN
           /\ r.password \in BOOLEAN /\ r.provider \in OAuthIds \cup {Local}
           /\ r.emailVerificationToken \in 0..(MaxTokens + 1) /\ r.emailVerificationExpires \in Ends
           /\ r.previousEmail \in Emails \cup {None} /\ r.migrationExpiry \in Ends
           /\ r.newEmailPending \in Emails \cup {None} /\ r.migrationToken \in 0..(MaxTokens + 1)
           /\ r.migrationTokenExpires \in Ends /\ r.currentEmailVerified \in BOOLEAN
           /\ r.newEmailVerified \in BOOLEAN /\ r.lastMigrationDate \in Ends
           /\ r.tokenVersion \in Nat /\ r.bio \in {"old", "new"}
      BY <1>1, <1>5, <1>6, <1>7, <2>2, RowFields, AccountsAssumption
    <2> QED BY <1>5, <2>1, <2>2a, RowIntro DEF Overlaid
  <1>8. ~Duplicate(r)
    BY <1>1, <1>5, <1>6, <1>7, NotDuplicate
  <1>9. req' = [req EXCEPT ![s] = q] /\ WriteRow(r) /\ gen' = gen + 1 /\ UNCHANGED <<links, opened>>
    BY <1>5, <1>8 DEF ResendVerificationSave, Writes, Fresh
  <1>9a. gen' \in 0..MaxTokens /\ (gen' = gen \/ gen' = gen + 1) /\ gen <= gen'
    BY <1>1, <1>9, Deadlines DEF post
  <1>9b. /\ links' = links /\ opened' \subseteq Link /\ opened \subseteq opened' /\ proved' = proved
         /\ \A l \in opened' : l \notin opened => l.secret = 0
    BY <1>9 DEF post, proved, Inv, Types
  <1>10. UNCHANGED <<nextId, now, up>> /\ movedAt'[u] = movedAt[u] /\ Current(r)' /\ r.email # None
    <2>1. r.email # None
      BY <1>1, <1>5, <1>7, StoreAssumption DEF Live
    <2>2. WriteRow(r)
      BY <1>9
    <2>3. /\ movedAt'[u] = IF r.email # users[u].email THEN now ELSE movedAt[u]
          /\ UNCHANGED <<nextId, now, up>> /\ Current(r)'
      BY <1>5, <1>7a, <2>1, <2>2, Written
    <2> QED BY <1>7, <2>1, <2>3
  <1>11. Consistent(r)'
    <2>1. /\ \A kind, v, e : Used(kind, v, e) => Used(kind, v, e)'
          /\ \A e : Proved(e) => Proved(e)'
          /\ Secrets \subseteq Secrets'
          /\ gen' = gen + 1 => gen + 1 \in Secrets'
      BY <1>9a, <1>9b, StillUsed
    <2> QED
      BY <1>1, <1>2, <1>5, <1>6, <1>7, <1>9, <1>10, <2>1, ZenonT(60) DEF Consistent, Trusted, Reliable
  <1>12. Knows(q)'
    <2>1. /\ q.pc = "mailverify" /\ DOMAIN q = DOMAIN Idle /\ q.cont = req[s].cont /\ q.k = req[s].k
          /\ q.op = req[s].op /\ q.e = req[s].e /\ q.x = req[s].x /\ q.keep = req[s].keep
          /\ q.id = req[s].id /\ q.link = req[s].link /\ q.doc = r /\ q.sd = r
      BY <1>1, <1>5 DEF Fields, ++, Idle
    <2>2. Fields(q)'
      BY <1>1, <1>7a, <2>1 DEF Fields
    <2>3. Documents(q)' /\ Migrating(q)' /\ (Reliable => Lookups(q)') /\ Verifying(q)'
      BY <1>1, <1>2, <1>6, <1>7, <1>10, <2>1, Deadlines, ZenonT(60) DEF Documents, Migrating, Lookups, Verifying
    <2> QED BY <1>1, <1>10, <2>1, <2>2, <2>3 DEF Knows, Inserting, Generating, Reliable
  <1>13. /\ \A v \in Users \ {u} : ~Behind(req[s], v)
         /\ ~Behind(req[s], u)
    BY <1>1, <1>2, <1>5, <1>12 DEF Behind
  <1>14. /\ \/ r.migrationToken = 0 \/ r.migrationToken \in (gen + 1)..gen'
            \/ /\ r.migrationToken = users[u].migrationToken
               /\ r.email = users[u].email /\ r.newEmailPending = users[u].newEmailPending
         /\ \/ r.emailVerificationToken = 0 \/ r.emailVerificationToken \in (gen + 1)..gen'
            \/ /\ r.emailVerificationToken = users[u].emailVerificationToken
               /\ \/ r.provider # Local
                  \/ r.provider = users[u].provider /\ r.email = users[u].email
    BY <1>1, <1>6, <1>7, <1>9, Deadlines
  <1>15. users[u].isEmailVerified \/ r.email # users[u].email => r.isEmailVerified
    BY <1>1, <1>2, <1>6, <1>7, Zenon
  <1>16. r.email # users[u].email =>
            /\ movedAt[u] # 0 => now - movedAt[u] >= Cooldown
            /\ Reliable => Used("current", u, users[u].email) /\ Used("new", u, r.email)
    BY <1>7
  <1>17. r.bio = users[u].bio \/ At(s, "savebio")
    BY <1>1, <1>6, <1>7
  <1>18. req' = [req EXCEPT ![s] = q] /\ WriteRow(r)
    BY <1>9
  <1> QED
    BY <1>5, <1>7, <1>7a, <1>8, <1>9a, <1>9b, <1>10, <1>11, <1>12, <1>13, <1>14, <1>15, <1>16, <1>17,
       <1>18, Writing

\* updateBio saves the profile: the one step that may change it.
LEMMA UpdateBioSaveGood ==
    ASSUME Inv, OneAtATime, NEW s \in Slots, UpdateBioSave(s) PROVE Good
  <1>1. /\ Knows(req[s]) /\ Fields(req[s]) /\ req[s].pc = "savebio" /\ up
        /\ Current(req[s].doc) /\ req[s].doc \in Row /\ req[s].keep \in Row
    <2>1. Knows(req[s]) /\ Fields(req[s]) /\ req[s].pc = "savebio" /\ up
      BY Facts DEF UpdateBioSave
    <2>2. Current(req[s].doc) /\ req[s].doc \in Row /\ req[s].keep \in Row
      BY <2>1, StoreAssumption DEF Knows, Documents, Fields
    <2> QED BY <2>1, <2>2
  <1>2. PICK u : u = req[s].doc.id
    OBVIOUS
  <1>2a. PICK b \in {"old", "new"} :
             Save(s, [bio |-> b, migrationHistory |-> req[s].doc.migrationHistory], LAMBDA d : Idle, "idle")
    BY DEF UpdateBioSave
  <1>3. PICK w : w = [bio |-> b, migrationHistory |-> req[s].doc.migrationHistory]
    OBVIOUS
  <1>4. DOMAIN w \subseteq DOMAIN NoRow \ {"id"}
    BY <1>3 DEF NoRow
  <1>5. PICK r, q : /\ u \in Users /\ Live(u) /\ r.id = u
                    /\ Overlaid(r, w, users[u])
                    /\ q = Idle ++ req[s]
                    /\ Writes(s, r, q, "idle")
    <2>1. u \in Users /\ Live(u) /\ users[u] \in Row /\ users[u].id = u
      BY <1>1, <1>2, Facts DEF Current
    <2>2. PICK r : r = w ++ users[u]
      OBVIOUS
    <2>3. PICK q : q = Idle ++ req[s]
      OBVIOUS
    <2>4. Writes(s, r, q, "idle")
      BY <1>2, <1>2a, <1>3, <2>1, <2>2, <2>3 DEF Save, Save, Updated, Goto, Writes
    <2>5. Overlaid(r, w, users[u])
      BY <1>4, <2>1, <2>2, Merged DEF Overlaid
    <2>6. r.id = u
      BY <1>4, <2>1, <2>5 DEF NoRow, Overlaid
    <2> QED BY <2>1, <2>3, <2>4, <2>5, <2>6
  <1>6. /\ users[u] \in Row /\ Consistent(users[u]) /\ users[u].id = u
        /\ LET d == req[s].doc IN
            /\ d.email = users[u].email /\ d.isEmailVerified = users[u].isEmailVerified
            /\ d.provider = users[u].provider /\ d.bio = users[u].bio
            /\ d.newEmailPending = users[u].newEmailPending
    BY <1>1, <1>2, <1>5, Facts DEF Current
  <1>7. /\ r.email = users[u].email
        /\ r.isEmailVerified = users[u].isEmailVerified
        /\ r.password = users[u].password
        /\ r.provider = users[u].provider
        /\ r.emailVerificationToken = users[u].emailVerificationToken
        /\ r.emailVerificationExpires = users[u].emailVerificationExpires
        /\ r.previousEmail = users[u].previousEmail
        /\ r.migrationExpiry = users[u].migrationExpiry
        /\ r.newEmailPending = users[u].newEmailPending
        /\ r.migrationToken = users[u].migrationToken
        /\ r.migrationTokenExpires = users[u].migrationTokenExpires
        /\ r.currentEmailVerified = users[u].currentEmailVerified
        /\ r.newEmailVerified = users[u].newEmailVerified
        /\ r.lastMigrationDate = users[u].lastMigrationDate
        /\ r.tokenVersion = users[u].tokenVersion
        /\ r.migrationHistory = req[s].doc.migrationHistory
        /\ r.bio = b
    BY <1>1, <1>3, <1>5 DEF NoRow, Overlaid
  <1>7a. r \in Row
    <2>1. r.migrationHistory \in Seq(History)
      BY <1>1, <1>7, RowFields
    <2>2. /\ {0, now, now + TokenTtl, now + GraceTtl} \subseteq Ends
          /\ {0, gen + 1} \subseteq 0..(MaxTokens + 1)
      BY Deadlines
    <2>2a. /\ r.id \in 0..MaxUsers /\ r.email \in Emails \cup {None} /\ r.isEmailVerified \in BOOLEAN
           /\ r.password \in BOOLEAN /\ r.provider \in OAuthIds \cup {Local}
           /\ r.emailVerificationToken \in 0..(MaxTokens + 1) /\ r.emailVerificationExpires \in Ends
           /\ r.previousEmail \in Emails \cup {None} /\ r.migrationExpiry \in Ends
           /\ r.newEmailPending \in Emails \cup {None} /\ r.migrationToken \in 0..(MaxTokens + 1)
           /\ r.migrationTokenExpires \in Ends /\ r.currentEmailVerified \in BOOLEAN
           /\ r.newEmailVerified \in BOOLEAN /\ r.lastMigrationDate \in Ends
           /\ r.tokenVersion \in Nat /\ r.bio \in {"old", "new"}
      BY <1>1, <1>5, <1>6, <1>2a, <1>7, <2>2, RowFields, AccountsAssumption
    <2> QED BY <1>5, <2>1, <2>2a, RowIntro DEF Overlaid
  <1>8. ~Duplicate(r)
    BY <1>1, <1>5, <1>6, <1>7, NotDuplicate
  <1>9. req' = [req EXCEPT ![s] = q] /\ WriteRow(r) /\ UNCHANGED post
    BY <1>5, <1>8 DEF UpdateBioSave, Writes, Fresh
  <1>9a. gen' \in 0..MaxTokens /\ (gen' = gen \/ gen' = gen + 1) /\ gen <= gen'
    BY <1>1, <1>9, Deadlines DEF post
  <1>9b. /\ links' = links /\ opened' \subseteq Link /\ opened \subseteq opened' /\ proved' = proved
         /\ \A l \in opened' : l \notin opened => l.secret = 0
    BY <1>9 DEF post, proved, Inv, Types
  <1>10. UNCHANGED <<nextId, now, up>> /\ movedAt'[u] = movedAt[u] /\ Current(r)' /\ r.email # None
    <2>1. r.email # None
      BY <1>1, <1>5, <1>7, StoreAssumption DEF Live
    <2>2. WriteRow(r)
      BY <1>9
    <2>3. /\ movedAt'[u] = IF r.email # users[u].email THEN now ELSE movedAt[u]
          /\ UNCHANGED <<nextId, now, up>> /\ Current(r)'
      BY <1>5, <1>7a, <2>1, <2>2, Written
    <2> QED BY <1>7, <2>1, <2>3
  <1>11. Consistent(r)'
    <2>1. /\ \A kind, v, e : Used(kind, v, e) => Used(kind, v, e)'
          /\ \A e : Proved(e) => Proved(e)'
          /\ Secrets \subseteq Secrets'
          /\ gen' = gen + 1 => gen + 1 \in Secrets'
      BY <1>9a, <1>9b, StillUsed
    <2> QED
      BY <1>1, <1>2, <1>5, <1>6, <1>7, <1>9, <1>10, <2>1, ZenonT(60) DEF Consistent, Trusted, Reliable
  <1>12. Knows(q)'
    <2>1. q = Idle
      BY <1>1, <1>5 DEF Fields, ++, Idle
    <2> QED BY <2>1, Answered
  <1>13. /\ \A v \in Users \ {u} : ~Behind(req[s], v)
         /\ ~Behind(req[s], u)
    BY <1>1, <1>2, <1>5, <1>12 DEF Behind
  <1>14. /\ \/ r.migrationToken = 0 \/ r.migrationToken \in (gen + 1)..gen'
            \/ /\ r.migrationToken = users[u].migrationToken
               /\ r.email = users[u].email /\ r.newEmailPending = users[u].newEmailPending
         /\ \/ r.emailVerificationToken = 0 \/ r.emailVerificationToken \in (gen + 1)..gen'
            \/ /\ r.emailVerificationToken = users[u].emailVerificationToken
               /\ \/ r.provider # Local
                  \/ r.provider = users[u].provider /\ r.email = users[u].email
    BY <1>1, <1>6, <1>7, <1>9, Deadlines
  <1>15. users[u].isEmailVerified \/ r.email # users[u].email => r.isEmailVerified
    BY <1>1, <1>2, <1>6, <1>7
  <1>16. r.email # users[u].email =>
            /\ movedAt[u] # 0 => now - movedAt[u] >= Cooldown
            /\ Reliable => Used("current", u, users[u].email) /\ Used("new", u, r.email)
    BY <1>7
  <1>17. r.bio = users[u].bio \/ At(s, "savebio")
    BY <1>1
  <1>18. req' = [req EXCEPT ![s] = q] /\ WriteRow(r)
    BY <1>9
  <1> QED
    BY <1>5, <1>7, <1>7a, <1>8, <1>9a, <1>9b, <1>10, <1>11, <1>12, <1>13, <1>14, <1>15, <1>16, <1>17,
       <1>18, Writing

\* The OAuth strategy makes the account one of the provider.
LEMMA OAuthTakeOverGood ==
    ASSUME Inv, OneAtATime, NEW s \in Slots, OAuthTakeOver(s) PROVE Good
  <1>1. /\ Knows(req[s]) /\ Fields(req[s]) /\ req[s].pc = "takeover" /\ up
        /\ Current(req[s].doc) /\ req[s].doc \in Row /\ req[s].keep \in Row
        /\ req[s].id \in OAuthIds /\ req[s].id # Local /\ req[s].e \in Emails
        /\ users[req[s].doc.id].email = req[s].e \/ users[req[s].doc.id].isEmailVerified
    <2>1. Knows(req[s]) /\ Fields(req[s]) /\ req[s].pc = "takeover" /\ up
      BY Facts DEF OAuthTakeOver
    <2>2. Current(req[s].doc) /\ req[s].doc \in Row /\ req[s].keep \in Row
      BY <2>1, StoreAssumption DEF Knows, Documents, Fields
    <2>3. req[s].id \in OAuthIds
      BY <2>1, <2>2, StoreAssumption DEF Knows, Documents, Migrating, Lookups, Verifying, Generating, OAuthIds, Local
    <2>4. req[s].id # Local
      BY <2>1, <2>2, StoreAssumption DEF Knows, Documents, Migrating, Lookups, Verifying, Generating, OAuthIds, Local
    <2>5. req[s].e \in Emails
      BY <2>1, <2>2, StoreAssumption DEF Knows, Documents, Migrating, Lookups, Verifying, Generating, OAuthIds, Local
    <2>6. users[req[s].doc.id].email = req[s].e \/ users[req[s].doc.id].isEmailVerified
      BY <2>1, <2>2, StoreAssumption DEF Knows, Documents, Migrating, Lookups, Verifying, Generating, OAuthIds, Local
    <2> QED BY <2>1, <2>2, <2>3, <2>4, <2>5, <2>6
  <1>2. PICK u : u = req[s].doc.id
    OBVIOUS
  <1>2b. PICK l : /\ l = [kind |-> "oauth", secret |-> 0, u |-> u, to |-> req[s].e]
                  /\ l \in Link /\ l.kind = "oauth" /\ l.secret = 0 /\ l.to = req[s].e
    <2>1. u \in Users /\ 0 \in 0..(MaxTokens + 1)
      BY <1>1, <1>2, StoreAssumption DEF Current
    <2>2. PICK k : k = [kind |-> "oauth", secret |-> 0, u |-> u, to |-> req[s].e]
      OBVIOUS
    <2>3. k \in Link /\ k.kind = "oauth" /\ k.secret = 0 /\ k.to = req[s].e
      BY <1>1, <2>1, <2>2 DEF Link
    <2> QED BY <2>2, <2>3
  <1>3. PICK w : w = [provider |-> req[s].id, isEmailVerified |-> TRUE,
                       migrationHistory |-> req[s].doc.migrationHistory]
    OBVIOUS
  <1>4. DOMAIN w \subseteq DOMAIN NoRow \ {"id"}
    BY <1>3 DEF NoRow
  <1>5. PICK r, q : /\ u \in Users /\ Live(u) /\ r.id = u
                    /\ Overlaid(r, w, users[u])
                    /\ Syncs(q, r, "strategy", req[s])
                    /\ Writes(s, r, q, "idle")
    <2>1. SaveAndSync(s, w, "strategy", "idle")
      BY <1>3 DEF OAuthTakeOver
    <2> QED BY <1>1, <1>2, <1>4, <2>1, SaveStep
  <1>6. /\ users[u] \in Row /\ Consistent(users[u]) /\ users[u].id = u
        /\ LET d == req[s].doc IN
            /\ d.email = users[u].email /\ d.isEmailVerified = users[u].isEmailVerified
            /\ d.provider = users[u].provider /\ d.bio = users[u].bio
            /\ d.newEmailPending = users[u].newEmailPending
    BY <1>1, <1>2, <1>5, Facts DEF Current
  <1>7. /\ r.email = users[u].email
        /\ r.isEmailVerified = TRUE
        /\ r.password = users[u].password
        /\ r.provider = req[s].id
        /\ r.emailVerificationToken = users[u].emailVerificationToken
        /\ r.emailVerificationExpires = users[u].emailVerificationExpires
        /\ r.previousEmail = users[u].previousEmail
        /\ r.migrationExpiry = users[u].migrationExpiry
        /\ r.newEmailPending = users[u].newEmailPending
        /\ r.migrationToken = users[u].migrationToken
        /\ r.migrationTokenExpires = users[u].migrationTokenExpires
        /\ r.currentEmailVerified = users[u].currentEmailVerified
        /\ r.newEmailVerified = users[u].newEmailVerified
        /\ r.lastMigrationDate = users[u].lastMigrationDate
        /\ r.tokenVersion = users[u].tokenVersion
        /\ r.migrationHistory = req[s].doc.migrationHistory
        /\ r.bio = users[u].bio
    BY <1>1, <1>3, <1>5 DEF NoRow, Overlaid
  <1>7a. r \in Row
    <2>1. r.migrationHistory \in Seq(History)
      BY <1>1, <1>7, RowFields
    <2>2. /\ {0, now, now + TokenTtl, now + GraceTtl} \subseteq Ends
          /\ {0, gen + 1} \subseteq 0..(MaxTokens + 1)
      BY Deadlines
    <2>2a. /\ r.id \in 0..MaxUsers /\ r.email \in Emails \cup {None} /\ r.isEmailVerified \in BOOLEAN
           /\ r.password \in BOOLEAN /\ r.provider \in OAuthIds \cup {Local}
           /\ r.emailVerificationToken \in 0..(MaxTokens + 1) /\ r.emailVerificationExpires \in Ends
           /\ r.previousEmail \in Emails \cup {None} /\ r.migrationExpiry \in Ends
           /\ r.newEmailPending \in Emails \cup {None} /\ r.migrationToken \in 0..(MaxTokens + 1)
           /\ r.migrationTokenExpires \in Ends /\ r.currentEmailVerified \in BOOLEAN
           /\ r.newEmailVerified \in BOOLEAN /\ r.lastMigrationDate \in Ends
           /\ r.tokenVersion \in Nat /\ r.bio \in {"old", "new"}
      BY <1>1, <1>5, <1>6, <1>7, <2>2, RowFields, AccountsAssumption
    <2> QED BY <1>5, <2>1, <2>2a, RowIntro DEF Overlaid
  <1>8a. Duplicate(r) => Good
    <2>1. SUFFICES ASSUME Duplicate(r) PROVE Good
      OBVIOUS
    <2>2. UNCHANGED <<store, now, health, movedAt>>
      BY <1>5, <2>1 DEF Writes
    <2>3. req' = [req EXCEPT ![s] = Idle]
      BY <1>5, <2>1, GoOnTo DEF Answer, Writes
    <2>4. /\ UNCHANGED <<links, gen>>
          /\ opened' = opened \cup {l}
      BY <1>2, <1>2b DEF OAuthTakeOver, Vouch
    <2>6. proved' = proved
      BY <1>2b, <2>4 DEF proved
    <2>7. InStep(req[s]) /\ Knows(Idle)'
      BY <1>1, Answered DEF InStep, Behind
    <2>8. /\ gen' \in 0..MaxTokens /\ gen <= gen' /\ links' \subseteq Link /\ opened' \subseteq Link
          /\ \A m \in links' : m.secret # 0
          /\ \A m \in (links' \cup opened') \ (links \cup opened) : m.secret = 0
      BY <1>2b, <2>4, Deadlines DEF Inv, Types, Mails
    <2> QED BY <1>2b, <2>2, <2>3, <2>4, <2>6, <2>4, <2>7, <2>8, Posting
  <1>8. SUFFICES ASSUME ~Duplicate(r) PROVE Good
    BY <1>8a
  <1>9. req' = [req EXCEPT ![s] = q] /\ WriteRow(r) /\ UNCHANGED <<links, gen>>
         /\ opened' = opened \cup {l}
    BY <1>2, <1>2b, <1>5, <1>8 DEF OAuthTakeOver, Writes, Fresh, Vouch
  <1>9a. gen' \in 0..MaxTokens /\ (gen' = gen \/ gen' = gen + 1) /\ gen <= gen'
    BY <1>1, <1>9, Deadlines DEF post
  <1>9b. /\ links' = links /\ opened' \subseteq Link /\ opened \subseteq opened' /\ proved' = proved
         /\ \A m \in opened' : m \notin opened => m.secret = 0
    BY <1>2b, <1>9 DEF proved, Inv, Types
  <1>10. UNCHANGED <<nextId, now, up>> /\ movedAt'[u] = movedAt[u] /\ Current(r)' /\ r.email # None
    <2>1. r.email # None
      BY <1>1, <1>5, <1>7, StoreAssumption DEF Live
    <2>2. WriteRow(r)
      BY <1>9
    <2>3. /\ movedAt'[u] = IF r.email # users[u].email THEN now ELSE movedAt[u]
          /\ UNCHANGED <<nextId, now, up>> /\ Current(r)'
      BY <1>5, <1>7a, <2>1, <2>2, Written
    <2> QED BY <1>7, <2>1, <2>3
  <1>11. Consistent(r)'
    <2>1. /\ \A kind, v, e : Used(kind, v, e) => Used(kind, v, e)'
          /\ \A e : Proved(e) => Proved(e)'
          /\ Secrets \subseteq Secrets'
          /\ gen' = gen + 1 => gen + 1 \in Secrets'
      BY <1>9a, <1>9b, StillUsed
    <2>2. Trusted => Proved(r.email)'
      <3>1. PICK e : e = req[s].e
        OBVIOUS
      <3>2. Proved(e)'
        BY <1>2b, <1>9, <3>1 DEF Proved
      <3>3. Trusted => r.email = e \/ Proved(r.email)
        BY <1>1, <1>2, <1>6, <1>7, <3>1, ZenonT(30) DEF Consistent, Trusted
      <3> QED BY <2>1, <3>2, <3>3
    <2> QED
      BY <1>1, <1>2, <1>5, <1>6, <1>7, <1>9, <1>10, <2>1, <2>2, ZenonT(60) DEF Consistent, Trusted, Reliable
  <1>12. Knows(q)' /\ Behind(q, u) /\ \A v \in Users : Behind(q, v) => v = u
    <2>1. q = ([doc |-> r] ++ SyncFrom(r, "strategy")) ++ req[s]
      BY <1>5 DEF Syncs
    <2>2. /\ Fields(q) /\ q.pc = "sync" /\ q.cont = "strategy" /\ q.sd = r /\ q.doc = r
          /\ q.op = req[s].op /\ q.e = req[s].e /\ q.x = req[s].x /\ q.keep = req[s].keep
          /\ \A v : Behind(q, v) <=> v = u
      BY <1>1, <1>5, <1>7a, <1>10, <2>1, SyncShape DEF Continuations
    <2>3. Documents(q)' /\ Migrating(q)' /\ (Reliable => Lookups(q)')
      BY <1>1, <1>2, <1>6, <1>7, <1>10, <2>2, Deadlines, Zenon DEF Documents, Migrating, Lookups
    <2> QED BY <1>1, <1>5, <1>7a, <1>10, <2>1, <2>2, <2>3, SyncKnows DEF Continuations
  <1>13. /\ \A v \in Users \ {u} : ~Behind(req[s], v)
         /\ Behind(q, u)
    BY <1>1, <1>2, <1>5, <1>12 DEF Behind
  <1>14. /\ \/ r.migrationToken = 0 \/ r.migrationToken \in (gen + 1)..gen'
            \/ /\ r.migrationToken = users[u].migrationToken
               /\ r.email = users[u].email /\ r.newEmailPending = users[u].newEmailPending
         /\ \/ r.emailVerificationToken = 0 \/ r.emailVerificationToken \in (gen + 1)..gen'
            \/ /\ r.emailVerificationToken = users[u].emailVerificationToken
               /\ \/ r.provider # Local
                  \/ r.provider = users[u].provider /\ r.email = users[u].email
    BY <1>1, <1>6, <1>7, <1>9, Deadlines
  <1>15. users[u].isEmailVerified \/ r.email # users[u].email => r.isEmailVerified
    BY <1>1, <1>2, <1>6, <1>7, Zenon
  <1>16. r.email # users[u].email =>
            /\ movedAt[u] # 0 => now - movedAt[u] >= Cooldown
            /\ Reliable => Used("current", u, users[u].email) /\ Used("new", u, r.email)
    BY <1>7
  <1>17. r.bio = users[u].bio \/ At(s, "savebio")
    BY <1>1, <1>6, <1>7
  <1>18. req' = [req EXCEPT ![s] = q] /\ WriteRow(r)
    BY <1>9
  <1> QED
    BY <1>5, <1>7, <1>7a, <1>8, <1>9a, <1>9b, <1>10, <1>11, <1>12, <1>13, <1>14, <1>15, <1>16, <1>17,
       <1>18, Writing

------------------------------------------------------------------------------
(* Rows that come and go *)

\* What an insert leaves alone.
LEMMA Inserted ==
    ASSUME Inv, NEW r \in Row, NEW u \in Users, u = nextId, r.id = u, r.email # None,
           users' = [users EXCEPT ![u] = r], nextId' = nextId + 1
    PROVE  /\ ~Live(u) /\ Live(u)' /\ users'[u] = r /\ users' \in [Users -> Row] /\ movedAt[u] = 0
           /\ \A v \in Users \ {u} : users'[v] = users[v] /\ (Live(v)' <=> Live(v))
           /\ nextId' \in 1..(MaxUsers + 1) /\ nextId < nextId'
           /\ Current(r)'
           /\ \A d : Current(d) => Current(d)' /\ d.id # u
  <1>1. users \in [Users -> Row] /\ nextId \in 1..(MaxUsers + 1)
    BY DEF Inv, Types
  <1>2. ~Live(u) /\ movedAt[u] = 0
    BY <1>1, StoreAssumption, SMTT(30) DEF Inv, Rows
  <1>3. /\ users'[u] = r /\ users' \in [Users -> Row]
        /\ \A v \in Users \ {u} : users'[v] = users[v] /\ (Live(v)' <=> Live(v))
    BY <1>1 DEF Live
  <1>4. Live(u)' /\ Current(r)'
    BY <1>3 DEF Live, Current, Users
  <1>5. nextId' \in 1..(MaxUsers + 1) /\ nextId < nextId'
    BY <1>1, StoreAssumption, SMTT(30) DEF Users
  <1>6. \A d : Current(d) => Current(d)' /\ d.id # u
    BY <1>2, <1>3 DEF Current
  <1> QED BY <1>2, <1>3, <1>4, <1>5, <1>6

\* A row is inserted.  It is to be consistent, with a secret not used yet, and
\* the index is made to follow.
LEMMA InsertGood ==
    ASSUME Inv, OneAtATime, NEW s \in Slots, NEW r \in Row, NEW q, NEW u \in Users,
           u = nextId, r.id = u, r.email # None, ~Duplicate(r),
           users' = [users EXCEPT ![u] = r], nextId' = nextId + 1,
           UNCHANGED <<idx, movedAt, now, health>>,
           req' = [req EXCEPT ![s] = q], Knows(q)',
           links' = links, opened' \subseteq Link, opened \subseteq opened',
           \A l \in opened' : l \notin opened => l.secret = 0,
           proved' = proved,
           gen' \in 0..MaxTokens, gen' = gen \/ gen' = gen + 1,
           Consistent(r)', r.migrationToken = 0,
           r.emailVerificationToken = 0 \/ r.emailVerificationToken \in (gen + 1)..gen',
           InStep(req[s]), Behind(q, u)
    PROVE  Good
  <1> USE DEF health
  <1>1. DOMAIN req' = Slots /\ \A t \in Slots : req'[t] = q /\ req[t] = req[s]
    BY OnlyRequest DEF Inv, Types
  <1>2. /\ ~Live(u) /\ Live(u)' /\ users'[u] = r /\ users' \in [Users -> Row] /\ movedAt[u] = 0
        /\ \A v \in Users \ {u} : users'[v] = users[v] /\ (Live(v)' <=> Live(v))
        /\ nextId' \in 1..(MaxUsers + 1) /\ nextId < nextId'
    BY Inserted
  <1>3. /\ \A kind, v, e : Used(kind, v, e) => Used(kind, v, e)'
        /\ \A e : Proved(e) => Proved(e)'
        /\ Secrets \subseteq Secrets'
    BY StillUsed
  <1>4. Types'
    BY <1>1, <1>2 DEF Inv, Types
  <1>5. \A v \in Users \ {u} : Live(v) => Apart(r, users[v])
    <2> SUFFICES ASSUME NEW v \in Users \ {u}, Live(v) PROVE Apart(r, users[v])
      OBVIOUS
    <2>1. Consistent(users[v])
      BY DEF Inv, Rows
    <2>2. r.email # users[v].email /\ (r.provider = users[v].provider => r.provider = Local)
      BY DEF Duplicate
    <2>3. MaxTokens \in Nat /\ gen \in Nat /\ gen \in 0..MaxTokens
      BY StoreAssumption DEF Inv, Types
    <2>4. \A x \in {0} \cup Secrets : x \notin (gen + 1)..gen'
      BY <2>3 DEF Secrets
    <2>5. users[v].emailVerificationToken \in {0} \cup Secrets
      BY <2>1 DEF Consistent
    <2> QED BY <2>2, <2>4, <2>5 DEF Apart
  <1>6. Rows'
    <2>1. ASSUME NEW v \in Users \ {u}, Live(v) PROVE users[v].id = v /\ Consistent(users[v])'
      <3>1. users[v].id = v /\ Consistent(users[v])
        BY <2>1 DEF Inv, Rows
      <3>2. \A n : n \in Int /\ n < nextId => n < nextId'
        BY StoreAssumption, SMTT(30) DEF Inv, Types
      <3> QED BY <1>2, <1>3, <3>1, <3>2 DEF Consistent, Trusted, Reliable, Users
    <2>2. \A v, w \in Users : Live(v)' /\ Live(w)' /\ v # w => Apart(users'[v], users'[w])
      BY <1>2, <1>5 DEF Inv, Rows, Apart
    <2>3. \A v \in Users : Live(v)' => users'[v].id = v /\ Consistent(users[v])'
      BY <1>2, <2>1
    <2>4. \A v \in Users : v >= nextId' => ~Live(v)' /\ movedAt'[v] = 0
      BY <1>2, StoreAssumption DEF Inv, Rows, Types, Users
    <2>5. \A v \in Users : ~Live(v)' => users'[v] = NoRow
      BY <1>2 DEF Inv, Rows
    <2> QED BY <2>2, <2>3, <2>4, <2>5 DEF Rows, Apart
  <1>7. Mails'
    <2>1. ASSUME NEW l \in links \cup opened, l.secret # 0 PROVE Tells(l, r)
      <3>1. l.secret \in Secrets
        BY <2>1 DEF Inv, Mails
      <3>2. MaxTokens \in Nat /\ gen \in Nat /\ gen \in 0..MaxTokens
        BY StoreAssumption DEF Inv, Types
      <3>3. l.secret \notin (gen + 1)..gen'
        BY <3>1, <3>2 DEF Secrets
      <3> QED BY <2>1, <3>3 DEF Tells
    <2>2. \A l, x : Tells(l, x)' <=> Tells(l, x)
      BY DEF Tells, Trusted, Reliable
    <2>3. \A l \in links' \cup opened', v \in Users : l.secret # 0 /\ Live(v)' => Tells(l, users'[v])
      BY <1>2, <2>1 DEF Inv, Mails
    <2>4. \A l \in links' \cup opened' : l.secret \in {0} \cup Secrets'
      BY <1>3 DEF Inv, Mails
    <2> QED BY <2>2, <2>3, <2>4 DEF Inv, Mails
  <1>8. Index'
    <2>1. ASSUME NEW key \in Keys
          PROVE  /\ idx'[key].user = 0 => idx'[key] = NoEntry
                 /\ idx'[key].user # 0 => Live(idx[key].user)'
                 /\ key \in Permanent => idx'[key].exp = 0
                 /\ idx'[key].user # 0 => Fits(users'[idx'[key].user], key)
      <3>1. idx[key].user # 0 => idx[key].user \in Users /\ Live(idx[key].user)
        BY DEF Inv, Types, Users, Index
      <3> QED BY <1>2, <3>1 DEF Inv, Index
    <2>2. ASSUME Intact', NEW v \in Users, Live(v)'
          PROVE  Settled(v)' \/ Behind(q, v)
      <3>1. CASE v = u
        BY <3>1
      <3>2. CASE v # u
        <4>1. Live(v) /\ Intact
          BY <1>2, <2>2, <3>2 DEF Intact, Reliable
        <4>2. Settled(v)
          BY <1>1, <4>1 DEF Inv, Index, InStep
        <4> QED BY <1>2, <3>2, <4>2 DEF Settled
      <3> QED BY <3>1, <3>2
    <2> QED BY <1>1, <2>1, <2>2 DEF Index
  <1>9. Spaces /\ KeepsBio
    BY <1>2 DEF Spaces, KeepsBio
  <1>10. Ownership!Next
    <2>1. r.email \in Emails
      BY RowFields
    <2>2. owner[u] = "unborn"
      BY <1>2, StoreAssumption DEF owner, Inv, Types
    <2>3. owner' = [owner EXCEPT ![u] = r.email]
      <3>1. \A v \in Users \ {u} : v < nextId' <=> v < nextId
        BY StoreAssumption, SMTT(30) DEF Inv, Types, Users
      <3> QED BY <1>2, <3>1 DEF owner
    <2>4. \A v \in Users : owner[v] # r.email
      BY <1>2, <1>5, <2>1, OwnershipAssumption DEF owner, Apart
    <2>5. Ownership!Create(u, r.email)
      BY <2>1, <2>2, <2>3, <2>4 DEF Ownership!Create, Ownership!Free, owner, proved
    <2> QED BY <2>1, <2>5 DEF Ownership!Next
  <1> QED BY <1>1, <1>4, <1>6, <1>7, <1>8, <1>9, <1>10 DEF Inv, Good

\* The row that an insert makes, or none where it would be a duplicate.
LEMMA InsertStep ==
    ASSUME Inv, NEW s \in Slots, NEW u, u = nextId, NEW r0 \in Row, NEW cont, u \in Users,
           InsertAndSync(s, r0, cont)
    PROVE  \E r, q :
              /\ r \in Row /\ r.id = u /\ \A f \in DOMAIN NoRow \ {"id"} : r[f] = r0[f]
              /\ q = SyncFrom(r, cont) ++ req[s]
              /\ IF Duplicate(r) THEN Answer(s) /\ UNCHANGED <<store, movedAt>>
                 ELSE /\ users' = [users EXCEPT ![u] = r] /\ nextId' = nextId + 1
                      /\ req' = [req EXCEPT ![s] = q] /\ UNCHANGED <<idx, movedAt>>
  <1>1. PICK r : r = [r0 EXCEPT !.id = nextId]
    OBVIOUS
  <1>2. PICK q : q = SyncFrom(r, cont) ++ req[s]
    OBVIOUS
  <1>3. DOMAIN r0 = DOMAIN NoRow
    BY RowFields
  <1>4. r.id = u /\ \A f \in DOMAIN NoRow \ {"id"} : r[f] = r0[f]
    BY <1>1, <1>3 DEF NoRow
  <1>5. r \in Row
    <2>1. u \in 0..MaxUsers
      BY StoreAssumption DEF Users
    <2> QED BY <1>1, <2>1 DEF Row
  <1>6. IF Duplicate(r) THEN Answer(s) /\ UNCHANGED <<store, movedAt>>
        ELSE /\ users' = [users EXCEPT ![u] = r] /\ nextId' = nextId + 1
             /\ req' = [req EXCEPT ![s] = q] /\ UNCHANGED <<idx, movedAt>>
    BY <1>1, <1>2 DEF InsertAndSync, Goto
  <1> QED BY <1>2, <1>4, <1>5, <1>6

\* The columns of a row that has just been made and was not verified or moved.
LEMMA NewRow ==
    ASSUME Inv, NEW r \in Row, r.id = nextId, nextId \in Users, nextId' = nextId + 1,
           opened \subseteq opened', gen' \in 0..MaxTokens, gen' = gen \/ gen' = gen + 1,
           UNCHANGED <<now, movedAt>>, movedAt[nextId] = 0, r.email \in Emails,
           r.newEmailPending = None, r.previousEmail = None, r.migrationToken = 0,
           ~r.currentEmailVerified, ~r.newEmailVerified, r.lastMigrationDate = 0,
           r.isEmailVerified /\ r.provider = Local => r.emailVerificationToken = 0,
           r.emailVerificationToken \in {0, gen'},
           Trusted /\ r.isEmailVerified => Proved(r.email)'
    PROVE  Consistent(r)'
  <1>1. now \in 1..MaxNow /\ gen \in 0..MaxTokens
    BY Deadlines
  <1>2. gen' \in {0} \cup Secrets'
    <2>1. gen' \in Nat
      BY StoreAssumption
    <2> QED BY <2>1 DEF Secrets
  <1>3. None \notin Emails /\ nextId < nextId'
    BY StoreAssumption, SMTT(30) DEF Inv, Types
  <1>4. 0 <= now'
    BY <1>1, StoreAssumption
  <1> QED BY <1>2, <1>3, <1>4 DEF Consistent, Trusted, Reliable

\* A request that starts to sync the row it has inserted.
LEMMA InsertSync ==
    ASSUME NEW r0, Fields(r0), NEW d \in Row, d.id \in Users, d.email # None,
           NEW cont \in Continuations, NEW q, q = SyncFrom(d, cont) ++ r0
    PROVE  /\ q.pc = "sync" /\ q.cont = cont /\ q.sd = d /\ q.doc = r0.doc
           /\ q.op = r0.op /\ q.e = r0.e /\ Behind(q, d.id)
           /\ up' /\ Current(d)' /\ Documents(q)' /\ Migrating(q)' /\ (Reliable => Lookups(q)')
                  => Knows(q)'
  <1>1. PICK doc : doc = r0.doc
    OBVIOUS
  <1>2. doc \in Row
    BY <1>1 DEF Fields
  <1>3. /\ q.pc = "sync" /\ q.cont = cont /\ q.sd = d /\ q.doc = doc
        /\ q.op = r0.op /\ q.e = r0.e /\ Behind(q, d.id)
    <2>1. \/ q = ([doc |-> d] ++ SyncFrom(d, cont)) ++ r0 /\ doc = d
          \/ q = SyncFrom(d, cont) ++ r0 /\ doc = r0.doc
      BY <1>1
    <2>2. /\ q.pc = "sync" /\ q.cont = cont /\ q.sd = d /\ q.doc = doc
          /\ q.op = r0.op /\ q.e = r0.e
          /\ \A u : Behind(q, u) <=> u = d.id
      BY <1>2, <2>1, SyncShape
    <2> QED BY <2>2
  <1>4. ASSUME up', Current(d)', Documents(q)', Migrating(q)', Reliable => Lookups(q)'
        PROVE  Knows(q)'
    BY <1>1, <1>2, <1>4, SyncKnows
  <1> QED BY <1>1, <1>3, <1>4

\* The row that register makes.
LEMMA NewCredentials ==
    ASSUME Inv, NEW e \in Emails, gen < MaxTokens,
           NEW r0, r0 = Credentials ++ [NoRow EXCEPT !.email = e]
    PROVE  /\ r0.email = e /\ r0.isEmailVerified = AutoVerifyEmail
           /\ r0.provider = Local /\ r0.bio = "old"
           /\ r0.emailVerificationToken = (IF AutoVerifyEmail THEN 0 ELSE gen + 1)
           /\ r0.previousEmail = None /\ r0.newEmailPending = None /\ r0.migrationToken = 0
           /\ r0.currentEmailVerified = FALSE /\ r0.newEmailVerified = FALSE
           /\ r0.lastMigrationDate = 0 /\ r0.migrationHistory = <<>>
           /\ r0 \in Row
  <1>1. PICK n : n = [NoRow EXCEPT !.email = e]
    OBVIOUS
  <1>2. /\ n \in Row
        /\ DOMAIN n = DOMAIN NoRow /\ n.email = e
        /\ \A f \in DOMAIN NoRow : f # "email" => n[f] = NoRow[f]
    <2>1. n \in Row
      BY <1>1, NoRowIsRow DEF Row
    <2>2. "email" \in DOMAIN NoRow
      BY DEF NoRow
    <2>3. DOMAIN NoRow = DOMAIN n
      BY <1>1
    <2> QED BY <1>1, <2>1, <2>2, <2>3
  <1>3. DOMAIN Credentials \subseteq DOMAIN NoRow
    BY DEF Credentials, NoRow
  <1>4. /\ r0 = [f \in DOMAIN NoRow |-> r0[f]]
        /\ \A f \in DOMAIN NoRow : r0[f] = IF f \in DOMAIN Credentials THEN Credentials[f] ELSE n[f]
    BY <1>1, <1>2, <1>3, Merged
  <1>5. /\ r0.id = 0 /\ r0.email = e /\ r0.isEmailVerified = AutoVerifyEmail
        /\ r0.password = TRUE /\ r0.provider = Local
        /\ r0.emailVerificationToken = (IF AutoVerifyEmail THEN 0 ELSE gen + 1)
        /\ r0.emailVerificationExpires = (IF AutoVerifyEmail THEN 0 ELSE now + TokenTtl)
        /\ r0.previousEmail = None /\ r0.migrationExpiry = 0
        /\ r0.newEmailPending = None /\ r0.migrationToken = 0
        /\ r0.migrationTokenExpires = 0 /\ r0.currentEmailVerified = FALSE
        /\ r0.newEmailVerified = FALSE /\ r0.lastMigrationDate = 0
        /\ r0.tokenVersion = 0 /\ r0.migrationHistory = <<>> /\ r0.bio = "old"
    <2> DEFINE kept == {"id", "previousEmail", "migrationExpiry", "newEmailPending",
                       "migrationToken", "migrationTokenExpires",
                       "currentEmailVerified", "newEmailVerified",
                       "lastMigrationDate", "tokenVersion",
                       "migrationHistory", "bio"}
    <2>1. \A f \in DOMAIN Credentials : r0[f] = Credentials[f]
      BY <1>3, <1>4
    <2>2. /\ DOMAIN Credentials = {"password", "provider", "isEmailVerified",
                                   "emailVerificationToken", "emailVerificationExpires"}
          /\ kept \subseteq DOMAIN NoRow
      BY DEF Credentials, NoRow
    <2>3. r0.email = e
      BY <1>2, <1>4, <2>2 DEF NoRow
    <2>4. /\ r0.isEmailVerified = AutoVerifyEmail /\ r0.password = TRUE /\ r0.provider = Local
          /\ r0.emailVerificationToken = (IF AutoVerifyEmail THEN 0 ELSE gen + 1)
          /\ r0.emailVerificationExpires = (IF AutoVerifyEmail THEN 0 ELSE now + TokenTtl)
      BY <2>1 DEF Credentials, Fresh
    <2>5. \A f \in kept : r0[f] = NoRow[f]
      BY <1>2, <1>4, <2>2
    <2>6. /\ r0.id = 0 /\ r0.previousEmail = None /\ r0.migrationExpiry = 0
          /\ r0.newEmailPending = None /\ r0.migrationToken = 0
          /\ r0.migrationTokenExpires = 0 /\ r0.currentEmailVerified = FALSE
          /\ r0.newEmailVerified = FALSE /\ r0.lastMigrationDate = 0
          /\ r0.tokenVersion = 0 /\ r0.migrationHistory = <<>> /\ r0.bio = "old"
      BY <2>5 DEF NoRow
    <2> QED BY <2>3, <2>4, <2>6
  <1>6. /\ {0, now, now + TokenTtl, now + GraceTtl} \subseteq Ends
        /\ {0, gen + 1} \subseteq 0..(MaxTokens + 1)
    BY Deadlines
  <1>7. 0 \in 0..MaxUsers /\ <<>> \in Seq(History)
    BY StoreAssumption
  <1>8. r0 \in Row
    <2>1. r0 = [f \in DOMAIN NoRow |-> r0[f]]
      BY <1>4
    <2>2. /\ r0.id \in 0..MaxUsers /\ r0.email \in Emails \cup {None} /\ r0.isEmailVerified \in BOOLEAN
          /\ r0.password \in BOOLEAN /\ r0.provider \in OAuthIds \cup {Local}
          /\ r0.emailVerificationToken \in 0..(MaxTokens + 1) /\ r0.emailVerificationExpires \in Ends
          /\ r0.previousEmail \in Emails \cup {None} /\ r0.migrationExpiry \in Ends
          /\ r0.newEmailPending \in Emails \cup {None} /\ r0.migrationToken \in 0..(MaxTokens + 1)
          /\ r0.migrationTokenExpires \in Ends /\ r0.currentEmailVerified \in BOOLEAN
          /\ r0.newEmailVerified \in BOOLEAN /\ r0.lastMigrationDate \in Ends
          /\ r0.tokenVersion \in Nat /\ r0.migrationHistory \in Seq(History) /\ r0.bio \in {"old", "new"}
      <3>1. r0.isEmailVerified \in BOOLEAN
        BY <1>5, AccountsAssumption, Zenon
      <3>2. r0.emailVerificationToken \in 0..(MaxTokens + 1) /\ r0.emailVerificationExpires \in Ends
        BY <1>5, <1>6
      <3>3. /\ r0.id = 0 /\ r0.email \in Emails /\ r0.password = TRUE /\ r0.provider = Local
            /\ r0.previousEmail = None /\ r0.migrationExpiry = 0
            /\ r0.newEmailPending = None /\ r0.migrationToken = 0
            /\ r0.migrationTokenExpires = 0 /\ r0.currentEmailVerified = FALSE
            /\ r0.newEmailVerified = FALSE /\ r0.lastMigrationDate = 0
            /\ r0.tokenVersion = 0 /\ r0.migrationHistory = <<>> /\ r0.bio = "old"
        BY <1>5
      <3>4. 0 \in Ends /\ 0 \in 0..(MaxTokens + 1)
        BY <1>6
      <3>5. /\ r0.password \in BOOLEAN /\ r0.currentEmailVerified \in BOOLEAN
            /\ r0.newEmailVerified \in BOOLEAN
        BY <3>3, Zenon
      <3>6. /\ r0.id \in 0..MaxUsers /\ r0.email \in Emails \cup {None}
            /\ r0.provider \in OAuthIds \cup {Local}
            /\ r0.previousEmail \in Emails \cup {None} /\ r0.newEmailPending \in Emails \cup {None}
        BY <1>7, <3>3
      <3>7. /\ r0.migrationExpiry \in Ends /\ r0.migrationToken \in 0..(MaxTokens + 1)
            /\ r0.migrationTokenExpires \in Ends /\ r0.lastMigrationDate \in Ends
            /\ r0.tokenVersion \in Nat
        BY <3>3, <3>4
      <3>8. r0.migrationHistory \in Seq(History) /\ r0.bio \in {"old", "new"}
        BY <1>7, <3>3
      <3> QED BY <3>1, <3>2, <3>5, <3>6, <3>7, <3>8
    <2> QED BY <2>1, <2>2, RowIntro
  <1> QED BY <1>5, <1>8

\* register inserts the account.
LEMMA RegisterSaveNew ==
    ASSUME Inv, OneAtATime, NEW s \in Slots, RegisterSave(s), req[s].doc.id = 0 PROVE Good
  <1>1. /\ Knows(req[s]) /\ Fields(req[s]) /\ req[s].pc = "create" /\ up
        /\ req[s].e \in Emails /\ gen < MaxTokens /\ nextId \in Users
    <2>1. Knows(req[s]) /\ Fields(req[s]) /\ req[s].pc = "create" /\ up
      BY Facts DEF RegisterSave
    <2>2. nextId <= MaxUsers /\ nextId \in 1..(MaxUsers + 1)
      BY <2>1, Facts DEF Knows, Inserting
    <2>3. nextId \in Users
      BY <2>2, StoreAssumption DEF Users
    <2> QED BY <2>1, <2>3 DEF Knows, Documents, Generating
  <1>2. PICK u : u = nextId
    OBVIOUS
  <1>3. PICK r0 : r0 = Credentials ++ [NoRow EXCEPT !.email = req[s].e]
    OBVIOUS
  <1>4. /\ r0.email = req[s].e /\ r0.isEmailVerified = AutoVerifyEmail
        /\ r0.provider = Local /\ r0.bio = "old"
        /\ r0.emailVerificationToken = (IF AutoVerifyEmail THEN 0 ELSE gen + 1)
        /\ r0.previousEmail = None /\ r0.newEmailPending = None /\ r0.migrationToken = 0
        /\ r0.currentEmailVerified = FALSE /\ r0.newEmailVerified = FALSE
        /\ r0.lastMigrationDate = 0
        /\ r0 \in Row
    BY <1>1, <1>3, NewCredentials, ZenonT(60)
  <1>5. /\ InsertAndSync(s, r0, "mailverify")
        /\ gen' = gen + 1 /\ UNCHANGED <<now, health, links, opened>>
    BY <1>3 DEF RegisterSave, Fresh
  <1>6. PICK r, q :
              /\ r \in Row /\ r.id = u /\ \A f \in DOMAIN NoRow \ {"id"} : r[f] = r0[f]
              /\ q = SyncFrom(r, "mailverify") ++ req[s]
              /\ IF Duplicate(r) THEN Answer(s) /\ UNCHANGED <<store, movedAt>>
                 ELSE /\ users' = [users EXCEPT ![u] = r] /\ nextId' = nextId + 1
                      /\ req' = [req EXCEPT ![s] = q] /\ UNCHANGED <<idx, movedAt>>
    BY <1>1, <1>2, <1>4, <1>5, InsertStep
  <1>7. InStep(req[s])
    BY <1>1 DEF InStep, Behind
  <1>8. /\ gen' \in 0..MaxTokens /\ gen <= gen' /\ gen + 1 # 0
        /\ gen + 1 \in (gen + 1)..gen'
    BY <1>1, <1>5, Deadlines
  <1>8a. /\ links' \subseteq Link /\ opened' \subseteq Link /\ proved' = proved
         /\ \A l \in links' : l.secret # 0
    BY <1>5 DEF proved, Inv, Types, Mails
  <1>9. CASE Duplicate(r)
    <2>1. req' = [req EXCEPT ![s] = Idle] /\ UNCHANGED <<store, now, health, movedAt>>
      BY <1>5, <1>6, <1>9 DEF Answer
    <2>2. Knows(Idle)'
      BY Answered
    <2> QED BY <1>5, <1>7, <1>8, <1>8a, <2>1, <2>2, Posting
  <1>10. CASE ~Duplicate(r)
    <2>1. /\ users' = [users EXCEPT ![u] = r] /\ nextId' = nextId + 1
          /\ req' = [req EXCEPT ![s] = q] /\ UNCHANGED <<idx, movedAt>>
      BY <1>6, <1>10
    <2>2. /\ r.email = req[s].e /\ r.isEmailVerified = AutoVerifyEmail /\ r.provider = Local
          /\ r.emailVerificationToken = (IF AutoVerifyEmail THEN 0 ELSE gen + 1)
          /\ r.previousEmail = None /\ r.newEmailPending = None /\ r.migrationToken = 0
          /\ r.currentEmailVerified = FALSE /\ r.newEmailVerified = FALSE
          /\ r.lastMigrationDate = 0 /\ r.email # None
      BY <1>1, <1>4, <1>6, StoreAssumption DEF NoRow
    <2>3. movedAt[u] = 0 /\ Current(r)'
      BY <1>1, <1>2, <1>6, <2>1, <2>2, Inserted
    <2>4. Consistent(r)'
      BY <1>1, <1>2, <1>5, <1>6, <1>8, <2>1, <2>2, <2>3, AccountsAssumption, NewRow DEF Trusted
    <2>5. /\ q.pc = "sync" /\ q.cont = "mailverify" /\ q.sd = r /\ q.e = req[s].e
          /\ Behind(q, u)
          /\ up' /\ Current(r)' /\ Documents(q)' /\ Migrating(q)' /\ (Reliable => Lookups(q)')
                 => Knows(q)'
      <3>1. q = SyncFrom(r, "mailverify") ++ req[s] /\ r \in Row /\ r.id \in Users /\ r.email # None
            /\ r.id = u
        BY <1>1, <1>2, <1>6, <2>2
      <3>2. "mailverify" \in Continuations /\ Fields(req[s])
        BY <1>1 DEF Continuations
      <3> QED BY <3>1, <3>2, InsertSync
    <2>6. Documents(q)' /\ Migrating(q)' /\ (Reliable => Lookups(q)')
      BY <1>1, <1>8, <2>2, <2>3, <2>5 DEF Documents, Migrating, Lookups
    <2>7. Knows(q)'
      BY <1>1, <1>5, <2>3, <2>5, <2>6 DEF health
    <2>8. r.emailVerificationToken = 0 \/ r.emailVerificationToken \in (gen + 1)..gen'
      BY <1>8, <2>2
    <2> QED BY <1>1, <1>2, <1>5, <1>6, <1>7, <1>8, <1>8a, <1>10, <2>1, <2>2, <2>4, <2>5, <2>7, <2>8,
               InsertGood
  <1> QED BY <1>9, <1>10

\* register inserts or overwrites.
LEMMA RegisterSaveGood ==
    ASSUME Inv, OneAtATime, NEW s \in Slots, RegisterSave(s) PROVE Good
  BY RegisterSaveNew, RegisterSaveAgain

\* The OAuth strategy inserts an account.
LEMMA OAuthCreateGood ==
    ASSUME Inv, OneAtATime, NEW s \in Slots, OAuthCreate(s) PROVE Good
  <1>1. /\ Knows(req[s]) /\ Fields(req[s]) /\ req[s].pc = "oauthcreate" /\ up
        /\ req[s].e \in Emails /\ req[s].id \in OAuthIds /\ nextId \in Users
    <2>1. Knows(req[s]) /\ Fields(req[s]) /\ req[s].pc = "oauthcreate" /\ up
      BY Facts DEF OAuthCreate
    <2>2. nextId <= MaxUsers /\ nextId \in 1..(MaxUsers + 1)
      BY <2>1, Facts DEF Knows, Inserting
    <2>3. nextId \in Users
      BY <2>2, StoreAssumption DEF Users
    <2> QED BY <2>1, <2>3 DEF Knows, Documents
  <1>2. PICK u : u = nextId
    OBVIOUS
  <1>3. PICK r0 : r0 = [NoRow EXCEPT !.email = req[s].e, !.provider = req[s].id,
                                     !.isEmailVerified = TRUE]
    OBVIOUS
  <1>4. /\ r0.email = req[s].e /\ r0.isEmailVerified = TRUE /\ r0.provider = req[s].id
        /\ r0.emailVerificationToken = 0
        /\ r0.previousEmail = None /\ r0.newEmailPending = None /\ r0.migrationToken = 0
        /\ r0.currentEmailVerified = FALSE /\ r0.newEmailVerified = FALSE
        /\ r0.lastMigrationDate = 0
        /\ r0 \in Row
    BY <1>1, <1>3, NoRowIsRow DEF Row, NoRow
  <1>5. /\ InsertAndSync(s, r0, "idle")
        /\ IF nextId' # nextId THEN Vouch(nextId, req[s].e) ELSE UNCHANGED opened
        /\ UNCHANGED <<links, gen, now, health>>
    BY <1>3 DEF OAuthCreate
  <1>6. PICK r, q :
              /\ r \in Row /\ r.id = u /\ \A f \in DOMAIN NoRow \ {"id"} : r[f] = r0[f]
              /\ q = SyncFrom(r, "idle") ++ req[s]
              /\ IF Duplicate(r) THEN Answer(s) /\ UNCHANGED <<store, movedAt>>
                 ELSE /\ users' = [users EXCEPT ![u] = r] /\ nextId' = nextId + 1
                      /\ req' = [req EXCEPT ![s] = q] /\ UNCHANGED <<idx, movedAt>>
    BY <1>1, <1>2, <1>4, <1>5, InsertStep
  <1>7. InStep(req[s])
    BY <1>1 DEF InStep, Behind
  <1>8. CASE Duplicate(r)
    <2>1. Reads /\ Answer(s)
      BY <1>5, <1>6, <1>8 DEF Reads, store, post
    <2> QED BY <1>7, <2>1, Answers
  <1>9. CASE ~Duplicate(r)
    <2>1. /\ users' = [users EXCEPT ![u] = r] /\ nextId' = nextId + 1
          /\ req' = [req EXCEPT ![s] = q] /\ UNCHANGED <<idx, movedAt>>
      BY <1>6, <1>9
    <2>2. /\ r.email = req[s].e /\ r.isEmailVerified = TRUE /\ r.provider = req[s].id
          /\ r.emailVerificationToken = 0
          /\ r.previousEmail = None /\ r.newEmailPending = None /\ r.migrationToken = 0
          /\ r.currentEmailVerified = FALSE /\ r.newEmailVerified = FALSE
          /\ r.lastMigrationDate = 0 /\ r.email # None
      BY <1>1, <1>4, <1>6, StoreAssumption, SMTT(30) DEF NoRow
    <2>3. movedAt[u] = 0 /\ Current(r)'
      BY <1>1, <1>2, <1>6, <2>1, <2>2, Inserted
    <2>4. PICK v : v = [kind |-> "oauth", secret |-> 0, u |-> u, to |-> req[s].e]
      OBVIOUS
    <2>5. opened' = opened \cup {v} /\ v \in Link /\ v.kind = "oauth" /\ v.to = req[s].e /\ v.secret = 0
      <3>1. nextId' # nextId
        BY <1>1, <2>1 DEF Users
      <3>2. 0 \in 0..(MaxTokens + 1)
        BY StoreAssumption
      <3> QED BY <1>1, <1>2, <1>5, <2>4, <3>1, <3>2 DEF Vouch, Link
    <2>6. /\ opened' \subseteq Link /\ opened \subseteq opened'
          /\ \A l \in opened' : l \notin opened => l.secret = 0
          /\ proved' = proved
      <3>1. \A l : l \in opened' /\ l.kind \in {"current", "new"}
                      <=> l \in opened /\ l.kind \in {"current", "new"}
        BY <2>5
      <3> QED BY <2>5, <3>1 DEF proved, Inv, Types
    <2>7. Proved(r.email)'
      BY <2>2, <2>5 DEF Proved
    <2>8. gen' \in 0..MaxTokens /\ gen' = gen
      BY <1>5, Deadlines
    <2>9. Consistent(r)'
      BY <1>1, <1>2, <1>5, <1>6, <2>1, <2>2, <2>3, <2>6, <2>7, <2>8, NewRow
    <2>10. /\ q.pc = "sync" /\ q.cont = "idle" /\ q.sd = r /\ Behind(q, u)
           /\ up' /\ Current(r)' /\ Documents(q)' /\ Migrating(q)' /\ (Reliable => Lookups(q)')
                  => Knows(q)'
      <3>1. q = SyncFrom(r, "idle") ++ req[s] /\ r \in Row /\ r.id \in Users /\ r.email # None
            /\ r.id = u
        BY <1>1, <1>2, <1>6, <2>2
      <3>2. "idle" \in Continuations /\ Fields(req[s])
        BY <1>1 DEF Continuations
      <3> QED BY <3>1, <3>2, InsertSync
    <2>11. Documents(q)' /\ Migrating(q)' /\ (Reliable => Lookups(q)')
      BY <2>10 DEF Documents, Migrating, Lookups
    <2>12. Knows(q)'
      BY <1>1, <1>5, <2>3, <2>10, <2>11 DEF health
    <2> QED BY <1>1, <1>2, <1>5, <1>6, <1>7, <1>9, <2>1, <2>2, <2>6, <2>8, <2>9, <2>10, <2>12,
               InsertGood
  <1> QED BY <1>8, <1>9

\* The account that has the new address gives way to the one that moves there.
LEMMA DeleteGood ==
    ASSUME Inv, OneAtATime, NEW s \in Slots, NEW pc, NEW then,
           <<pc, then>> \in {<<"findelete", "finupdate">>, <<"recdelete", "idle">>},
           At(s, pc), Delete(s, req[s].x, then)
    PROVE  Good
  <1>1. PICK x : x = req[s].x
    OBVIOUS
  <1>2. PICK d : d = req[s].doc
    OBVIOUS
  <1>3. /\ Knows(req[s]) /\ Fields(req[s]) /\ req[s].pc = pc /\ up
        /\ x \in Users /\ x # d.id /\ Current(d) /\ d \in Row
        /\ BothVerified(users[d.id]) /\ users[d.id].newEmailPending = req[s].e
        /\ req[s].e \in Emails
        /\ Reliable => Live(x) /\ users[x].email = req[s].e
    <2>1. Knows(req[s]) /\ Fields(req[s]) /\ req[s].pc = pc /\ up /\ pc \in {"findelete", "recdelete"}
      BY Facts
    <2>2. /\ x \in Users /\ x # d.id /\ Current(d) /\ req[s].e \in Emails
          /\ BothVerified(users[d.id]) /\ users[d.id].newEmailPending = req[s].e
      BY <1>1, <1>2, <2>1 DEF Knows, Documents, Migrating
    <2>3. Reliable => Live(x) /\ users[x].email = req[s].e
      BY <1>1, <2>1, <2>2 DEF Knows, Lookups, Holder, Users
    <2> QED BY <1>2, <2>1, <2>2, <2>3 DEF Fields
  <1>4. PICK q : q = IF then = "idle" THEN Idle ELSE [pc |-> then] ++ req[s]
    OBVIOUS
  <1>5. /\ req' = [req EXCEPT ![s] = q] /\ idx' = Prune(idx, x, {})
        /\ users' = [users EXCEPT ![x] = NoRow]
        /\ UNCHANGED <<nextId, links, gen, opened, now, up, crashes, faults, broken, movedAt>>
    <2>1. IF then = "idle" THEN Answer(s) ELSE Goto(s, [pc |-> then])
      BY GoOnTo DEF Delete
    <2> QED BY <1>1, <1>4, <2>1 DEF Delete, Answer, Goto, post, health
  <1>6. DOMAIN req' = Slots /\ \A t \in Slots : req'[t] = q /\ req[t] = req[s]
    BY <1>5, OnlyRequest DEF Inv, Types
  <1>7. /\ users'[x] = NoRow /\ users' \in [Users -> Row]
        /\ \A v \in Users \ {x} : users'[v] = users[v]
    BY <1>3, <1>5, NoRowIsRow DEF Inv, Types
  <1>8. ~Live(x)' /\ \A v \in Users \ {x} : Live(v)' <=> Live(v)
    BY <1>7 DEF Live, NoRow
  <1>9. /\ idx' \in [Keys -> [user : 0..MaxUsers, exp : Ends]]
        /\ \A key \in Keys :
              /\ idx'[key] = idx[key] \/ idx'[key] = NoEntry
              /\ idx[key].user # x => idx'[key] = idx[key]
              /\ idx'[key].user # x
    BY <1>3, <1>5, Pruned
  <1>10. Types'
    BY <1>5, <1>6, <1>7, <1>9 DEF Inv, Types
  <1>11. Rows'
    <2>1. \A r : Consistent(r) => Consistent(r)'
      BY <1>5 DEF Consistent, Used, Proved, Secrets, Trusted, Reliable
    <2> QED BY <1>5, <1>7, <1>8, <2>1 DEF Inv, Rows, Apart
  <1>12. Mails'
    <2>1. \A l, r : Tells(l, r) => Tells(l, r)'
      BY DEF Tells, Trusted, Reliable
    <2> QED BY <1>5, <1>7, <1>8, <2>1 DEF Inv, Mails, Secrets
  <1>13. Index'
    <2>1. NoEntry.user = 0 /\ NoEntry.exp = 0
      BY DEF NoEntry
    <2>2. ASSUME NEW key \in Keys
          PROVE  /\ idx'[key].user = 0 => idx'[key] = NoEntry
                 /\ idx'[key].user # 0 => Live(idx[key].user)'
                 /\ key \in Permanent => idx'[key].exp = 0
                 /\ idx'[key].user # 0 => Fits(users'[idx'[key].user], key)
      <3>1. idx[key].user # 0 => idx[key].user \in Users /\ Live(idx[key].user)
        BY DEF Inv, Types, Users, Index
      <3>2. CASE idx'[key] = NoEntry
        BY <2>1, <3>2
      <3>3. CASE idx'[key] = idx[key]
        BY <1>7, <1>8, <1>9, <3>1, <3>3 DEF Inv, Index
      <3> QED BY <1>9, <3>2, <3>3
    <2>3. ASSUME Intact', NEW v \in Users, Live(v)' PROVE Settled(v)'
      <3>1. v # x /\ Live(v) /\ Intact
        BY <1>5, <1>8, <2>3 DEF Intact, Reliable
      <3>2. ~Behind(req[s], v)
        BY <1>1, <1>3, <3>1 DEF Behind
      <3>3. Settled(v)
        BY <3>1, <3>2 DEF Inv, Index, OneAtATime
      <3>4. \A key \in Permanent : key \in Keys
        BY DEF Permanent, Keys
      <3>5. \A key \in Permanent : idx'[key].user = v <=> idx[key].user = v
        BY <1>9, <2>1, <3>1, <3>4 DEF Users
      <3> QED BY <1>7, <3>1, <3>3, <3>5 DEF Settled
    <2> QED BY <2>2, <2>3 DEF Index
  <1>14. Knows(q)'
    <2>1. CASE then = "idle"
      BY <1>4, <2>1, Answered
    <2>2. CASE then # "idle"
      <3>1. /\ q.pc = "finupdate" /\ DOMAIN q = DOMAIN Idle /\ q.cont = req[s].cont /\ q.k = req[s].k
            /\ q.op = req[s].op /\ q.e = req[s].e /\ q.x = req[s].x /\ q.keep = req[s].keep
            /\ q.id = req[s].id /\ q.link = req[s].link /\ q.doc = d /\ q.sd = req[s].sd
        BY <1>2, <1>3, <1>4, <2>2 DEF Fields, ++, Idle
      <3>2. Fields(q)'
        BY <1>2, <1>3, <3>1 DEF Fields
      <3>3. d.id \in Users \ {x} /\ Current(d)'
        BY <1>3, <1>7, <1>8 DEF Current
      <3>4. req[s].keep.bio = d.bio /\ req[s].keep.provider = d.provider
        BY <1>2, <1>3, <2>2 DEF Knows, Documents
      <3>5. Documents(q)'
        BY <1>3, <3>1, <3>3, <3>4 DEF Documents
      <3>6. Migrating(q)'
        BY <1>3, <1>7, <3>1, <3>3 DEF Migrating, BothVerified
      <3>7. Lookups(q)' /\ Verifying(q)'
        BY <3>1 DEF Lookups, Verifying
      <3> QED BY <1>3, <1>5, <3>1, <3>2, <3>5, <3>6, <3>7 DEF Knows, Inserting, Generating, Reliable
    <2> QED BY <2>1, <2>2
  <1>15. Spaces /\ KeepsBio
    BY <1>5, <1>7 DEF Spaces, KeepsBio
  <1>16. ASSUME Reliable PROVE Ownership!Next
    <2>1. /\ d.id \in Users \ {x} /\ Live(d.id) /\ Live(x) /\ x < nextId
          /\ Consistent(users[d.id]) /\ users[d.id].id = d.id /\ users[x].email = req[s].e
      <3>1. d.id \in Users /\ Live(d.id) /\ Live(x) /\ users[x].email = req[s].e
        BY <1>3, <1>16 DEF Current
      <3>2. Consistent(users[x]) /\ users[x].id = x /\ Consistent(users[d.id]) /\ users[d.id].id = d.id
        BY <1>3, <3>1 DEF Inv, Rows
      <3> QED BY <1>3, <3>1, <3>2 DEF Consistent
    <2>2. Used("current", d.id, users[d.id].email) /\ Used("new", d.id, users[x].email)
      BY <1>3, <2>1 DEF Consistent, BothVerified
    <2>3. owner[d.id] = users[d.id].email /\ owner[x] = users[x].email
      BY <1>3, <2>1 DEF owner
    <2>4. <<d.id, "current", owner[d.id]>> \in proved /\ <<d.id, "new", owner[x]>> \in proved
      BY <2>2, <2>3 DEF Used, proved
    <2>5. owner' = [owner EXCEPT ![x] = "gone"]
      BY <1>3, <1>5, <1>7, <1>8, <2>1 DEF owner
    <2>6. proved' = proved
      BY <1>5 DEF proved
    <2>7. Ownership!Close(x)
      BY <2>1, <2>4, <2>5, <2>6 DEF Ownership!Close, Ownership!Entitled, owner, proved
    <2> QED BY <1>3, <2>7 DEF Ownership!Next
  <1> QED BY <1>6, <1>10, <1>11, <1>12, <1>13, <1>14, <1>15, <1>16 DEF Inv, Good

\* Signing in writes the row again, or answers.
LEMMA OAuthStrategyGood ==
    ASSUME Inv, OneAtATime, NEW s \in Slots, OAuthStrategy(s) PROVE Good
  <1>1. CASE Answer(s) /\ UNCHANGED <<store, now, health, movedAt>>
    <2>1. Reads /\ req[s].pc = "strategy"
      BY <1>1 DEF OAuthStrategy, Reads
    <2>2. InStep(req[s])
      BY <2>1 DEF InStep, Behind
    <2> QED BY <1>1, <2>1, <2>2, Answers
  <1>2. CASE SaveAndSync(s, [migrationHistory |-> req[s].doc.migrationHistory], "idle", "idle")
    BY <1>2, OAuthStrategySave
  <1> QED BY <1>1, <1>2 DEF OAuthStrategy

------------------------------------------------------------------------------
(* The start *)

\* The accounts of Seed, their index and their links are right.
LEMMA InitGood ==
    ASSUME Init PROVE Inv
  <1>1. \A u \in Users :
            /\ u <= Len(Seed) => u \in DOMAIN Seed /\ Seed[u] \in Row
            /\ users[u] = IF u <= Len(Seed) THEN Seed[u] ELSE NoRow
    <2>1. Seed \in Seq(Row) /\ Len(Seed) \in Nat /\ DOMAIN Seed = 1..Len(Seed)
      BY SeedAssumption
    <2> QED BY <2>1, StoreAssumption DEF Init, Users
  <1>2. /\ nextId = Len(Seed) + 1 /\ Len(Seed) \in Nat /\ Len(Seed) <= MaxUsers
        /\ DOMAIN Seed = 1..Len(Seed) /\ DOMAIN Seed \subseteq Users
        /\ now = 1 /\ up = TRUE /\ links = {} /\ gen = 0 /\ crashes = 0 /\ faults = 0
        /\ broken = FALSE
    <2>1. Seed \in Seq(Row) /\ Len(Seed) \in Nat /\ DOMAIN Seed = 1..Len(Seed)
      BY SeedAssumption
    <2> QED BY <2>1, StoreAssumption DEF Init, Users
  <1>3. users \in [Users -> Row]
    <2>1. \A u \in Users : users[u] \in Row
      BY <1>1, NoRowIsRow
    <2> QED BY <2>1 DEF Init
  <1>4. \A u \in Users : (Live(u) <=> u <= Len(Seed)) /\ (~Live(u) => users[u] = NoRow)
    <2>1. \A u \in DOMAIN Seed : Seed[u].email # None
      BY SeedAssumption
    <2>2. NoRow.email = None
      BY DEF NoRow
    <2> QED BY <1>1, <2>1, <2>2, StoreAssumption DEF Live, Users
  <1>5. \A u \in Users : Live(u) => u \in DOMAIN Seed /\ users[u] = Seed[u] /\ Seed[u] \in Row
    BY <1>1, <1>4
  <1>6. \A u \in Users : movedAt[u] = users[u].lastMigrationDate /\ movedAt[u] \in 0..1
    <2>1. \A u \in DOMAIN Seed : Seed[u].lastMigrationDate \in 0..1
      BY SeedAssumption
    <2>2. NoRow.lastMigrationDate = 0 /\ 0 \in 0..1
      BY DEF NoRow
    <2>3. \A u \in Users : movedAt[u] = users[u].lastMigrationDate
      BY DEF Init
    <2>4. \A u \in Users : users[u].lastMigrationDate \in 0..1
      BY <1>4, <1>5, <2>1, <2>2
    <2> QED BY <2>3, <2>4
  <1>7. opened \subseteq Link /\ \A l \in opened : l.secret = 0
    <2> SUFFICES ASSUME NEW l \in opened PROVE l \in Link /\ l.secret = 0
      OBVIOUS
    <2>1. PICK u \in DOMAIN Seed :
              \/ l = [kind |-> "verify", secret |-> 0, u |-> u, to |-> Seed[u].email]
              \/ l = [kind |-> "current", secret |-> 0, u |-> u, to |-> Seed[u].email]
              \/ /\ l = [kind |-> "new", secret |-> 0, u |-> u, to |-> Seed[u].newEmailPending]
                 /\ Seed[u].newEmailVerified
      BY DEF Init
    <2>2. Seed[u] \in Row
      BY <1>1, <1>2, <2>1
    <2>3. Seed[u].email # None /\ (Seed[u].newEmailVerified => Seed[u].newEmailPending # None)
      BY <2>1, SeedAssumption
    <2>4. Seed[u].email \in Emails /\ (Seed[u].newEmailVerified => Seed[u].newEmailPending \in Emails)
      BY <2>2, <2>3, RowFields
    <2>5. u \in Users /\ 0 \in 0..(MaxTokens + 1)
      BY <1>2, <2>1, StoreAssumption
    <2> QED BY <2>1, <2>4, <2>5 DEF Link
  <1>8. \A u \in DOMAIN Seed :
            /\ Seed[u].isEmailVerified => Proved(Seed[u].email)
            /\ Seed[u].currentEmailVerified => Used("current", u, Seed[u].email)
            /\ Seed[u].newEmailVerified => Used("new", u, Seed[u].newEmailPending)
    <2> TAKE u \in DOMAIN Seed
    <2>1. ASSUME Seed[u].isEmailVerified PROVE Proved(Seed[u].email)
      <3>1. [kind |-> "verify", secret |-> 0, u |-> u, to |-> Seed[u].email] \in opened
        BY <2>1 DEF Init
      <3> QED BY <3>1 DEF Proved
    <2>2. ASSUME Seed[u].currentEmailVerified PROVE Used("current", u, Seed[u].email)
      <3>1. [kind |-> "current", secret |-> 0, u |-> u, to |-> Seed[u].email] \in opened
        BY <2>2 DEF Init
      <3> QED BY <3>1 DEF Used
    <2>3. ASSUME Seed[u].newEmailVerified PROVE Used("new", u, Seed[u].newEmailPending)
      <3>1. [kind |-> "new", secret |-> 0, u |-> u, to |-> Seed[u].newEmailPending] \in opened
        BY <2>3 DEF Init
      <3> QED BY <3>1 DEF Used
    <2> QED BY <2>1, <2>2, <2>3
  <1>9. Rows
    <2>1. ASSUME NEW u \in Users, Live(u) PROVE users[u].id = u /\ Consistent(users[u])
      <3>1. PICK r : r = Seed[u]
        OBVIOUS
      <3>2. users[u] = r /\ u \in DOMAIN Seed /\ movedAt[u] = r.lastMigrationDate
        BY <1>5, <1>6, <2>1, <3>1
      <3>3. /\ r.id = u /\ r.email \notin {None, r.previousEmail, r.newEmailPending}
            /\ r.previousEmail # None \/ r.newEmailPending # None => r.isEmailVerified
            /\ r.currentEmailVerified \/ r.newEmailVerified \/ r.migrationToken # 0
                   => r.newEmailPending # None
            /\ r.isEmailVerified /\ r.provider = Local => r.emailVerificationToken = 0
            /\ {r.emailVerificationToken, r.migrationToken} \subseteq {0, MaxTokens + 1}
            /\ r.lastMigrationDate \in 0..1
            /\ r.newEmailPending # None => r.lastMigrationDate = 0
        BY <3>1, <3>2, SeedAssumption
      <3>4. u < nextId /\ r.lastMigrationDate <= now
        BY <1>2, <1>4, <2>1, <3>3 DEF Users
      <3>5. {0, MaxTokens + 1} \subseteq {0} \cup Secrets
        BY DEF Secrets
      <3>6. /\ r.isEmailVerified => Proved(r.email)
            /\ r.currentEmailVerified => Used("current", r.id, r.email)
            /\ r.newEmailVerified => Used("new", r.id, r.newEmailPending)
        BY <1>8, <3>1, <3>2, <3>3
      <3>7. r.lastMigrationDate <= r.lastMigrationDate
        BY <3>3
      <3> QED BY <3>2, <3>3, <3>4, <3>5, <3>6, <3>7 DEF Consistent
    <2>2. ASSUME NEW u \in Users, u >= nextId PROVE ~Live(u) /\ movedAt[u] = 0
      <3>1. ~Live(u) /\ users[u] = NoRow
        BY <1>2, <1>4, <2>2 DEF Users
      <3> QED BY <1>6, <3>1 DEF NoRow
    <2>3. ASSUME NEW u \in Users, NEW v \in Users, Live(u), Live(v), u # v
          PROVE  Apart(users[u], users[v])
      <3>1. u \in DOMAIN Seed /\ v \in DOMAIN Seed /\ users[u] = Seed[u] /\ users[v] = Seed[v]
        BY <1>5, <2>3
      <3>2. /\ Seed[u].email # Seed[v].email
            /\ Seed[u].provider = Seed[v].provider => Seed[u].provider = Local
            /\ \A f \in {"emailVerificationToken", "migrationToken"} :
                  Seed[u][f] = Seed[v][f] => Seed[u][f] = 0
        BY <2>3, <3>1, SeedAssumption
      <3> QED BY <3>1, <3>2 DEF Apart
    <2> QED BY <1>4, <2>1, <2>2, <2>3 DEF Rows
  <1>10. Mails
    BY <1>2, <1>7 DEF Mails
  <1>11. /\ idx \in [Keys -> [user : 0..MaxUsers, exp : Ends]]
         /\ Index
    <2>1. PICK ix : ix = [key \in Keys |-> NoEntry]
      OBVIOUS
    <2>2. NoEntry \in [user : 0..MaxUsers, exp : Ends] /\ NoEntry.user = 0 /\ NoEntry.exp = 0
      BY StoreAssumption DEF NoEntry, Ends
    <2>3. /\ ix \in [Keys -> [user : 0..MaxUsers, exp : Ends]]
          /\ \A key \in Keys : ix[key] = NoEntry
      BY <2>1, <2>2
    <2>4. \A key \in Permanent : key \in Keys
      BY DEF Permanent, Keys
    <2>5. idx = Backfill(ix, MaxUsers) /\ MaxUsers \in 0..MaxUsers
      BY <2>1, StoreAssumption DEF Init
    <2>6. \A key \in Keys :
               /\ ix[key].user = 0 => ix[key] = NoEntry
               /\ ix[key].user # 0 => Live(ix[key].user)
               /\ key \in Permanent => ix[key].exp = 0
               /\ ix[key].user # 0 => Fits(users[ix[key].user], key)
      BY <2>2, <2>3
    <2>7. /\ idx \in [Keys -> [user : 0..MaxUsers, exp : Ends]]
          /\ \A key \in Keys :
               /\ idx[key].user = 0 => idx[key] = NoEntry
               /\ idx[key].user # 0 => Live(idx[key].user)
               /\ key \in Permanent => idx[key].exp = 0
               /\ idx[key].user # 0 => Fits(users[idx[key].user], key)
          /\ \A u \in Users, key \in Permanent : Live(u) => (idx[key].user = u <=> Wants(users[u], key))
      BY <1>3, <1>9, <2>3, <2>5, <2>6, Backfilled
    <2> QED BY <2>7 DEF Index, Settled
  <1>12. Types
    <2>1. movedAt \in [Users -> 0..MaxNow]
      <3>1. MaxNow \in Nat \ {0}
        BY StoreAssumption
      <3>2. \A u \in Users : movedAt[u] \in 0..MaxNow
        BY <1>6, <3>1
      <3>3. movedAt = [u \in Users |-> users[u].lastMigrationDate]
        BY DEF Init
      <3> QED BY <3>2, <3>3
    <2>2. DOMAIN req = Slots
      BY DEF Init
    <2>3. /\ nextId \in 1..(MaxUsers + 1) /\ gen \in 0..MaxTokens /\ now \in 1..MaxNow
          /\ crashes \in 0..MaxCrashes /\ faults \in 0..MaxFaults
      <3>1. /\ MaxUsers \in Nat /\ MaxTokens \in Nat /\ MaxCrashes \in Nat /\ MaxFaults \in Nat
            /\ MaxNow \in Nat \ {0}
        BY StoreAssumption
      <3> QED BY <1>2, <3>1
    <2>4. up \in BOOLEAN /\ broken \in BOOLEAN /\ links \subseteq Link
      BY <1>2
    <2> QED BY <1>3, <1>7, <1>11, <2>1, <2>2, <2>3, <2>4 DEF Types
  <1>13. \A s \in Slots : Knows(req[s])
    <2>1. \A s \in Slots : req[s] = Idle
      BY DEF Init
    <2> QED BY <2>1, IdleKnows
  <1> QED BY <1>9, <1>10, <1>11, <1>12, <1>13 DEF Inv

------------------------------------------------------------------------------
(* The steps *)

\* A step that changes nothing.
LEMMA StutterGood ==
    ASSUME Inv, UNCHANGED vars PROVE Good
  <1>1. UNCHANGED <<store, req, post, now, health, movedAt>>
    BY DEF vars
  <1>2. Types' /\ Rows' /\ Mails' /\ Spaces /\ KeepsBio /\ owner' = owner /\ proved' = proved
    BY <1>1, Untouched DEF Inv, Types
  <1>3. \A s \in Slots : Knows(req[s])'
    <2> TAKE s \in Slots
    <2>1. PICK r : r = req[s]
      OBVIOUS
    <2>2. Knows(r)'
      BY <1>1, <2>1, Untouched DEF Inv
    <2> QED BY <1>1, <2>1, <2>2
  <1>4. Index'
    <2>1. UNCHANGED <<users, idx, req, up, broken>>
      BY <1>1 DEF store, health
    <2> QED BY <2>1 DEF Inv, Index, Live, Settled, Wants, Intact, Reliable
  <1> QED BY <1>2, <1>3, <1>4 DEF Inv, Good

\* Every step of registration, verification, OAuth sign-in and profile,
LEMMA AccountStepGood ==
    ASSUME Inv, OneAtATime, NEW s \in Slots, AccountStep(s) PROVE Good
  BY ResolveGood, SyncSelectGood, SyncWriteGood, SyncPruneGood, RegisterHolderGood,
     RegisterLookupGood, RegisterTakenGood, RegisterSaveGood, RegisterMailGood,
     ResendVerificationFindGood, ResendVerificationSaveGood, VerifyEmailFindGood,
     VerifyEmailSaveGood, OAuthByIdGood, OAuthUserGood, OAuthPrimaryGood,
     OAuthPrimaryUserGood, OAuthTakeOverGood, OAuthStrategyGood, OAuthCreateGood,
     UpdateBioFindGood, UpdateBioSaveGood
  DEF AccountStep

\* every start of one,
LEMMA AccountStartGood ==
    ASSUME Inv, OneAtATime, NEW s \in Slots, AccountStart(s) PROVE Good
  BY RegisterGood, ResendVerificationGood, VerifyEmailGood, OAuthGood, UpdateBioGood
  DEF AccountStart

------------------------------------------------------------------------------
(* What a step does to the histories, the pending addresses and the index *)

\* where a request is going to write back the history it has loaded
Remembering == {"create", "reverifysave", "saveverify", "takeover", "strategy", "oauthprimary",
                "oauthprimaryuser", "savebio", "initsave", "resendsave", "newlookup", "newexists",
                "placeholder", "saveverified", "finprofile", "finsave", "savebio2", "loginsave",
                "cleanup"}

\* a request carries the history that the row has
Recalls(r) ==
    /\ Stage(r) \in Remembering /\ r.doc.id # 0 =>
           r.doc.migrationHistory = users[r.doc.id].migrationHistory
    /\ r.pc = "savehistory" => r.keep.migrationHistory = users[r.doc.id].migrationHistory
    /\ r.pc = "finprofile" => users[r.doc.id].newEmailPending = None /\ users[r.doc.id].isEmailVerified

\* no change of a row is half-way to the index, or to its history
Cool(r) == r.pc \notin {"sync", "upsert", "finprofile", "findelete", "recdelete",
                        "readhistory", "savehistory"}

\* a step of request s that writes neither a row nor the index
Calm(s) == /\ UNCHANGED <<store, now, health>>
           /\ Cool(req[s]) /\ Cool(req'[s]) /\ Recalls(req'[s])
           /\ req'[s].pc = "saveverify" => VerifyEmailFind(s)

\* A request that has ended owes nothing to a history.
LEMMA IdleRecalls == Recalls(Idle) /\ Cool(Idle) /\ Idle.pc = "idle"
  BY DEF Recalls, Cool, Idle, Remembering, NoRow

\* Where a request goes.
LEMMA Goes ==
    ASSUME Inv, NEW s \in Slots
    PROVE  /\ DOMAIN req[s] = DOMAIN Idle
           /\ Answer(s) => req'[s] = Idle
           /\ \A w : Goto(s, w) => req'[s] = w ++ req[s]
           /\ \A op, w : Begin(s, op, w) =>
                  req'[s] = w ++ [Idle EXCEPT !.op = op] /\ req[s].pc = "idle"
  <1>1. DOMAIN req = Slots /\ DOMAIN req[s] = DOMAIN Idle
    BY DEF Inv, Types, Knows, Fields
  <1> HIDE DEF ++
  <1> QED BY <1>1 DEF Answer, Goto, Begin

\* A document that was loaded has the history of its row.
LEMMA LoadedHistory ==
    ASSUME Inv, NEW x \in 0..MaxUsers, NEW d, d = Load(x), d.id # 0
    PROVE  Live(x) /\ d.id = x /\ d.migrationHistory = users[d.id].migrationHistory
  <1>1. Live(x)
    BY Loaded DEF NoRow
  <1>2. x \in Users /\ users[x] \in Row
    BY <1>1, Loaded DEF Inv, Types
  <1>3. DOMAIN users[x] = DOMAIN NoRow
    BY <1>2, RowFields
  <1> QED BY <1>1, <1>2, <1>3, Loaded DEF NoRow

\* The steps of a request that only read are calm: the lookups of register,
\* initiateMigration, verifyNewEmail, finalizeMigrationInternal and login,
LEMMA ReadsCalm ==
    ASSUME Inv, NEW s \in Slots, Recalls(req[s])
    PROVE  /\ RegisterHolder(s) => Calm(s)
           /\ RegisterLookup(s) => Calm(s)
           /\ OAuthPrimary(s) => Calm(s)
           /\ InitiateLookup(s) => Calm(s)
           /\ InitiateExists(s) => Calm(s)
           /\ VerifyNewLookup(s) => Calm(s)
           /\ VerifyNewExists(s) => Calm(s)
           /\ FinaliseLookup(s) => Calm(s)
           /\ FinaliseExists(s) => Calm(s)
           /\ RecoverLookup(s) => Calm(s)
           /\ RecoverFind(s) => Calm(s)
           /\ RegisterTaken(s) => Calm(s)
           /\ ResendVerificationFind(s) => Calm(s)
           /\ InitiateReload(s) => Calm(s)
           /\ VerifyFinalise(s) => Calm(s)
           /\ FinaliseRead(s) => Calm(s)
           /\ FinaliseReload(s) => Calm(s)
           /\ FinaliseCheckBio(s) => Calm(s)
           /\ LoginUser(s) => Calm(s)
  <1>1. ASSUME RegisterHolder(s) PROVE Calm(s)
    <2>1. req[s].pc = "holder" /\ UNCHANGED <<store, now, health>>
      BY <1>1 DEF RegisterHolder, Reads
    <2>2. PICK q : q = [pc |-> "lookup"] ++ req[s]
      OBVIOUS
    <2>3. q.pc = "lookup" /\ q.doc = req[s].doc
      BY <2>2, Goes DEF ++, Idle
    <2>4. req'[s] \in {q, Idle}
      BY <1>1, <2>2, Goes DEF RegisterHolder
    <2> QED BY <2>1, <2>3, <2>4, IdleRecalls DEF Calm, Cool, Recalls, Remembering
  <1>2. ASSUME RegisterLookup(s) PROVE Calm(s)
    <2>1. req[s].pc = "lookup" /\ UNCHANGED <<store, now, health>>
      BY <1>2 DEF RegisterLookup, Reads
    <2>2. PICK q : q = [pc |-> "taken", x |-> findUserIdByPrimaryEmail(req[s].e)] ++ req[s]
      OBVIOUS
    <2>3. q.pc = "taken" /\ q.doc = req[s].doc
      BY <2>2, Goes DEF ++, Idle
    <2>4. req'[s] \in {q, Idle}
      BY <1>2, <2>2, Goes DEF RegisterLookup
    <2> QED BY <2>1, <2>3, <2>4, IdleRecalls DEF Calm, Cool, Recalls, Remembering
  <1>3. ASSUME OAuthPrimary(s) PROVE Calm(s)
    <2>1. req[s].pc = "oauthprimary" /\ UNCHANGED <<store, now, health>>
      BY <1>3 DEF OAuthPrimary, Reads
    <2>2. PICK q : q = [pc |-> "oauthprimaryuser", x |-> findUserIdByPrimaryEmail(req[s].e)] ++ req[s]
      OBVIOUS
    <2>3. q.pc = "oauthprimaryuser" /\ q.doc = req[s].doc
      BY <2>2, Goes DEF ++, Idle
    <2>4. req'[s] \in {q, Idle}
      BY <1>3, <2>2, Goes DEF OAuthPrimary
    <2> QED BY <2>1, <2>3, <2>4, IdleRecalls DEF Calm, Cool, Recalls, Remembering
  <1>4. ASSUME InitiateLookup(s) PROVE Calm(s)
    <2>1. req[s].pc = "initlookup" /\ UNCHANGED <<store, now, health>>
      BY <1>4 DEF InitiateLookup, Reads
    <2>2. PICK q : q = [pc |-> "initexists", x |-> findUserIdByPrimaryEmail(req[s].e)] ++ req[s]
      OBVIOUS
    <2>3. q.pc = "initexists" /\ q.doc = req[s].doc
      BY <2>2, Goes DEF ++, Idle
    <2>4. req'[s] \in {q, Idle}
      BY <1>4, <2>2, Goes DEF InitiateLookup
    <2> QED BY <2>1, <2>3, <2>4, IdleRecalls DEF Calm, Cool, Recalls, Remembering
  <1>5. ASSUME InitiateExists(s) PROVE Calm(s)
    <2>1. req[s].pc = "initexists" /\ UNCHANGED <<store, now, health>>
      BY <1>5 DEF InitiateExists, Reads
    <2>2. PICK q : q = [pc |-> "initreload"] ++ req[s]
      OBVIOUS
    <2>3. q.pc = "initreload" /\ q.doc = req[s].doc
      BY <2>2, Goes DEF ++, Idle
    <2>4. req'[s] \in {q, Idle}
      BY <1>5, <2>2, Goes DEF InitiateExists
    <2> QED BY <2>1, <2>3, <2>4, IdleRecalls DEF Calm, Cool, Recalls, Remembering
  <1>6. ASSUME VerifyNewLookup(s) PROVE Calm(s)
    <2>1. req[s].pc = "newlookup" /\ UNCHANGED <<store, now, health>>
      BY <1>6 DEF VerifyNewLookup, Reads
    <2>2. PICK q : q = [pc |-> "newexists", x |-> findUserIdByPrimaryEmail(req[s].e)] ++ req[s]
      OBVIOUS
    <2>3. q.pc = "newexists" /\ q.doc = req[s].doc
      BY <2>2, Goes DEF ++, Idle
    <2>4. req'[s] \in {q, Idle}
      BY <1>6, <2>2, Goes DEF VerifyNewLookup
    <2> QED BY <2>1, <2>3, <2>4, IdleRecalls DEF Calm, Cool, Recalls, Remembering
  <1>7. ASSUME VerifyNewExists(s) PROVE Calm(s)
    <2>1. req[s].pc = "newexists" /\ UNCHANGED <<store, now, health>>
      BY <1>7 DEF VerifyNewExists, Reads
    <2>2. PICK q : q = [pc |-> IF Live(req[s].x) THEN "saveverified" ELSE "placeholder"] ++ req[s]
      OBVIOUS
    <2>3. q.pc \in {"saveverified", "placeholder"} /\ q.doc = req[s].doc
      BY <2>2, Goes DEF ++, Idle
    <2>4. req'[s] \in {q, Idle}
      BY <1>7, <2>2, Goes DEF VerifyNewExists
    <2> QED BY <2>1, <2>3, <2>4, IdleRecalls DEF Calm, Cool, Recalls, Remembering
  <1>8. ASSUME FinaliseLookup(s) PROVE Calm(s)
    <2>1. req[s].pc = "finlookup" /\ UNCHANGED <<store, now, health>>
      BY <1>8 DEF FinaliseLookup, Reads
    <2>2. PICK q : q = [pc |-> "finexists", x |-> findUserIdByPrimaryEmail(req[s].e)] ++ req[s]
      OBVIOUS
    <2>3. q.pc = "finexists" /\ q.doc = req[s].doc
      BY <2>2, Goes DEF ++, Idle
    <2>4. req'[s] \in {q, Idle}
      BY <1>8, <2>2, Goes DEF FinaliseLookup
    <2> QED BY <2>1, <2>3, <2>4, IdleRecalls DEF Calm, Cool, Recalls, Remembering
  <1>9. ASSUME FinaliseExists(s) PROVE Calm(s)
    <2>1. req[s].pc = "finexists" /\ UNCHANGED <<store, now, health>>
      BY <1>9 DEF FinaliseExists, Reads
    <2>2. PICK q : q = [pc |-> IF ~Live(req[s].x) THEN "finreload"
                       ELSE IF req[s].x # req[s].doc.id THEN "finrelease" ELSE "finupdate"] ++ req[s]
      OBVIOUS
    <2>3. q.pc \in {"finreload", "finrelease", "finupdate"} /\ q.doc = req[s].doc
      BY <2>2, Goes DEF ++, Idle
    <2>4. req'[s] \in {q, Idle}
      BY <1>9, <2>2, Goes DEF FinaliseExists
    <2> QED BY <2>1, <2>3, <2>4, IdleRecalls DEF Calm, Cool, Recalls, Remembering
  <1>10. ASSUME RecoverLookup(s) PROVE Calm(s)
    <2>1. req[s].pc = "duplicate" /\ UNCHANGED <<store, now, health>>
      BY <1>10 DEF RecoverLookup, Reads
    <2>2. PICK q : q = [pc |-> "recover", x |-> findUserIdByPrimaryEmail(req[s].e)] ++ req[s]
      OBVIOUS
    <2>3. q.pc = "recover" /\ q.doc = req[s].doc
      BY <2>2, Goes DEF ++, Idle
    <2>4. req'[s] \in {q, Idle}
      BY <1>10, <2>2, Goes DEF RecoverLookup
    <2> QED BY <2>1, <2>3, <2>4, IdleRecalls DEF Calm, Cool, Recalls, Remembering
  <1>11. ASSUME RecoverFind(s) PROVE Calm(s)
    <2>1. req[s].pc = "recover" /\ UNCHANGED <<store, now, health>>
      BY <1>11 DEF RecoverFind, Reads
    <2>2. PICK q : q = [pc |-> "recrelease"] ++ req[s]
      OBVIOUS
    <2>3. q.pc = "recrelease" /\ q.doc = req[s].doc
      BY <2>2, Goes DEF ++, Idle
    <2>4. req'[s] \in {q, Idle}
      BY <1>11, <2>2, Goes DEF RecoverFind
    <2> QED BY <2>1, <2>3, <2>4, IdleRecalls DEF Calm, Cool, Recalls, Remembering
  <1>12. ASSUME RegisterTaken(s) PROVE Calm(s)
    <2>1. req[s].pc = "taken" /\ UNCHANGED <<store, now, health>>
      BY <1>12 DEF RegisterTaken, Reads
    <2>2. PICK d : d = Load(req[s].x)
      OBVIOUS
    <2>3. d.id # 0 => d.migrationHistory = users[d.id].migrationHistory
      BY <2>2, LoadedHistory, Facts, RowFields DEF Fields
    <2>4. PICK q : q = [pc |-> "create", doc |-> d] ++ req[s]
      OBVIOUS
    <2>5. q.pc = "create" /\ q.doc = d
      BY <2>4, Goes DEF ++, Idle
    <2>6. req'[s] \in {q, Idle}
      BY <1>12, <2>2, <2>4, Goes DEF RegisterTaken
    <2> QED BY <2>1, <2>3, <2>5, <2>6, IdleRecalls DEF Calm, Cool, Recalls, Remembering
  <1>13. ASSUME ResendVerificationFind(s) PROVE Calm(s)
    <2>1. req[s].pc = "reverify" /\ UNCHANGED <<store, now, health>>
      BY <1>13 DEF ResendVerificationFind, Reads
    <2>2. PICK d : d = Load(req[s].x)
      OBVIOUS
    <2>3. d.id # 0 => d.migrationHistory = users[d.id].migrationHistory
      BY <2>2, LoadedHistory, Facts, RowFields DEF Fields
    <2>4. PICK q : q = [pc |-> "reverifysave", doc |-> d] ++ req[s]
      OBVIOUS
    <2>5. q.pc = "reverifysave" /\ q.doc = d
      BY <2>4, Goes DEF ++, Idle
    <2>6. req'[s] \in {q, Idle}
      BY <1>13, <2>2, <2>4, Goes DEF ResendVerificationFind
    <2> QED BY <2>1, <2>3, <2>5, <2>6, IdleRecalls DEF Calm, Cool, Recalls, Remembering
  <1>14. ASSUME InitiateReload(s) PROVE Calm(s)
    <2>1. req[s].pc = "initreload" /\ UNCHANGED <<store, now, health>>
      BY <1>14 DEF InitiateReload, Reads
    <2>2. PICK d : d = Load(req[s].doc.id)
      OBVIOUS
    <2>3. d.id # 0 => d.migrationHistory = users[d.id].migrationHistory
      BY <2>2, LoadedHistory, Facts, RowFields DEF Fields
    <2>4. PICK q : q = [pc |-> "initsave", doc |-> d] ++ req[s]
      OBVIOUS
    <2>5. q.pc = "initsave" /\ q.doc = d
      BY <2>4, Goes DEF ++, Idle
    <2>6. req'[s] \in {q, Idle}
      BY <1>14, <2>2, <2>4, Goes DEF InitiateReload
    <2> QED BY <2>1, <2>3, <2>5, <2>6, IdleRecalls DEF Calm, Cool, Recalls, Remembering
  <1>15. ASSUME VerifyFinalise(s) PROVE Calm(s)
    <2>1. req[s].pc = "bothverified" /\ UNCHANGED <<store, now, health>>
      BY <1>15 DEF VerifyFinalise, Reads
    <2>2. PICK d : d = Load(req[s].doc.id)
      OBVIOUS
    <2>3. d.id # 0 => d.migrationHistory = users[d.id].migrationHistory
      BY <2>2, LoadedHistory, Facts, RowFields DEF Fields
    <2>4. PICK q : q = [pc |-> "finalise", doc |-> d] ++ req[s]
      OBVIOUS
    <2>5. q.pc = "finalise" /\ q.doc = d
      BY <2>4, Goes DEF ++, Idle
    <2>6. req'[s] \in {q, Idle}
      BY <1>15, <2>2, <2>4, Goes DEF VerifyFinalise
    <2> QED BY <2>1, <2>3, <2>5, <2>6, IdleRecalls DEF Calm, Cool, Recalls, Remembering
  <1>16. ASSUME FinaliseRead(s) PROVE Calm(s)
    <2>1. req[s].pc = "finalise" /\ UNCHANGED <<store, now, health>>
      BY <1>16 DEF FinaliseRead, Reads
    <2>2. PICK d : d = Load(req[s].doc.id)
      OBVIOUS
    <2>3. d.id # 0 => d.migrationHistory = users[d.id].migrationHistory
      BY <2>2, LoadedHistory, Facts, RowFields DEF Fields
    <2>4. PICK q : q = [pc |-> "finlookup", doc |-> d, keep |-> d, e |-> d.newEmailPending] ++ req[s]
      OBVIOUS
    <2>5. q.pc = "finlookup" /\ q.doc = d
      BY <2>4, Goes DEF ++, Idle
    <2>6. req'[s] \in {q, Idle}
      BY <1>16, <2>2, <2>4, Goes DEF FinaliseRead
    <2> QED BY <2>1, <2>3, <2>5, <2>6, IdleRecalls DEF Calm, Cool, Recalls, Remembering
  <1>17. ASSUME FinaliseReload(s) PROVE Calm(s)
    <2>1. req[s].pc = "finreload" /\ UNCHANGED <<store, now, health>>
      BY <1>17 DEF FinaliseReload, Reads
    <2>2. PICK d : d = Load(req[s].doc.id)
      OBVIOUS
    <2>3. d.id # 0 => d.migrationHistory = users[d.id].migrationHistory
      BY <2>2, LoadedHistory, Facts, RowFields DEF Fields
    <2>4. PICK q : q = [pc |-> "finsave", doc |-> d, keep |-> d] ++ req[s]
      OBVIOUS
    <2>5. q.pc = "finsave" /\ q.doc = d
      BY <2>4, Goes DEF ++, Idle
    <2>6. req'[s] \in {q, Idle}
      BY <1>17, <2>2, <2>4, Goes DEF FinaliseReload
    <2> QED BY <2>1, <2>3, <2>5, <2>6, IdleRecalls DEF Calm, Cool, Recalls, Remembering
  <1>18. ASSUME FinaliseCheckBio(s) PROVE Calm(s)
    <2>1. req[s].pc = "checkbio" /\ UNCHANGED <<store, now, health>>
      BY <1>18 DEF FinaliseCheckBio, Reads
    <2>2. PICK d : d = Load(req[s].doc.id)
      OBVIOUS
    <2>3. d.id # 0 => d.migrationHistory = users[d.id].migrationHistory
      BY <2>2, LoadedHistory, Facts, RowFields DEF Fields
    <2>4. PICK q : q = [pc |-> "savebio2", doc |-> d] ++ req[s]
      OBVIOUS
    <2>5. q.pc = "savebio2" /\ q.doc = d
      BY <2>4, Goes DEF ++, Idle
    <2>6. req'[s] \in {q, Idle}
      BY <1>18, <2>2, <2>4, Goes DEF FinaliseCheckBio
    <2> QED BY <2>1, <2>3, <2>5, <2>6, IdleRecalls DEF Calm, Cool, Recalls, Remembering
  <1>19. ASSUME LoginUser(s) PROVE Calm(s)
    <2>1. req[s].pc = "loginuser" /\ UNCHANGED <<store, now, health>>
      BY <1>19 DEF LoginUser, Reads
    <2>2. PICK d : d = Load(req[s].x)
      OBVIOUS
    <2>3. d.id # 0 => d.migrationHistory = users[d.id].migrationHistory
      BY <2>2, LoadedHistory, Facts, RowFields DEF Fields
    <2>4. PICK q : q = [pc |-> "loginsave", doc |-> d] ++ req[s]
      OBVIOUS
    <2>5. q.pc = "loginsave" /\ q.doc = d
      BY <2>4, Goes DEF ++, Idle
    <2>6. req'[s] \in {q, Idle}
      BY <1>19, <2>2, <2>4, Goes DEF LoginUser
    <2> QED BY <2>1, <2>3, <2>5, <2>6, IdleRecalls DEF Calm, Cool, Recalls, Remembering
  <1> QED BY <1>1, <1>2, <1>3, <1>4, <1>5, <1>6, <1>7, <1>8, <1>9, <1>10, <1>11, <1>12, <1>13, <1>14, <1>15, <1>16, <1>17, <1>18, <1>19

\* those that find a user or a link, and those that mail,
LEMMA FindsCalm ==
    ASSUME Inv, NEW s \in Slots, Recalls(req[s])
    PROVE  /\ Resolve(s) => Calm(s)
           /\ OAuthById(s) => Calm(s)
           /\ OAuthUser(s) => Calm(s)
           /\ OAuthPrimaryUser(s) => Calm(s)
           /\ VerifyEmailFind(s) => Calm(s)
           /\ VerifyMigrationFind(s) => Calm(s)
           /\ UpdateBioFind(s) => Calm(s)
           /\ RegisterMail(s) => Calm(s)
           /\ MigrationMail(s) => Calm(s)
  <1> USE DEF health
  <1>1. ASSUME Resolve(s) PROVE Calm(s)
    <2>1. req[s].pc = "resolve" /\ UNCHANGED <<store, now, health>>
      BY <1>1 DEF Resolve, Reads
    <2>2. req[s].cont \in {"oauthuser", "loginuser"}
      BY <2>1, Facts DEF Fields
    <2>3. \E w : req'[s] = w ++ req[s] /\ \/ w = [k |-> req[s].k + 1]
                                          \/ \E x : w = [pc |-> req[s].cont, x |-> x]
      <3> HIDE DEF ++
      <3> QED BY <1>1, Goes DEF Resolve
    <2>4. req'[s].pc \in {"resolve", "oauthuser", "loginuser"}
      BY <2>1, <2>2, <2>3, Goes DEF ++, Idle
    <2> QED BY <2>1, <2>4 DEF Calm, Cool, Recalls, Remembering
  <1>2. ASSUME OAuthById(s) PROVE Calm(s)
    <2>1. req[s].pc = "oauthid" /\ UNCHANGED <<store, now, health>>
      BY <1>2 DEF OAuthById, Reads
    <2>2. \E w : req'[s] = w ++ req[s] /\ \/ w = [pc |-> "strategy", doc |-> Load(req[s].x)]
                                          \/ w = [pc |-> "resolve", k |-> 1, cont |-> "oauthuser"]
      <3> HIDE DEF ++
      <3> QED BY <1>2, Goes DEF OAuthById
    <2>3. \/ req'[s].pc = "strategy" /\ req'[s].doc = Load(req[s].x)
          \/ req'[s].pc = "resolve"
      BY <2>1, <2>2, Goes DEF ++, Idle
    <2> QED BY <2>1, <2>3, LoadedHistory, Facts DEF Fields, Calm, Cool, Recalls, Remembering
  <1>3. ASSUME OAuthUser(s) PROVE Calm(s)
    <2>1. req[s].pc = "oauthuser" /\ UNCHANGED <<store, now, health>>
      BY <1>3 DEF OAuthUser, Reads
    <2>2. PICK d : d = Load(req[s].x)
      OBVIOUS
    <2>3. \E pc \in {"oauthcreate", "strategy", "oauthprimary", "takeover"} :
             req'[s] = [doc |-> d, pc |-> pc] ++ req[s]
      <3> HIDE DEF ++
      <3> QED BY <1>3, <2>2, Goes DEF OAuthUser, TakeOverOrSignIn
    <2>4. req'[s].pc \in {"oauthcreate", "strategy", "oauthprimary", "takeover"} /\ req'[s].doc = d
      BY <2>3, Goes DEF ++, Idle
    <2> QED BY <2>1, <2>2, <2>4, LoadedHistory, Facts DEF Fields, Calm, Cool, Recalls, Remembering
  <1>4. ASSUME OAuthPrimaryUser(s) PROVE Calm(s)
    <2>1. req[s].pc = "oauthprimaryuser" /\ UNCHANGED <<store, now, health>>
      BY <1>4 DEF OAuthPrimaryUser, Reads
    <2>2. PICK d : d = IF Live(req[s].x) THEN Load(req[s].x) ELSE req[s].doc
      OBVIOUS
    <2>3. \E pc \in {"oauthcreate", "strategy", "takeover"} : req'[s] = [doc |-> d, pc |-> pc] ++ req[s]
      <3> HIDE DEF ++
      <3> QED BY <1>4, <2>2, Goes DEF OAuthPrimaryUser, TakeOverOrSignIn
    <2>4. req'[s].pc \in {"oauthcreate", "strategy", "takeover"} /\ req'[s].doc = d
      BY <2>3, Goes DEF ++, Idle
    <2>5. d.id # 0 => d.migrationHistory = users[d.id].migrationHistory
      BY <2>1, <2>2, LoadedHistory, Facts DEF Fields, Recalls, Remembering
    <2> QED BY <2>1, <2>4, <2>5 DEF Calm, Cool, Recalls, Remembering
  <1>5. ASSUME VerifyEmailFind(s) PROVE Calm(s)
    <2>1. req[s].pc = "findverify" /\ UNCHANGED <<store, now, health>>
      BY <1>5 DEF VerifyEmailFind, Reads
    <2>2. \/ req'[s] = Idle
          \/ \E u \in Users : Live(u) /\ req'[s] = [pc |-> "saveverify", doc |-> users[u]] ++ req[s]
      <3> HIDE DEF ++
      <3> QED BY <1>5, Goes DEF VerifyEmailFind
    <2>3. \/ req'[s] = Idle
          \/ req'[s].pc = "saveverify" /\ \E u \in Users : Live(u) /\ req'[s].doc = users[u]
      BY <2>2, Goes DEF ++, Idle
    <2> QED BY <1>5, <2>1, <2>3, IdleRecalls, Facts DEF Calm, Cool, Recalls, Remembering
  <1>6. ASSUME VerifyMigrationFind(s) PROVE Calm(s)
    <2>1. req[s].pc = "findmigration" /\ UNCHANGED <<store, now, health>>
      BY <1>6 DEF VerifyMigrationFind, Reads
    <2>2. \/ req'[s] = Idle
          \/ \E e : \E u \in Users, pc \in {"newlookup", "saveverified"} :
               req'[s] = [doc |-> Load(u), e |-> e, pc |-> pc] ++ req[s]
      <3> HIDE DEF ++
      <3> QED BY <1>6, Goes DEF VerifyMigrationFind
    <2>3. \/ req'[s] = Idle
          \/ req'[s].pc \in {"newlookup", "saveverified"} /\ \E u \in Users : req'[s].doc = Load(u)
      BY <2>2, Goes DEF ++, Idle
    <2> QED BY <2>1, <2>3, IdleRecalls, LoadedHistory DEF Users, Calm, Cool, Recalls, Remembering
  <1>7. ASSUME UpdateBioFind(s) PROVE Calm(s)
    <2>1. req[s].pc = "findbio" /\ UNCHANGED <<store, now, health>>
      BY <1>7 DEF UpdateBioFind, Reads
    <2>2. \/ req'[s] = Idle
          \/ \E u \in Users : req'[s] = [pc |-> "savebio", doc |-> Load(u)] ++ req[s]
      <3> HIDE DEF ++
      <3> QED BY <1>7, Goes DEF UpdateBioFind
    <2>3. \/ req'[s] = Idle
          \/ req'[s].pc = "savebio" /\ \E u \in Users : req'[s].doc = Load(u)
      BY <2>2, Goes DEF ++, Idle
    <2> QED BY <2>1, <2>3, IdleRecalls, LoadedHistory DEF Users, Calm, Cool, Recalls, Remembering
  <1>8. ASSUME RegisterMail(s) PROVE Calm(s)
    BY <1>8, Goes, IdleRecalls DEF RegisterMail, Calm, Cool
  <1>9. ASSUME MigrationMail(s) PROVE Calm(s)
    BY <1>9, Goes, IdleRecalls DEF MigrationMail, Calm, Cool
  <1> QED BY <1>1, <1>2, <1>3, <1>4, <1>5, <1>6, <1>7, <1>8, <1>9

\* and the starts of all requests.
LEMMA StartsCalm ==
    ASSUME Inv, NEW s \in Slots, AccountStart(s) \/ MigrationStart(s)
    PROVE  Calm(s)
  <1>1. ASSUME NEW e \in Emails, Register(s, e) PROVE Calm(s)
    <2>1. req[s].pc = "idle" /\ UNCHANGED <<store, now, health>>
      BY <1>1 DEF Register, Reads, Begin, Consume
    <2>2. PICK r, op : r = req'[s] /\ r = [pc |-> "holder", e |-> e] ++ [Idle EXCEPT !.op = op]
      <3> HIDE DEF ++
      <3> QED BY <1>1, Goes DEF Register
    <2>3. r.pc = "holder"
      BY <2>2 DEF ++, Idle
    <2> QED BY <2>1, <2>2, <2>3 DEF Calm, Cool, Recalls, Remembering
  <1>2. ASSUME NEW e \in Emails, ResendVerification(s, e) PROVE Calm(s)
    <2>1. req[s].pc = "idle" /\ UNCHANGED <<store, now, health>>
      BY <1>2 DEF ResendVerification, Reads, Begin, Consume
    <2>2. PICK r, op : r = req'[s] /\ r = [pc |-> "reverify", e |-> e, x |-> findUserIdByPrimaryEmail(e)] ++ [Idle EXCEPT !.op = op]
      <3> HIDE DEF ++
      <3> QED BY <1>2, Goes DEF ResendVerification
    <2>3. r.pc = "reverify"
      BY <2>2 DEF ++, Idle
    <2> QED BY <2>1, <2>2, <2>3 DEF Calm, Cool, Recalls, Remembering
  <1>3. ASSUME NEW e \in Emails, Login(s, e) PROVE Calm(s)
    <2>1. req[s].pc = "idle" /\ UNCHANGED <<store, now, health>>
      BY <1>3 DEF Login, Reads, Begin, Consume
    <2>2. PICK r, op : r = req'[s] /\ r = [pc |-> "resolve", k |-> 1, cont |-> "loginuser", e |-> e] ++ [Idle EXCEPT !.op = op]
      <3> HIDE DEF ++
      <3> QED BY <1>3, Goes DEF Login
    <2>3. r.pc = "resolve"
      BY <2>2 DEF ++, Idle
    <2> QED BY <2>1, <2>2, <2>3 DEF Calm, Cool, Recalls, Remembering
  <1>4. ASSUME NEW l \in links, VerifyEmail(s, l) PROVE Calm(s)
    <2>1. req[s].pc = "idle" /\ UNCHANGED <<store, now, health>>
      BY <1>4 DEF VerifyEmail, Reads, Begin, Consume
    <2>2. PICK r, op : r = req'[s] /\ r = [pc |-> "findverify", link |-> l.secret] ++ [Idle EXCEPT !.op = op]
      <3> HIDE DEF ++
      <3>1. PICK op : Begin(s, op, [pc |-> "findverify", link |-> l.secret])
        BY <1>4 DEF VerifyEmail
      <3>2. req'[s] = [pc |-> "findverify", link |-> l.secret] ++ [Idle EXCEPT !.op = op]
        BY <3>1, Goes
      <3> QED BY <3>2
    <2>3. r.pc = "findverify"
      BY <2>2 DEF ++, Idle
    <2> QED BY <2>1, <2>2, <2>3 DEF Calm, Cool, Recalls, Remembering
  <1>5. ASSUME NEW l \in links, VerifyMigration(s, l) PROVE Calm(s)
    <2>1. req[s].pc = "idle" /\ UNCHANGED <<store, now, health>>
      BY <1>5 DEF VerifyMigration, Reads, Begin, Consume
    <2>2. PICK r, op : r = req'[s] /\ r = [pc |-> "findmigration", link |-> l.secret] ++ [Idle EXCEPT !.op = op]
      <3> HIDE DEF ++
      <3>1. PICK op : Begin(s, op, [pc |-> "findmigration", link |-> l.secret])
        BY <1>5 DEF VerifyMigration
      <3>2. req'[s] = [pc |-> "findmigration", link |-> l.secret] ++ [Idle EXCEPT !.op = op]
        BY <3>1, Goes
      <3> QED BY <3>2
    <2>3. r.pc = "findmigration"
      BY <2>2 DEF ++, Idle
    <2> QED BY <2>1, <2>2, <2>3 DEF Calm, Cool, Recalls, Remembering
  <1>6. ASSUME NEW id \in OAuthIds, OAuth(s, id) PROVE Calm(s)
    <2>1. req[s].pc = "idle" /\ UNCHANGED <<store, now, health>>
      BY <1>6 DEF OAuth, Reads, Begin, Consume
    <2>2. PICK r, op : r = req'[s] /\ r = [pc |-> "oauthid", id |-> id, e |-> id[2], x |-> findUserIdByOAuth(id)] ++ [Idle EXCEPT !.op = op]
      <3> HIDE DEF ++
      <3> QED BY <1>6, Goes, ZenonT(30) DEF OAuth
    <2>3. r.pc = "oauthid"
      BY <2>2 DEF ++, Idle
    <2> QED BY <2>1, <2>2, <2>3 DEF Calm, Cool, Recalls, Remembering
  <1>7. ASSUME NEW u \in Users, FinalizeMigration(s, u) PROVE Calm(s)
    <2>1. req[s].pc = "idle" /\ UNCHANGED <<store, now, health>>
      BY <1>7 DEF FinalizeMigration, Reads, Begin, Consume
    <2>2. PICK r, op : r = req'[s] /\ r = [pc |-> "finalise", doc |-> Load(u)] ++ [Idle EXCEPT !.op = op]
      <3> HIDE DEF ++
      <3> QED BY <1>7, Goes DEF FinalizeMigration
    <2>3. r.pc = "finalise"
      BY <2>2 DEF ++, Idle
    <2> QED BY <2>1, <2>2, <2>3 DEF Calm, Cool, Recalls, Remembering
  <1>8. ASSUME NEW u \in Users, UpdateBio(s, u) PROVE Calm(s)
    <2>1. req[s].pc = "idle" /\ UNCHANGED <<store, now, health>>
      BY <1>8 DEF UpdateBio, Reads, Begin, Consume
    <2>2. PICK r, op : r = req'[s] /\ r = [pc |-> "findbio", doc |-> Load(u)] ++ [Idle EXCEPT !.op = op]
      <3> HIDE DEF ++
      <3> QED BY <1>8, Goes, ZenonT(30) DEF UpdateBio
    <2>3. r.pc = "findbio"
      BY <2>2 DEF ++, Idle
    <2> QED BY <2>1, <2>2, <2>3 DEF Calm, Cool, Recalls, Remembering
  <1>9. ASSUME NEW u \in Users, ResendMigration(s, u) PROVE Calm(s)
    <2>1. req[s].pc = "idle" /\ UNCHANGED <<store, now, health>>
      BY <1>9 DEF ResendMigration, Reads, Begin, Consume
    <2>2. PICK r, op : r = req'[s] /\ r = [pc |-> "resendsave", doc |-> Load(u)] ++ [Idle EXCEPT !.op = op]
      <3> HIDE DEF ++
      <3>1. PICK op : Begin(s, op, [pc |-> "resendsave", doc |-> Load(u)])
        BY <1>9 DEF ResendMigration
      <3>2. req'[s] = [pc |-> "resendsave", doc |-> Load(u)] ++ [Idle EXCEPT !.op = op]
        BY <3>1, Goes
      <3> QED BY <3>2
    <2>3. r.pc = "resendsave" /\ r.doc = Load(u)
      BY <2>2 DEF ++, Idle
    <2> QED BY <2>1, <2>2, <2>3, LoadedHistory DEF Calm, Cool, Recalls, Remembering, Users
  <1>10. ASSUME NEW u \in Users, CleanupExpired(s, u) PROVE Calm(s)
    <2>1. req[s].pc = "idle" /\ UNCHANGED <<store, now, health>>
      BY <1>10 DEF CleanupExpired, Reads, Begin, Consume
    <2>2. PICK r, op : r = req'[s] /\ r = [pc |-> "cleanup", doc |-> Load(u)] ++ [Idle EXCEPT !.op = op]
      <3> HIDE DEF ++
      <3>1. PICK op : Begin(s, op, [pc |-> "cleanup", doc |-> Load(u)])
        BY <1>10 DEF CleanupExpired
      <3>2. req'[s] = [pc |-> "cleanup", doc |-> Load(u)] ++ [Idle EXCEPT !.op = op]
        BY <3>1, Goes
      <3> QED BY <3>2
    <2>3. r.pc = "cleanup" /\ r.doc = Load(u)
      BY <2>2 DEF ++, Idle
    <2> QED BY <2>1, <2>2, <2>3, LoadedHistory DEF Calm, Cool, Recalls, Remembering, Users
  <1>11. ASSUME NEW u \in Users, NEW e \in Emails, InitiateMigration(s, u, e) PROVE Calm(s)
    <2>1. req[s].pc = "idle" /\ UNCHANGED <<store, now, health>>
      BY <1>11 DEF InitiateMigration, Reads, Begin
    <2>2. PICK r, op, yes : /\ r = req'[s]
            /\ r = [pc |-> "initlookup", doc |-> Load(u), e |-> e, confirm |-> yes] ++ [Idle EXCEPT !.op = op]
      <3> HIDE DEF ++
      <3>1. PICK yes : Begin(s, "initiate", [pc |-> "initlookup", doc |-> Load(u), e |-> e, confirm |-> yes])
        BY <1>11 DEF InitiateMigration
      <3>2. req'[s] = [pc |-> "initlookup", doc |-> Load(u), e |-> e, confirm |-> yes]
                          ++ [Idle EXCEPT !.op = "initiate"]
        BY <3>1, Goes
      <3> QED BY <3>2
    <2>3. r.pc = "initlookup"
      BY <2>2 DEF ++, Idle
    <2> QED BY <2>1, <2>2, <2>3 DEF Calm, Cool, Recalls, Remembering
  <1> QED BY <1>1, <1>2, <1>3, <1>4, <1>5, <1>6, <1>7, <1>8, <1>9, <1>10, <1>11 DEF AccountStart, MigrationStart

\* what a write makes of the migration of a row (p before, r after): nothing,
Same(p, r) ==
    /\ r.newEmailPending = p.newEmailPending /\ r.migrationHistory = p.migrationHistory
    /\ r.currentEmailVerified = p.currentEmailVerified
    /\ r.newEmailVerified = p.newEmailVerified

\* it is begun,
Initiated(p, r) ==
    /\ p.newEmailPending = None /\ p.isEmailVerified /\ r.newEmailPending \in Emails
    /\ r.currentEmailVerified = FALSE /\ r.newEmailVerified = FALSE
    /\ r.migrationHistory = Append(p.migrationHistory, Pending(r.newEmailPending))

\* one of its links is flagged,
Flagged(p, r, op) ==
    /\ p.newEmailPending # None /\ r.newEmailPending = p.newEmailPending
    /\ r.migrationHistory = p.migrationHistory
    /\ r.currentEmailVerified = (IF op = "new" THEN p.currentEmailVerified ELSE TRUE)
    /\ r.newEmailVerified = (IF op = "new" THEN TRUE ELSE p.newEmailVerified)

\* the flag is noted in the history,
Noted(p, r, op) ==
    LET h == p.migrationHistory
        m == h[Len(h)]
    IN
    /\ r.newEmailPending = p.newEmailPending
    /\ r.currentEmailVerified = p.currentEmailVerified
    /\ r.newEmailVerified = p.newEmailVerified
    /\ h # <<>>
    /\ r.migrationHistory = [h EXCEPT ![Len(h)] = IF op = "new" THEN [m EXCEPT !.new = TRUE]
                                                  ELSE [m EXCEPT !.cur = TRUE]]

\* or it is over
Concluded(p, r) ==
    /\ BothVerified(p) \/ (p.newEmailPending = None /\ p.isEmailVerified)
    /\ r.newEmailPending = None
    /\ \/ r.migrationHistory = p.migrationHistory
       \/ \E e \in Emails : r.migrationHistory = MarkSuccess(p.migrationHistory, e)

\* request r is between the flag of a link and the note of it
InHistory(r) == r.pc \in {"readhistory", "savehistory"}

\* request s writes the row of its document
Edit(s) ==
    \E u \in Users :
        /\ u = req[s].doc.id /\ Live(u) /\ Live(u)'
        /\ \A v \in Users \ {u} : users'[v] = users[v]
        /\ UNCHANGED <<nextId, idx, now, health>>
        /\ Recalls(req[s])' /\ req'[s].pc # "saveverify"
        /\ \/ /\ ~InHistory(req[s]) /\ ~InHistory(req'[s])
              /\ \/ Same(users[u], users'[u])
                 \/ Initiated(users[u], users'[u])
                 \/ Concluded(users[u], users'[u])
           \/ /\ ~InHistory(req[s]) /\ Flagged(users[u], users'[u], req[s].op)
              /\ req'[s].pc = "readhistory" /\ req'[s].doc.id = u /\ req'[s].op = req[s].op
           \/ /\ req[s].pc = "savehistory" /\ Noted(users[u], users'[u], req[s].op)
              /\ ~InHistory(req'[s])
        /\ \A v \in Users : Behind(req[s], v) => v = u
        /\ \/ Behind(req'[s], u)
           \/ users'[u].newEmailPending = None
           \/ /\ ~Behind(req[s], u)
              /\ users'[u].newEmailPending = users[u].newEmailPending
              /\ users'[u].migrationTokenExpires = users[u].migrationTokenExpires
        /\ users'[u].isEmailVerified =>
               \/ users[u].isEmailVerified \/ BothVerified(users[u])
               \/ AutoVerifyEmail \/ req[s].pc = "saveverify"
               \/ \E l \in opened' : l.u = u
        /\ \/ users'[u].emailVerificationToken \in {0, users[u].emailVerificationToken}
           \/ users'[u].emailVerificationToken = gen + 1 /\ gen < MaxTokens
        /\ req'[s].pc \in {"sync", "upsert"} => req'[s].sd = users'[u] /\ req'[s].k = 1
                                                /\ req'[s].pc = "sync"
                                                /\ req'[s].expected = expectedKeysForUser(users'[u])

\* What save() and the sync do.
LEMMA SyncSaves ==
    ASSUME Inv, NEW s \in Slots, NEW u, u = req[s].doc.id,
           NEW w, DOMAIN w \subseteq DOMAIN NoRow \ {"id"}, NEW cont, NEW onDup \in {"idle", "duplicate"},
           Current(req[s].doc), SaveAndSync(s, w, cont, onDup),
           cont # "savehistory"
    PROVE  \/ /\ UNCHANGED <<store, now, health>>
              /\ req'[s].pc \in {"idle", "duplicate"}
           \/ \E r :
              /\ u \in Users /\ Live(u) /\ r.id = u
              /\ Overlaid(r, w, users[u])
              /\ users'[u] = r /\ \A v \in Users \ {u} : users'[v] = users[v]
              /\ UNCHANGED <<nextId, idx, now, health>>
              /\ req'[s].pc = "sync" /\ req'[s].sd = r /\ req'[s].doc = r /\ req'[s].k = 1
              /\ req'[s].expected = expectedKeysForUser(r)
              /\ Behind(req'[s], u)
              /\ Recalls(req[s])'
  <1>1. PICK r, q : /\ u \in Users /\ Live(u) /\ r.id = u
                    /\ Overlaid(r, w, users[u])
                    /\ Syncs(q, r, cont, req[s])
                    /\ Writes(s, r, q, onDup)
    BY SaveStep
  <1>2. DOMAIN req = Slots /\ DOMAIN req[s] = DOMAIN Idle /\ DOMAIN users = Users
    BY Goes DEF Inv, Types
  <1>3. CASE Duplicate(r) /\ GoOn(s, onDup, <<>>) /\ UNCHANGED <<store, now, health, movedAt>>
    <2>1. IF onDup = "idle" THEN Answer(s) ELSE Goto(s, [pc |-> onDup])
      BY <1>3, GoOnTo
    <2>2. req'[s] = Idle \/ req'[s] = [pc |-> "duplicate"] ++ req[s]
      <3> HIDE DEF ++
      <3> QED BY <2>1, Goes
    <2>3. req'[s].pc \in {"idle", "duplicate"}
      BY <2>2, Goes DEF ++, Idle
    <2> QED BY <1>3, <2>3
  <1>4. CASE ~Duplicate(r) /\ req' = [req EXCEPT ![s] = q] /\ WriteRow(r)
    <2>1. req'[s] = q
      BY <1>2, <1>4
    <2>2. /\ q.pc = "sync" /\ q.sd = r /\ q.doc = r /\ q.k = 1 /\ q.cont = cont
          /\ q.expected = expectedKeysForUser(r)
      BY <1>1, <1>2 DEF Syncs, SyncFrom, ++, Idle
    <2>3. users'[u] = r /\ (\A v \in Users \ {u} : users'[v] = users[v]) /\ UNCHANGED <<nextId, idx, now, health>>
      BY <1>1, <1>2, <1>4 DEF WriteRow
    <2>4. Behind(req'[s], u)
      BY <1>1, <2>1, <2>2 DEF Behind
    <2>5. /\ req'[s].doc.migrationHistory = users'[req'[s].doc.id].migrationHistory
          /\ req'[s].pc = "sync"
      BY <1>1, <2>1, <2>2, <2>3
    <2>6. Recalls(req[s])'
      BY <2>5 DEF Recalls
    <2> QED BY <1>1, <2>1, <2>2, <2>3, <2>4, <2>6
  <1> QED BY <1>1, <1>3, <1>4 DEF Writes

\* The saves of a document, one by one: verifyEmail,
LEMMA VerifyEmailSaveEdit ==
    ASSUME Inv, NEW s \in Slots, VerifyEmailSave(s), Recalls(req[s])
    PROVE  Calm(s) \/ Edit(s)
  <1>1. /\ req[s].pc = "saveverify" /\ Current(req[s].doc)
        /\ req[s].doc.migrationHistory = users[req[s].doc.id].migrationHistory
    <2>1. req[s].pc = "saveverify"
      BY DEF VerifyEmailSave
    <2>2. Current(req[s].doc)
      BY <2>1, Facts DEF Knows, Documents
    <2>3. req[s].doc.migrationHistory = users[req[s].doc.id].migrationHistory
      BY <2>1, <2>2 DEF Recalls, Remembering, Current, Users
    <2> QED BY <2>1, <2>2, <2>3
  <1>2. PICK u : u = req[s].doc.id
    OBVIOUS
  <1>3. PICK w : w = [password |-> TRUE, isEmailVerified |-> TRUE,
                     emailVerificationToken |-> 0, emailVerificationExpires |-> 0,
                     migrationHistory |-> req[s].doc.migrationHistory]
    OBVIOUS
  <1>4. /\ DOMAIN w \subseteq DOMAIN NoRow \ {"id"}
        /\ "email" \notin DOMAIN w
        /\ "newEmailPending" \notin DOMAIN w
        /\ "currentEmailVerified" \notin DOMAIN w
        /\ "newEmailVerified" \notin DOMAIN w
        /\ "migrationHistory" \in DOMAIN w /\ w.migrationHistory = req[s].doc.migrationHistory
        /\ "isEmailVerified" \in DOMAIN w /\ w.isEmailVerified = TRUE
        /\ "emailVerificationToken" \in DOMAIN w /\ w.emailVerificationToken = 0
    BY <1>3 DEF NoRow, ++
  <1>5. SaveAndSync(s, w, "idle", "idle")
    BY <1>1, <1>3 DEF VerifyEmailSave
  <1>6. CASE UNCHANGED <<store, now, health>> /\ req'[s].pc \in {"idle", "duplicate"}
    BY <1>1, <1>6 DEF Calm, Cool, Recalls, Remembering
  <1>7. ASSUME NEW r, u \in Users, Live(u), r.id = u, Overlaid(r, w, users[u]),
               users'[u] = r, \A v \in Users \ {u} : users'[v] = users[v],
               UNCHANGED <<nextId, idx, now, health>>,
               req'[s].pc = "sync", req'[s].sd = r, req'[s].doc = r, req'[s].k = 1,
               req'[s].expected = expectedKeysForUser(r),
               Behind(req'[s], u), Recalls(req[s])'
        PROVE  Edit(s)
    <2>1. /\ r.email # None
          /\ r.email = users[u].email
          /\ r.newEmailPending = users[u].newEmailPending
          /\ r.currentEmailVerified = users[u].currentEmailVerified
          /\ r.newEmailVerified = users[u].newEmailVerified
          /\ r.migrationHistory = users[u].migrationHistory
          /\ r.isEmailVerified = TRUE
          /\ r.emailVerificationToken = 0
      BY <1>1, <1>2, <1>4, <1>7, StoreAssumption, ZenonT(60) DEF NoRow, Overlaid, Live
    <2>2. Live(u)'
      BY <1>7, <2>1 DEF Live
    <2>3. Same(users[u], users'[u])
      BY <1>1, <1>2, <1>7, <2>1 DEF Same
    <2>4. /\ ~InHistory(req[s]) /\ ~InHistory(req'[s])
          /\ \A v \in Users : Behind(req[s], v) => v = u
      BY <1>1, <1>2, <1>7 DEF InHistory, Behind
    <2>5. users'[u].isEmailVerified =>
               \/ users[u].isEmailVerified \/ BothVerified(users[u])
               \/ AutoVerifyEmail \/ req[s].pc = "saveverify"
               \/ \E l \in opened' : l.u = u
      BY <1>1, <1>2, <1>7, <2>1 DEF VerifyEmailSave
    <2>6. \/ users'[u].emailVerificationToken \in {0, users[u].emailVerificationToken}
          \/ users'[u].emailVerificationToken = gen + 1 /\ gen < MaxTokens
      BY <1>1, <1>7, <2>1, AccountsAssumption DEF VerifyEmailSave, CanGenerate, Fresh
    <2> QED BY <1>2, <1>7, <2>2, <2>3, <2>4, <2>5, <2>6 DEF Edit
  <1>8. \/ UNCHANGED <<store, now, health>> /\ req'[s].pc \in {"idle", "duplicate"}
        \/ \E r :
              /\ u \in Users /\ Live(u) /\ r.id = u
              /\ Overlaid(r, w, users[u])
              /\ users'[u] = r /\ \A v \in Users \ {u} : users'[v] = users[v]
              /\ UNCHANGED <<nextId, idx, now, health>>
              /\ req'[s].pc = "sync" /\ req'[s].sd = r /\ req'[s].doc = r /\ req'[s].k = 1
              /\ req'[s].expected = expectedKeysForUser(r)
              /\ Behind(req'[s], u)
              /\ Recalls(req[s])'
    BY <1>1, <1>2, <1>4, <1>5, SyncSaves
  <1> QED BY <1>6, <1>7, <1>8

\* register, where it takes an unverified account over,
LEMMA RegisterSaveEdit ==
    ASSUME Inv, NEW s \in Slots, RegisterSave(s), Recalls(req[s]), req[s].doc.id # 0
    PROVE  Calm(s) \/ Edit(s)
  <1>1. /\ req[s].pc = "create" /\ Current(req[s].doc)
        /\ req[s].doc.migrationHistory = users[req[s].doc.id].migrationHistory
    <2>1. req[s].pc = "create"
      BY DEF RegisterSave
    <2>2. Current(req[s].doc)
      BY <2>1, Facts DEF Knows, Documents
    <2>3. req[s].doc.migrationHistory = users[req[s].doc.id].migrationHistory
      BY <2>1, <2>2 DEF Recalls, Remembering, Current, Users
    <2> QED BY <2>1, <2>2, <2>3
  <1>2. PICK u : u = req[s].doc.id
    OBVIOUS
  <1>3. PICK w : w = Credentials ++ [migrationHistory |-> req[s].doc.migrationHistory]
    OBVIOUS
  <1>4. /\ DOMAIN w \subseteq DOMAIN NoRow \ {"id"}
        /\ "email" \notin DOMAIN w
        /\ "newEmailPending" \notin DOMAIN w
        /\ "currentEmailVerified" \notin DOMAIN w
        /\ "newEmailVerified" \notin DOMAIN w
        /\ "migrationHistory" \in DOMAIN w /\ w.migrationHistory = req[s].doc.migrationHistory
        /\ "isEmailVerified" \in DOMAIN w /\ w.isEmailVerified = AutoVerifyEmail
        /\ "emailVerificationToken" \in DOMAIN w /\ w.emailVerificationToken = IF AutoVerifyEmail THEN 0 ELSE Fresh
    BY <1>3 DEF NoRow, ++, Credentials
  <1>5. SaveAndSync(s, w, "mailverify", "idle")
    BY <1>1, <1>3 DEF RegisterSave
  <1>6. CASE UNCHANGED <<store, now, health>> /\ req'[s].pc \in {"idle", "duplicate"}
    BY <1>1, <1>6 DEF Calm, Cool, Recalls, Remembering
  <1>7. ASSUME NEW r, u \in Users, Live(u), r.id = u, Overlaid(r, w, users[u]),
               users'[u] = r, \A v \in Users \ {u} : users'[v] = users[v],
               UNCHANGED <<nextId, idx, now, health>>,
               req'[s].pc = "sync", req'[s].sd = r, req'[s].doc = r, req'[s].k = 1,
               req'[s].expected = expectedKeysForUser(r),
               Behind(req'[s], u), Recalls(req[s])'
        PROVE  Edit(s)
    <2>1. /\ r.email # None
          /\ r.email = users[u].email
          /\ r.newEmailPending = users[u].newEmailPending
          /\ r.currentEmailVerified = users[u].currentEmailVerified
          /\ r.newEmailVerified = users[u].newEmailVerified
          /\ r.migrationHistory = users[u].migrationHistory
          /\ r.isEmailVerified = AutoVerifyEmail
          /\ r.emailVerificationToken = IF AutoVerifyEmail THEN 0 ELSE Fresh
      BY <1>1, <1>2, <1>4, <1>7, StoreAssumption DEF NoRow, Overlaid, Live
    <2>2. Live(u)'
      BY <1>7, <2>1 DEF Live
    <2>3. Same(users[u], users'[u])
      BY <1>1, <1>2, <1>7, <2>1 DEF Same
    <2>4. /\ ~InHistory(req[s]) /\ ~InHistory(req'[s])
          /\ \A v \in Users : Behind(req[s], v) => v = u
      BY <1>1, <1>2, <1>7 DEF InHistory, Behind
    <2>5. users'[u].isEmailVerified =>
               \/ users[u].isEmailVerified \/ BothVerified(users[u])
               \/ AutoVerifyEmail \/ req[s].pc = "saveverify"
               \/ \E l \in opened' : l.u = u
      BY <1>1, <1>2, <1>7, <2>1 DEF RegisterSave
    <2>6. \/ users'[u].emailVerificationToken \in {0, users[u].emailVerificationToken}
          \/ users'[u].emailVerificationToken = gen + 1 /\ gen < MaxTokens
      BY <1>1, <1>7, <2>1, AccountsAssumption DEF RegisterSave, CanGenerate, Fresh
    <2> QED BY <1>2, <1>7, <2>2, <2>3, <2>4, <2>5, <2>6 DEF Edit
  <1>8. \/ UNCHANGED <<store, now, health>> /\ req'[s].pc \in {"idle", "duplicate"}
        \/ \E r :
              /\ u \in Users /\ Live(u) /\ r.id = u
              /\ Overlaid(r, w, users[u])
              /\ users'[u] = r /\ \A v \in Users \ {u} : users'[v] = users[v]
              /\ UNCHANGED <<nextId, idx, now, health>>
              /\ req'[s].pc = "sync" /\ req'[s].sd = r /\ req'[s].doc = r /\ req'[s].k = 1
              /\ req'[s].expected = expectedKeysForUser(r)
              /\ Behind(req'[s], u)
              /\ Recalls(req[s])'
    BY <1>1, <1>2, <1>4, <1>5, SyncSaves
  <1> QED BY <1>6, <1>7, <1>8

\* the OAuth takeover of an account,
LEMMA OAuthTakeOverEdit ==
    ASSUME Inv, NEW s \in Slots, OAuthTakeOver(s), Recalls(req[s])
    PROVE  Calm(s) \/ Edit(s)
  <1>1. /\ req[s].pc = "takeover" /\ Current(req[s].doc)
        /\ req[s].doc.migrationHistory = users[req[s].doc.id].migrationHistory
    <2>1. req[s].pc = "takeover"
      BY DEF OAuthTakeOver
    <2>2. Current(req[s].doc)
      BY <2>1, Facts DEF Knows, Documents
    <2>3. req[s].doc.migrationHistory = users[req[s].doc.id].migrationHistory
      BY <2>1, <2>2 DEF Recalls, Remembering, Current, Users
    <2> QED BY <2>1, <2>2, <2>3
  <1>2. PICK u : u = req[s].doc.id
    OBVIOUS
  <1>3. PICK w : w = [provider |-> req[s].id, isEmailVerified |-> TRUE,
                     migrationHistory |-> req[s].doc.migrationHistory]
    OBVIOUS
  <1>4. /\ DOMAIN w \subseteq DOMAIN NoRow \ {"id"}
        /\ "email" \notin DOMAIN w
        /\ "newEmailPending" \notin DOMAIN w
        /\ "currentEmailVerified" \notin DOMAIN w
        /\ "newEmailVerified" \notin DOMAIN w
        /\ "migrationHistory" \in DOMAIN w /\ w.migrationHistory = req[s].doc.migrationHistory
        /\ "isEmailVerified" \in DOMAIN w /\ w.isEmailVerified = TRUE
        /\ "emailVerificationToken" \notin DOMAIN w
    BY <1>3 DEF NoRow, ++
  <1>5. SaveAndSync(s, w, "strategy", "idle")
    BY <1>1, <1>3 DEF OAuthTakeOver
  <1>6. CASE UNCHANGED <<store, now, health>> /\ req'[s].pc \in {"idle", "duplicate"}
    BY <1>1, <1>6 DEF Calm, Cool, Recalls, Remembering
  <1>7. ASSUME NEW r, u \in Users, Live(u), r.id = u, Overlaid(r, w, users[u]),
               users'[u] = r, \A v \in Users \ {u} : users'[v] = users[v],
               UNCHANGED <<nextId, idx, now, health>>,
               req'[s].pc = "sync", req'[s].sd = r, req'[s].doc = r, req'[s].k = 1,
               req'[s].expected = expectedKeysForUser(r),
               Behind(req'[s], u), Recalls(req[s])'
        PROVE  Edit(s)
    <2>1. /\ r.email # None
          /\ r.email = users[u].email
          /\ r.newEmailPending = users[u].newEmailPending
          /\ r.currentEmailVerified = users[u].currentEmailVerified
          /\ r.newEmailVerified = users[u].newEmailVerified
          /\ r.migrationHistory = users[u].migrationHistory
          /\ r.isEmailVerified = TRUE
          /\ r.emailVerificationToken = users[u].emailVerificationToken
      BY <1>1, <1>2, <1>4, <1>7, StoreAssumption, ZenonT(60) DEF NoRow, Overlaid, Live
    <2>2. Live(u)'
      BY <1>7, <2>1 DEF Live
    <2>3. Same(users[u], users'[u])
      BY <1>1, <1>2, <1>7, <2>1 DEF Same
    <2>4. /\ ~InHistory(req[s]) /\ ~InHistory(req'[s])
          /\ \A v \in Users : Behind(req[s], v) => v = u
      BY <1>1, <1>2, <1>7 DEF InHistory, Behind
    <2>5. users'[u].isEmailVerified =>
               \/ users[u].isEmailVerified \/ BothVerified(users[u])
               \/ AutoVerifyEmail \/ req[s].pc = "saveverify"
               \/ \E l \in opened' : l.u = u
      <3>1. PICK l : l = [kind |-> "oauth", secret |-> 0, u |-> u, to |-> req[s].e]
        OBVIOUS
      <3>2. l \in opened' /\ l.u = u
        BY <1>2, <3>1 DEF OAuthTakeOver, Vouch
      <3> QED BY <3>2
    <2>6. \/ users'[u].emailVerificationToken \in {0, users[u].emailVerificationToken}
          \/ users'[u].emailVerificationToken = gen + 1 /\ gen < MaxTokens
      BY <1>1, <1>7, <2>1, AccountsAssumption DEF OAuthTakeOver, CanGenerate, Fresh
    <2> QED BY <1>2, <1>7, <2>2, <2>3, <2>4, <2>5, <2>6 DEF Edit
  <1>8. \/ UNCHANGED <<store, now, health>> /\ req'[s].pc \in {"idle", "duplicate"}
        \/ \E r :
              /\ u \in Users /\ Live(u) /\ r.id = u
              /\ Overlaid(r, w, users[u])
              /\ users'[u] = r /\ \A v \in Users \ {u} : users'[v] = users[v]
              /\ UNCHANGED <<nextId, idx, now, health>>
              /\ req'[s].pc = "sync" /\ req'[s].sd = r /\ req'[s].doc = r /\ req'[s].k = 1
              /\ req'[s].expected = expectedKeysForUser(r)
              /\ Behind(req'[s], u)
              /\ Recalls(req[s])'
    BY <1>1, <1>2, <1>4, <1>5, SyncSaves
  <1> QED BY <1>6, <1>7, <1>8

\* resendMigrationEmails,
LEMMA ResendSaveEdit ==
    ASSUME Inv, NEW s \in Slots, ResendSave(s), Recalls(req[s])
    PROVE  Calm(s) \/ Edit(s)
  <1>1. /\ req[s].pc = "resendsave" /\ Current(req[s].doc)
        /\ req[s].doc.migrationHistory = users[req[s].doc.id].migrationHistory
    <2>1. req[s].pc = "resendsave"
      BY DEF ResendSave
    <2>2. Current(req[s].doc)
      BY <2>1, Facts DEF Knows, Documents
    <2>3. req[s].doc.migrationHistory = users[req[s].doc.id].migrationHistory
      BY <2>1, <2>2 DEF Recalls, Remembering, Current, Users
    <2> QED BY <2>1, <2>2, <2>3
  <1>2. PICK u : u = req[s].doc.id
    OBVIOUS
  <1>3. PICK w : w = [migrationToken |-> Fresh, migrationTokenExpires |-> now + TokenTtl,
                     migrationHistory |-> req[s].doc.migrationHistory]
    OBVIOUS
  <1>4. /\ DOMAIN w \subseteq DOMAIN NoRow \ {"id"}
        /\ "email" \notin DOMAIN w
        /\ "newEmailPending" \notin DOMAIN w
        /\ "currentEmailVerified" \notin DOMAIN w
        /\ "newEmailVerified" \notin DOMAIN w
        /\ "migrationHistory" \in DOMAIN w /\ w.migrationHistory = req[s].doc.migrationHistory
        /\ "isEmailVerified" \notin DOMAIN w
        /\ "emailVerificationToken" \notin DOMAIN w
    BY <1>3 DEF NoRow, ++
  <1>5. SaveAndSync(s, w, "mailmigrate", "idle")
    BY <1>1, <1>3 DEF ResendSave
  <1>6. CASE UNCHANGED <<store, now, health>> /\ req'[s].pc \in {"idle", "duplicate"}
    BY <1>1, <1>6 DEF Calm, Cool, Recalls, Remembering
  <1>7. ASSUME NEW r, u \in Users, Live(u), r.id = u, Overlaid(r, w, users[u]),
               users'[u] = r, \A v \in Users \ {u} : users'[v] = users[v],
               UNCHANGED <<nextId, idx, now, health>>,
               req'[s].pc = "sync", req'[s].sd = r, req'[s].doc = r, req'[s].k = 1,
               req'[s].expected = expectedKeysForUser(r),
               Behind(req'[s], u), Recalls(req[s])'
        PROVE  Edit(s)
    <2>1. /\ r.email # None
          /\ r.email = users[u].email
          /\ r.newEmailPending = users[u].newEmailPending
          /\ r.currentEmailVerified = users[u].currentEmailVerified
          /\ r.newEmailVerified = users[u].newEmailVerified
          /\ r.migrationHistory = users[u].migrationHistory
          /\ r.isEmailVerified = users[u].isEmailVerified
          /\ r.emailVerificationToken = users[u].emailVerificationToken
      BY <1>1, <1>2, <1>4, <1>7, StoreAssumption, ZenonT(30) DEF NoRow, Overlaid, Live
    <2>2. Live(u)'
      BY <1>7, <2>1 DEF Live
    <2>3. Same(users[u], users'[u])
      BY <1>1, <1>2, <1>7, <2>1 DEF Same
    <2>4. /\ ~InHistory(req[s]) /\ ~InHistory(req'[s])
          /\ \A v \in Users : Behind(req[s], v) => v = u
      BY <1>1, <1>2, <1>7 DEF InHistory, Behind
    <2>5. users'[u].isEmailVerified =>
               \/ users[u].isEmailVerified \/ BothVerified(users[u])
               \/ AutoVerifyEmail \/ req[s].pc = "saveverify"
               \/ \E l \in opened' : l.u = u
      BY <1>1, <1>2, <1>7, <2>1, Zenon DEF ResendSave
    <2>6. \/ users'[u].emailVerificationToken \in {0, users[u].emailVerificationToken}
          \/ users'[u].emailVerificationToken = gen + 1 /\ gen < MaxTokens
      BY <1>1, <1>7, <2>1, AccountsAssumption DEF ResendSave, CanGenerate, Fresh
    <2> QED BY <1>2, <1>7, <2>2, <2>3, <2>4, <2>5, <2>6 DEF Edit
  <1>8. \/ UNCHANGED <<store, now, health>> /\ req'[s].pc \in {"idle", "duplicate"}
        \/ \E r :
              /\ u \in Users /\ Live(u) /\ r.id = u
              /\ Overlaid(r, w, users[u])
              /\ users'[u] = r /\ \A v \in Users \ {u} : users'[v] = users[v]
              /\ UNCHANGED <<nextId, idx, now, health>>
              /\ req'[s].pc = "sync" /\ req'[s].sd = r /\ req'[s].doc = r /\ req'[s].k = 1
              /\ req'[s].expected = expectedKeysForUser(r)
              /\ Behind(req'[s], u)
              /\ Recalls(req[s])'
    BY <1>1, <1>2, <1>4, <1>5, SyncSaves
  <1> QED BY <1>6, <1>7, <1>8

\* initiateMigration,
LEMMA InitiateSaveEdit ==
    ASSUME Inv, NEW s \in Slots, InitiateSave(s), Recalls(req[s])
    PROVE  Calm(s) \/ Edit(s)
  <1>1. /\ req[s].pc = "initsave" /\ Current(req[s].doc)
        /\ req[s].doc.migrationHistory = users[req[s].doc.id].migrationHistory
        /\ users[req[s].doc.id].newEmailPending = None /\ users[req[s].doc.id].isEmailVerified
        /\ req[s].e \in Emails
    <2>1. req[s].pc = "initsave"
      BY DEF InitiateSave
    <2>2. Current(req[s].doc)
      BY <2>1, Facts DEF Knows, Documents
    <2>3. req[s].doc.migrationHistory = users[req[s].doc.id].migrationHistory
      BY <2>1, <2>2 DEF Recalls, Remembering, Current, Users
    <2>4. users[req[s].doc.id].newEmailPending = None /\ users[req[s].doc.id].isEmailVerified
      BY <2>1, Facts DEF Knows, Migrating
    <2>5. req[s].e \in Emails
      BY <2>1, Facts DEF Knows, Documents
    <2> QED BY <2>1, <2>2, <2>3, <2>4, <2>5
  <1>2. PICK u : u = req[s].doc.id
    OBVIOUS
  <1>3. PICK w : w = [newEmailPending |-> req[s].e, migrationToken |-> Fresh,
                     migrationTokenExpires |-> now + TokenTtl,
                     currentEmailVerified |-> FALSE, newEmailVerified |-> FALSE,
                     migrationHistory |-> Append(req[s].doc.migrationHistory, Pending(req[s].e))]
    OBVIOUS
  <1>4. /\ DOMAIN w \subseteq DOMAIN NoRow \ {"id"}
        /\ "email" \notin DOMAIN w
        /\ "newEmailPending" \in DOMAIN w /\ w.newEmailPending = req[s].e
        /\ "currentEmailVerified" \in DOMAIN w /\ w.currentEmailVerified = FALSE
        /\ "newEmailVerified" \in DOMAIN w /\ w.newEmailVerified = FALSE
        /\ "migrationHistory" \in DOMAIN w /\ w.migrationHistory = Append(req[s].doc.migrationHistory, Pending(req[s].e))
        /\ "isEmailVerified" \notin DOMAIN w
        /\ "emailVerificationToken" \notin DOMAIN w
    BY <1>3 DEF NoRow, ++
  <1>5. SaveAndSync(s, w, "mailmigrate", "idle")
    BY <1>1, <1>3, Zenon DEF InitiateSave
  <1>6. CASE UNCHANGED <<store, now, health>> /\ req'[s].pc \in {"idle", "duplicate"}
    <2>1. req[s].pc = "initsave"
      BY DEF InitiateSave
    <2> QED BY <1>6, <2>1 DEF Calm, Cool, Recalls, Remembering
  <1>7. ASSUME NEW r, u \in Users, Live(u), r.id = u, Overlaid(r, w, users[u]),
               users'[u] = r, \A v \in Users \ {u} : users'[v] = users[v],
               UNCHANGED <<nextId, idx, now, health>>,
               req'[s].pc = "sync", req'[s].sd = r, req'[s].doc = r, req'[s].k = 1,
               req'[s].expected = expectedKeysForUser(r),
               Behind(req'[s], u), Recalls(req[s])'
        PROVE  Edit(s)
    <2>1. /\ r.email # None
          /\ r.email = users[u].email
          /\ r.newEmailPending = req[s].e
          /\ r.currentEmailVerified = FALSE
          /\ r.newEmailVerified = FALSE
          /\ r.migrationHistory = Append(users[u].migrationHistory, Pending(req[s].e))
          /\ r.isEmailVerified = users[u].isEmailVerified
          /\ r.emailVerificationToken = users[u].emailVerificationToken
      <3>1. /\ \A f \in DOMAIN w : r[f] = w[f]
            /\ \A f \in DOMAIN NoRow \ DOMAIN w : r[f] = users[u][f]
        BY <1>4, <1>7 DEF Overlaid
      <3>2. {"email", "isEmailVerified", "emailVerificationToken"} \subseteq DOMAIN NoRow
        BY DEF NoRow
      <3> QED BY <1>1, <1>2, <1>4, <1>7, <3>1, <3>2, ZenonT(30) DEF Live
    <2>2. Live(u)'
      BY <1>7, <2>1 DEF Live
    <2>3. Initiated(users[u], users'[u])
      BY <1>1, <1>2, <1>7, <2>1, ZenonT(30) DEF Initiated
    <2>4. /\ ~InHistory(req[s]) /\ ~InHistory(req'[s])
          /\ \A v \in Users : Behind(req[s], v) => v = u
      BY <1>1, <1>2, <1>7 DEF InHistory, Behind
    <2>5. users'[u].isEmailVerified =>
               \/ users[u].isEmailVerified \/ BothVerified(users[u])
               \/ AutoVerifyEmail \/ req[s].pc = "saveverify"
               \/ \E l \in opened' : l.u = u
      BY <1>1, <1>2, <1>7, <2>1, Zenon DEF InitiateSave
    <2>6. \/ users'[u].emailVerificationToken \in {0, users[u].emailVerificationToken}
          \/ users'[u].emailVerificationToken = gen + 1 /\ gen < MaxTokens
      BY <1>1, <1>7, <2>1, AccountsAssumption, Zenon DEF InitiateSave, CanGenerate, Fresh
    <2> QED BY <1>2, <1>7, <2>2, <2>3, <2>4, <2>5, <2>6 DEF Edit
  <1>8. \/ UNCHANGED <<store, now, health>> /\ req'[s].pc \in {"idle", "duplicate"}
        \/ \E r :
              /\ u \in Users /\ Live(u) /\ r.id = u
              /\ Overlaid(r, w, users[u])
              /\ users'[u] = r /\ \A v \in Users \ {u} : users'[v] = users[v]
              /\ UNCHANGED <<nextId, idx, now, health>>
              /\ req'[s].pc = "sync" /\ req'[s].sd = r /\ req'[s].doc = r /\ req'[s].k = 1
              /\ req'[s].expected = expectedKeysForUser(r)
              /\ Behind(req'[s], u)
              /\ Recalls(req[s])'
    BY <1>1, <1>2, <1>4, <1>5, SyncSaves
  <1> QED BY <1>6, <1>7, <1>8

\* the last save of finalizeMigrationInternal,
LEMMA FinaliseSaveEdit ==
    ASSUME Inv, NEW s \in Slots, FinaliseSave(s), Recalls(req[s])
    PROVE  Calm(s) \/ Edit(s)
  <1>1. /\ req[s].pc = "finsave" /\ Current(req[s].doc)
        /\ req[s].doc.migrationHistory = users[req[s].doc.id].migrationHistory
        /\ BothVerified(users[req[s].doc.id])
        /\ req[s].e \in Emails
    <2>1. req[s].pc = "finsave"
      BY DEF FinaliseSave
    <2>2. Current(req[s].doc)
      BY <2>1, Facts DEF Knows, Documents
    <2>3. req[s].doc.migrationHistory = users[req[s].doc.id].migrationHistory
      BY <2>1, <2>2 DEF Recalls, Remembering, Current, Users
    <2>4. BothVerified(users[req[s].doc.id])
      BY <2>1, Facts DEF Knows, Migrating
    <2>5. req[s].e \in Emails
      BY <2>1, Facts DEF Knows, Documents
    <2> QED BY <2>1, <2>2, <2>3, <2>4, <2>5
  <1>2. PICK u : u = req[s].doc.id
    OBVIOUS
  <1>3. PICK w : w = Moved(req[s].doc, req[s].e) ++ Preserved(req[s].doc) ++
                    [migrationTokenExpires |-> 0,
                     migrationHistory |-> MarkSuccess(req[s].doc.migrationHistory, req[s].e)]
    OBVIOUS
  <1>4. /\ DOMAIN w \subseteq DOMAIN NoRow \ {"id"}
        /\ "email" \in DOMAIN w /\ w.email = req[s].e
        /\ "newEmailPending" \in DOMAIN w /\ w.newEmailPending = None
        /\ "emailVerificationToken" \notin DOMAIN w
        /\ "migrationHistory" \in DOMAIN w /\ w.migrationHistory = MarkSuccess(req[s].doc.migrationHistory, req[s].e)
    BY <1>3 DEF NoRow, ++, Moved, Preserved
  <1>5. SaveAndSync(s, w, "checkbio", "duplicate")
    BY <1>1, <1>3 DEF FinaliseSave
  <1>6. CASE UNCHANGED <<store, now, health>> /\ req'[s].pc \in {"idle", "duplicate"}
    BY <1>1, <1>6 DEF Calm, Cool, Recalls, Remembering
  <1>7. ASSUME NEW r, u \in Users, Live(u), r.id = u, Overlaid(r, w, users[u]),
               users'[u] = r, \A v \in Users \ {u} : users'[v] = users[v],
               UNCHANGED <<nextId, idx, now, health>>,
               req'[s].pc = "sync", req'[s].sd = r, req'[s].doc = r, req'[s].k = 1,
               req'[s].expected = expectedKeysForUser(r),
               Behind(req'[s], u), Recalls(req[s])'
        PROVE  Edit(s)
    <2>1. /\ r.email # None
          /\ r.email = req[s].e
          /\ r.newEmailPending = None
          /\ r.emailVerificationToken = users[u].emailVerificationToken
          /\ r.migrationHistory = MarkSuccess(users[u].migrationHistory, req[s].e)
      BY <1>1, <1>2, <1>4, <1>7, StoreAssumption, ZenonT(30) DEF NoRow, Overlaid, Live
    <2>2. Live(u)'
      BY <1>7, <2>1 DEF Live
    <2>3. Concluded(users[u], users'[u])
      BY <1>1, <1>2, <1>7, <2>1, Zenon DEF Concluded
    <2>4. /\ ~InHistory(req[s]) /\ ~InHistory(req'[s])
          /\ \A v \in Users : Behind(req[s], v) => v = u
      BY <1>1, <1>2, <1>7 DEF InHistory, Behind
    <2>5. users'[u].isEmailVerified =>
               \/ users[u].isEmailVerified \/ BothVerified(users[u])
               \/ AutoVerifyEmail \/ req[s].pc = "saveverify"
               \/ \E l \in opened' : l.u = u
      BY <1>1, <1>2, <1>7, <2>1 DEF FinaliseSave
    <2>6. \/ users'[u].emailVerificationToken \in {0, users[u].emailVerificationToken}
          \/ users'[u].emailVerificationToken = gen + 1 /\ gen < MaxTokens
      BY <1>1, <1>7, <2>1, AccountsAssumption DEF FinaliseSave, CanGenerate, Fresh
    <2> QED BY <1>2, <1>7, <2>2, <2>3, <2>4, <2>5, <2>6 DEF Edit
  <1>8. \/ UNCHANGED <<store, now, health>> /\ req'[s].pc \in {"idle", "duplicate"}
        \/ \E r :
              /\ u \in Users /\ Live(u) /\ r.id = u
              /\ Overlaid(r, w, users[u])
              /\ users'[u] = r /\ \A v \in Users \ {u} : users'[v] = users[v]
              /\ UNCHANGED <<nextId, idx, now, health>>
              /\ req'[s].pc = "sync" /\ req'[s].sd = r /\ req'[s].doc = r /\ req'[s].k = 1
              /\ req'[s].expected = expectedKeysForUser(r)
              /\ Behind(req'[s], u)
              /\ Recalls(req[s])'
    BY <1>1, <1>2, <1>4, <1>5, SyncSaves
  <1> QED BY <1>6, <1>7, <1>8

\* the login that follows a completed migration,
LEMMA LoginSaveEdit ==
    ASSUME Inv, NEW s \in Slots, LoginSave(s), Recalls(req[s])
    PROVE  Calm(s) \/ Edit(s)
  <1>1. /\ req[s].pc = "loginsave" /\ Current(req[s].doc)
        /\ req[s].doc.migrationHistory = users[req[s].doc.id].migrationHistory
        /\ BothVerified(users[req[s].doc.id])
        /\ req[s].doc.newEmailPending = users[req[s].doc.id].newEmailPending /\ req[s].doc.newEmailPending \in Emails
    <2>1. req[s].pc = "loginsave"
      BY DEF LoginSave
    <2>2. Current(req[s].doc)
      BY <2>1, Facts DEF Knows, Documents
    <2>3. req[s].doc.migrationHistory = users[req[s].doc.id].migrationHistory
      BY <2>1, <2>2 DEF Recalls, Remembering, Current, Users
    <2>4. BothVerified(users[req[s].doc.id])
      BY <2>1, Facts DEF Knows, Migrating
    <2>5. req[s].doc.newEmailPending = users[req[s].doc.id].newEmailPending /\ req[s].doc.newEmailPending \in Emails
      BY <2>1, <2>2, <2>4, Facts, RowFields DEF Fields, Current, BothVerified
    <2> QED BY <2>1, <2>2, <2>3, <2>4, <2>5
  <1>2. PICK u : u = req[s].doc.id
    OBVIOUS
  <1>3. PICK w : w = Moved(req[s].doc, req[s].doc.newEmailPending)
                    ++ [migrationHistory |-> req[s].doc.migrationHistory]
    OBVIOUS
  <1>4. /\ DOMAIN w \subseteq DOMAIN NoRow \ {"id"}
        /\ "email" \in DOMAIN w /\ w.email = req[s].doc.newEmailPending
        /\ "newEmailPending" \in DOMAIN w /\ w.newEmailPending = None
        /\ "emailVerificationToken" \notin DOMAIN w
        /\ "migrationHistory" \in DOMAIN w /\ w.migrationHistory = req[s].doc.migrationHistory
    BY <1>3 DEF NoRow, ++, Moved
  <1>5. SaveAndSync(s, w, "idle", "idle")
    BY <1>1, <1>3 DEF LoginSave
  <1>6. CASE UNCHANGED <<store, now, health>> /\ req'[s].pc \in {"idle", "duplicate"}
    BY <1>1, <1>6 DEF Calm, Cool, Recalls, Remembering
  <1>7. ASSUME NEW r, u \in Users, Live(u), r.id = u, Overlaid(r, w, users[u]),
               users'[u] = r, \A v \in Users \ {u} : users'[v] = users[v],
               UNCHANGED <<nextId, idx, now, health>>,
               req'[s].pc = "sync", req'[s].sd = r, req'[s].doc = r, req'[s].k = 1,
               req'[s].expected = expectedKeysForUser(r),
               Behind(req'[s], u), Recalls(req[s])'
        PROVE  Edit(s)
    <2>1. /\ r.email # None
          /\ r.email = req[s].doc.newEmailPending
          /\ r.newEmailPending = None
          /\ r.emailVerificationToken = users[u].emailVerificationToken
          /\ r.migrationHistory = users[u].migrationHistory
      BY <1>1, <1>2, <1>4, <1>7, StoreAssumption, ZenonT(30) DEF NoRow, Overlaid, Live
    <2>2. Live(u)'
      BY <1>7, <2>1 DEF Live
    <2>3. Concluded(users[u], users'[u])
      BY <1>1, <1>2, <1>7, <2>1 DEF Concluded
    <2>4. /\ ~InHistory(req[s]) /\ ~InHistory(req'[s])
          /\ \A v \in Users : Behind(req[s], v) => v = u
      BY <1>1, <1>2, <1>7 DEF InHistory, Behind
    <2>5. users'[u].isEmailVerified =>
               \/ users[u].isEmailVerified \/ BothVerified(users[u])
               \/ AutoVerifyEmail \/ req[s].pc = "saveverify"
               \/ \E l \in opened' : l.u = u
      BY <1>1, <1>2, <1>7, <2>1, Zenon DEF LoginSave
    <2>6. \/ users'[u].emailVerificationToken \in {0, users[u].emailVerificationToken}
          \/ users'[u].emailVerificationToken = gen + 1 /\ gen < MaxTokens
      BY <1>1, <1>7, <2>1, AccountsAssumption DEF LoginSave, CanGenerate, Fresh
    <2> QED BY <1>2, <1>7, <2>2, <2>3, <2>4, <2>5, <2>6 DEF Edit
  <1>8. \/ UNCHANGED <<store, now, health>> /\ req'[s].pc \in {"idle", "duplicate"}
        \/ \E r :
              /\ u \in Users /\ Live(u) /\ r.id = u
              /\ Overlaid(r, w, users[u])
              /\ users'[u] = r /\ \A v \in Users \ {u} : users'[v] = users[v]
              /\ UNCHANGED <<nextId, idx, now, health>>
              /\ req'[s].pc = "sync" /\ req'[s].sd = r /\ req'[s].doc = r /\ req'[s].k = 1
              /\ req'[s].expected = expectedKeysForUser(r)
              /\ Behind(req'[s], u)
              /\ Recalls(req[s])'
    BY <1>1, <1>2, <1>4, <1>5, SyncSaves
  <1> QED BY <1>6, <1>7, <1>8

\* the renewal of a verification link,
LEMMA ResendVerificationSaveEdit ==
    ASSUME Inv, NEW s \in Slots, ResendVerificationSave(s), Recalls(req[s])
    PROVE  Calm(s) \/ Edit(s)
  <1>1. /\ req[s].pc = "reverifysave" /\ Current(req[s].doc)
        /\ req[s].doc.migrationHistory = users[req[s].doc.id].migrationHistory
    <2>1. req[s].pc = "reverifysave"
      BY DEF ResendVerificationSave
    <2>2. Current(req[s].doc)
      BY <2>1, Facts DEF Knows, Documents
    <2>3. req[s].doc.migrationHistory = users[req[s].doc.id].migrationHistory
      BY <2>1, <2>2 DEF Recalls, Remembering, Current, Users
    <2> QED BY <2>1, <2>2, <2>3
  <1>2. PICK u : u = req[s].doc.id
    OBVIOUS
  <1>3. PICK w : w = [emailVerificationToken |-> Fresh, emailVerificationExpires |-> now + TokenTtl,
                     migrationHistory |-> req[s].doc.migrationHistory]
    OBVIOUS
  <1>4. /\ DOMAIN w \subseteq DOMAIN NoRow \ {"id"}
        /\ "email" \notin DOMAIN w
        /\ "newEmailPending" \notin DOMAIN w
        /\ "currentEmailVerified" \notin DOMAIN w
        /\ "newEmailVerified" \notin DOMAIN w
        /\ "migrationHistory" \in DOMAIN w /\ w.migrationHistory = req[s].doc.migrationHistory
        /\ "isEmailVerified" \notin DOMAIN w
        /\ "emailVerificationToken" \in DOMAIN w /\ w.emailVerificationToken = Fresh
        /\ "migrationTokenExpires" \notin DOMAIN w
    BY <1>3 DEF NoRow, ++
  <1>5. PICK r, q : /\ u \in Users /\ Live(u) /\ r.id = u
                    /\ Overlaid(r, w, users[u])
                    /\ q = [pc |-> "mailverify", doc |-> r, sd |-> r] ++ req[s]
                    /\ Writes(s, r, q, "idle")
    <2>1. u \in Users /\ Live(u) /\ users[u] \in Row /\ users[u].id = u
      BY <1>1, <1>2, Facts DEF Current
    <2>2. PICK r : r = w ++ users[u]
      OBVIOUS
    <2>3. PICK q : q = [pc |-> "mailverify", doc |-> r, sd |-> r] ++ req[s]
      OBVIOUS
    <2>4. Writes(s, r, q, "idle")
      <3>1. Save(s, w, LAMBDA d : [pc |-> "mailverify", doc |-> d, sd |-> d], "idle")
        BY <1>3 DEF ResendVerificationSave
      <3> QED BY <1>2, <2>1, <2>2, <2>3, <3>1 DEF Save, Updated, Goto, Writes
    <2>5. Overlaid(r, w, users[u])
      BY <1>4, <2>1, <2>2, Merged DEF Overlaid
    <2>6. r.id = u
      BY <1>4, <2>1, <2>5 DEF NoRow, Overlaid
    <2> QED BY <2>1, <2>3, <2>4, <2>5, <2>6
  <1>6. ASSUME Duplicate(r) PROVE Calm(s)
    <2>1. GoOn(s, "idle", <<>>) /\ UNCHANGED <<store, now, health>>
      BY <1>5, <1>6 DEF Writes
    <2>2. IF "idle" = "idle" THEN Answer(s) ELSE Goto(s, [pc |-> "idle"])
      BY <2>1, GoOnTo
    <2>3. req'[s] = Idle \/ req'[s] = [pc |-> "idle"] ++ req[s]
      <3> HIDE DEF ++
      <3> QED BY <2>2, Goes
    <2>4. req'[s].pc \in {"idle", "duplicate"}
      BY <2>3, Goes DEF ++, Idle
    <2> QED BY <1>1, <2>1, <2>4 DEF Calm, Cool, Recalls, Remembering
  <1>7. ASSUME ~Duplicate(r) PROVE Edit(s)
    <2>1. /\ r.email # None
          /\ r.email = users[u].email
          /\ r.newEmailPending = users[u].newEmailPending
          /\ r.currentEmailVerified = users[u].currentEmailVerified
          /\ r.newEmailVerified = users[u].newEmailVerified
          /\ r.migrationHistory = users[u].migrationHistory
          /\ r.isEmailVerified = users[u].isEmailVerified
          /\ r.emailVerificationToken = Fresh
          /\ r.migrationTokenExpires = users[u].migrationTokenExpires
      BY <1>1, <1>2, <1>4, <1>5, StoreAssumption, Zenon DEF NoRow, Overlaid, Live
    <2>2. /\ req' = [req EXCEPT ![s] = q] /\ WriteRow(r)
          /\ DOMAIN req = Slots /\ DOMAIN users = Users /\ DOMAIN req[s] = DOMAIN Idle
      BY <1>5, <1>7, Goes DEF Writes, Inv, Types
    <2>3. /\ req'[s] = q /\ users'[u] = r
          /\ \A v \in Users \ {u} : users'[v] = users[v]
          /\ UNCHANGED <<nextId, idx, now, health>>
      BY <1>5, <2>2 DEF WriteRow
    <2>4. Live(u)'
      BY <1>5, <2>1, <2>3 DEF Live
    <2>5. q.pc = "mailverify" /\ q.doc = r
      BY <1>5, <2>2 DEF ++, Idle, Syncs, SyncFrom
    <2>6. Same(users[u], r)
      BY <1>1, <1>2, <2>1 DEF Same, BothVerified
    <2>7. Recalls(req[s])'
      BY <1>5, <2>1, <2>3, <2>5 DEF Recalls, Remembering, Idle, NoRow
    <2>8. users'[u].isEmailVerified => users[u].isEmailVerified \/ BothVerified(users[u])
      BY <1>1, <1>2, <2>1, <2>3
    <2>9. \/ users'[u].emailVerificationToken \in {0, users[u].emailVerificationToken}
          \/ users'[u].emailVerificationToken = gen + 1 /\ gen < MaxTokens
      BY <1>1, <2>1, <2>3 DEF ResendVerificationSave, CanGenerate, Fresh
    <2>10. /\ \A v \in Users : Behind(req[s], v) => v = u
           /\ \/ Behind(q, u)
              \/ users'[u].newEmailPending = None
              \/ /\ ~Behind(req[s], u)
                 /\ users'[u].newEmailPending = users[u].newEmailPending
                 /\ users'[u].migrationTokenExpires = users[u].migrationTokenExpires
      BY <1>1, <1>2, <1>5, <2>1, <2>3, <2>5 DEF Behind
    <2> QED BY <1>1, <1>2, <1>5, <2>3, <2>4, <2>5, <2>6, <2>7, <2>8, <2>9, <2>10, Zenon DEF Edit, InHistory
  <1> QED BY <1>6, <1>7

\* the profile of a finalised migration,
LEMMA FinaliseSaveBioEdit ==
    ASSUME Inv, NEW s \in Slots, FinaliseSaveBio(s), Recalls(req[s])
    PROVE  Calm(s) \/ Edit(s)
  <1>1. /\ req[s].pc = "savebio2" /\ Current(req[s].doc)
        /\ req[s].doc.migrationHistory = users[req[s].doc.id].migrationHistory
    <2>1. req[s].pc = "savebio2"
      BY DEF FinaliseSaveBio
    <2>2. Current(req[s].doc)
      BY <2>1, Facts DEF Knows, Documents
    <2>3. req[s].doc.migrationHistory = users[req[s].doc.id].migrationHistory
      BY <2>1, <2>2 DEF Recalls, Remembering, Current, Users
    <2> QED BY <2>1, <2>2, <2>3
  <1>2. PICK u : u = req[s].doc.id
    OBVIOUS
  <1>3. PICK w : w = [bio |-> req[s].keep.bio, migrationHistory |-> req[s].doc.migrationHistory]
    OBVIOUS
  <1>4. /\ DOMAIN w \subseteq DOMAIN NoRow \ {"id"}
        /\ "email" \notin DOMAIN w
        /\ "newEmailPending" \notin DOMAIN w
        /\ "currentEmailVerified" \notin DOMAIN w
        /\ "newEmailVerified" \notin DOMAIN w
        /\ "migrationHistory" \in DOMAIN w /\ w.migrationHistory = req[s].doc.migrationHistory
        /\ "isEmailVerified" \notin DOMAIN w
        /\ "emailVerificationToken" \notin DOMAIN w
        /\ "migrationTokenExpires" \notin DOMAIN w
    BY <1>3 DEF NoRow, ++
  <1>5. PICK r, q : /\ u \in Users /\ Live(u) /\ r.id = u
                    /\ Overlaid(r, w, users[u])
                    /\ q = Idle ++ req[s]
                    /\ Writes(s, r, q, "idle")
    <2>1. u \in Users /\ Live(u) /\ users[u] \in Row /\ users[u].id = u
      BY <1>1, <1>2, Facts DEF Current
    <2>2. PICK r : r = w ++ users[u]
      OBVIOUS
    <2>3. PICK q : q = Idle ++ req[s]
      OBVIOUS
    <2>4. Writes(s, r, q, "idle")
      <3>1. Save(s, w, LAMBDA d : Idle, "idle")
        BY <1>3 DEF FinaliseSaveBio
      <3> QED BY <1>2, <2>1, <2>2, <2>3, <3>1 DEF Save, Updated, Goto, Writes
    <2>5. Overlaid(r, w, users[u])
      BY <1>4, <2>1, <2>2, Merged DEF Overlaid
    <2>6. r.id = u
      BY <1>4, <2>1, <2>5 DEF NoRow, Overlaid
    <2> QED BY <2>1, <2>3, <2>4, <2>5, <2>6
  <1>6. ASSUME Duplicate(r) PROVE Calm(s)
    <2>1. GoOn(s, "idle", <<>>) /\ UNCHANGED <<store, now, health>>
      BY <1>5, <1>6 DEF Writes
    <2>2. IF "idle" = "idle" THEN Answer(s) ELSE Goto(s, [pc |-> "idle"])
      BY <2>1, GoOnTo
    <2>3. req'[s] = Idle \/ req'[s] = [pc |-> "idle"] ++ req[s]
      <3> HIDE DEF ++
      <3> QED BY <2>2, Goes
    <2>4. req'[s].pc \in {"idle", "duplicate"}
      BY <2>3, Goes DEF ++, Idle
    <2> QED BY <1>1, <2>1, <2>4 DEF Calm, Cool, Recalls, Remembering
  <1>7. ASSUME ~Duplicate(r) PROVE Edit(s)
    <2>1. /\ r.email # None
          /\ r.email = users[u].email
          /\ r.newEmailPending = users[u].newEmailPending
          /\ r.currentEmailVerified = users[u].currentEmailVerified
          /\ r.newEmailVerified = users[u].newEmailVerified
          /\ r.migrationHistory = users[u].migrationHistory
          /\ r.isEmailVerified = users[u].isEmailVerified
          /\ r.emailVerificationToken = users[u].emailVerificationToken
          /\ r.migrationTokenExpires = users[u].migrationTokenExpires
      BY <1>1, <1>2, <1>4, <1>5, StoreAssumption, Zenon DEF NoRow, Overlaid, Live
    <2>2. /\ req' = [req EXCEPT ![s] = q] /\ WriteRow(r)
          /\ DOMAIN req = Slots /\ DOMAIN users = Users /\ DOMAIN req[s] = DOMAIN Idle
      BY <1>5, <1>7, Goes DEF Writes, Inv, Types
    <2>3. /\ req'[s] = q /\ users'[u] = r
          /\ \A v \in Users \ {u} : users'[v] = users[v]
          /\ UNCHANGED <<nextId, idx, now, health>>
      BY <1>5, <2>2 DEF WriteRow
    <2>4. Live(u)'
      BY <1>5, <2>1, <2>3 DEF Live
    <2>5. q.pc = "idle"
      BY <1>5, <2>2 DEF ++, Idle, Syncs, SyncFrom
    <2>6. Same(users[u], r)
      BY <1>1, <1>2, <2>1 DEF Same, BothVerified
    <2>7. Recalls(req[s])'
      BY <1>5, <2>1, <2>3, <2>5, Zenon DEF Recalls, Remembering, Idle, NoRow
    <2>8. users'[u].isEmailVerified => users[u].isEmailVerified \/ BothVerified(users[u])
      BY <1>1, <1>2, <2>1, <2>3
    <2>9. \/ users'[u].emailVerificationToken \in {0, users[u].emailVerificationToken}
          \/ users'[u].emailVerificationToken = gen + 1 /\ gen < MaxTokens
      BY <1>1, <2>1, <2>3 DEF FinaliseSaveBio, CanGenerate, Fresh
    <2>10. /\ \A v \in Users : Behind(req[s], v) => v = u
           /\ \/ Behind(q, u)
              \/ users'[u].newEmailPending = None
              \/ /\ ~Behind(req[s], u)
                 /\ users'[u].newEmailPending = users[u].newEmailPending
                 /\ users'[u].migrationTokenExpires = users[u].migrationTokenExpires
      BY <1>1, <1>2, <1>5, <2>1, <2>3, <2>5 DEF Behind
    <2> QED BY <1>1, <1>2, <1>5, <2>3, <2>4, <2>5, <2>6, <2>7, <2>8, <2>9, <2>10, Zenon DEF Edit, InHistory
  <1> QED BY <1>6, <1>7

\* the cleanup of an account without a migration,
LEMMA CleanupSaveEdit ==
    ASSUME Inv, NEW s \in Slots, CleanupSave(s), Recalls(req[s])
    PROVE  Calm(s) \/ Edit(s)
  <1>1. /\ req[s].pc = "cleanup" /\ Current(req[s].doc)
        /\ req[s].doc.migrationHistory = users[req[s].doc.id].migrationHistory
    <2>1. req[s].pc = "cleanup"
      BY DEF CleanupSave
    <2>2. Current(req[s].doc)
      BY <2>1, Facts DEF Knows, Documents
    <2>3. req[s].doc.migrationHistory = users[req[s].doc.id].migrationHistory
      BY <2>1, <2>2 DEF Recalls, Remembering, Current, Users
    <2> QED BY <2>1, <2>2, <2>3
  <1>2. PICK u : u = req[s].doc.id
    OBVIOUS
  <1>3. PICK w : w = [previousEmail |-> None, migrationExpiry |-> 0,
                     migrationHistory |-> req[s].doc.migrationHistory]
    OBVIOUS
  <1>4. /\ DOMAIN w \subseteq DOMAIN NoRow \ {"id"}
        /\ "email" \notin DOMAIN w
        /\ "newEmailPending" \notin DOMAIN w
        /\ "currentEmailVerified" \notin DOMAIN w
        /\ "newEmailVerified" \notin DOMAIN w
        /\ "migrationHistory" \in DOMAIN w /\ w.migrationHistory = req[s].doc.migrationHistory
        /\ "isEmailVerified" \notin DOMAIN w
        /\ "emailVerificationToken" \notin DOMAIN w
        /\ "migrationTokenExpires" \notin DOMAIN w
    BY <1>3 DEF NoRow, ++
  <1>5. PICK r, q : /\ u \in Users /\ Live(u) /\ r.id = u
                    /\ Overlaid(r, w, users[u])
                    /\ q = Idle ++ req[s]
                    /\ Writes(s, r, q, "idle")
    <2>1. u \in Users /\ Live(u) /\ users[u] \in Row /\ users[u].id = u
      BY <1>1, <1>2, Facts DEF Current
    <2>2. PICK r : r = w ++ users[u]
      OBVIOUS
    <2>3. PICK q : q = Idle ++ req[s]
      OBVIOUS
    <2>4. Writes(s, r, q, "idle")
      <3>1. Save(s, w, LAMBDA d : Idle, "idle")
        BY <1>3 DEF CleanupSave
      <3> QED BY <1>2, <2>1, <2>2, <2>3, <3>1 DEF Save, Updated, Goto, Writes
    <2>5. Overlaid(r, w, users[u])
      BY <1>4, <2>1, <2>2, Merged DEF Overlaid
    <2>6. r.id = u
      BY <1>4, <2>1, <2>5 DEF NoRow, Overlaid
    <2> QED BY <2>1, <2>3, <2>4, <2>5, <2>6
  <1>6. ASSUME Duplicate(r) PROVE Calm(s)
    <2>1. GoOn(s, "idle", <<>>) /\ UNCHANGED <<store, now, health>>
      BY <1>5, <1>6 DEF Writes
    <2>2. IF "idle" = "idle" THEN Answer(s) ELSE Goto(s, [pc |-> "idle"])
      BY <2>1, GoOnTo
    <2>3. req'[s] = Idle \/ req'[s] = [pc |-> "idle"] ++ req[s]
      <3> HIDE DEF ++
      <3> QED BY <2>2, Goes
    <2>4. req'[s].pc \in {"idle", "duplicate"}
      BY <2>3, Goes DEF ++, Idle
    <2> QED BY <1>1, <2>1, <2>4 DEF Calm, Cool, Recalls, Remembering
  <1>7. ASSUME ~Duplicate(r) PROVE Edit(s)
    <2>1. /\ r.email # None
          /\ r.email = users[u].email
          /\ r.newEmailPending = users[u].newEmailPending
          /\ r.currentEmailVerified = users[u].currentEmailVerified
          /\ r.newEmailVerified = users[u].newEmailVerified
          /\ r.migrationHistory = users[u].migrationHistory
          /\ r.isEmailVerified = users[u].isEmailVerified
          /\ r.emailVerificationToken = users[u].emailVerificationToken
          /\ r.migrationTokenExpires = users[u].migrationTokenExpires
      BY <1>1, <1>2, <1>4, <1>5, StoreAssumption, Zenon DEF NoRow, Overlaid, Live
    <2>2. /\ req' = [req EXCEPT ![s] = q] /\ WriteRow(r)
          /\ DOMAIN req = Slots /\ DOMAIN users = Users /\ DOMAIN req[s] = DOMAIN Idle
      BY <1>5, <1>7, Goes DEF Writes, Inv, Types
    <2>3. /\ req'[s] = q /\ users'[u] = r
          /\ \A v \in Users \ {u} : users'[v] = users[v]
          /\ UNCHANGED <<nextId, idx, now, health>>
      BY <1>5, <2>2 DEF WriteRow
    <2>4. Live(u)'
      BY <1>5, <2>1, <2>3 DEF Live
    <2>5. q.pc = "idle"
      BY <1>5, <2>2 DEF ++, Idle, Syncs, SyncFrom
    <2>6. Same(users[u], r)
      BY <1>1, <1>2, <2>1 DEF Same, BothVerified
    <2>7. Recalls(req[s])'
      BY <1>5, <2>1, <2>3, <2>5 DEF Recalls, Remembering, Idle, NoRow
    <2>8. users'[u].isEmailVerified => users[u].isEmailVerified \/ BothVerified(users[u])
      BY <1>1, <1>2, <2>1, <2>3
    <2>9. \/ users'[u].emailVerificationToken \in {0, users[u].emailVerificationToken}
          \/ users'[u].emailVerificationToken = gen + 1 /\ gen < MaxTokens
      BY <1>1, <2>1, <2>3 DEF CleanupSave, CanGenerate, Fresh
    <2>10. /\ \A v \in Users : Behind(req[s], v) => v = u
           /\ \/ Behind(q, u)
              \/ users'[u].newEmailPending = None
              \/ /\ ~Behind(req[s], u)
                 /\ users'[u].newEmailPending = users[u].newEmailPending
                 /\ users'[u].migrationTokenExpires = users[u].migrationTokenExpires
      BY <1>1, <1>2, <1>5, <2>1, <2>3, <2>5 DEF Behind
    <2> QED BY <1>1, <1>2, <1>5, <2>3, <2>4, <2>5, <2>6, <2>7, <2>8, <2>9, <2>10, Zenon DEF Edit, InHistory
  <1> QED BY <1>6, <1>7

\* updateBio,
LEMMA UpdateBioSaveEdit ==
    ASSUME Inv, NEW s \in Slots, UpdateBioSave(s), Recalls(req[s])
    PROVE  Calm(s) \/ Edit(s)
  <1>1. /\ req[s].pc = "savebio" /\ Current(req[s].doc)
        /\ req[s].doc.migrationHistory = users[req[s].doc.id].migrationHistory
    <2>1. req[s].pc = "savebio"
      BY DEF UpdateBioSave
    <2>2. Current(req[s].doc)
      BY <2>1, Facts DEF Knows, Documents
    <2>3. req[s].doc.migrationHistory = users[req[s].doc.id].migrationHistory
      BY <2>1, <2>2 DEF Recalls, Remembering, Current, Users
    <2> QED BY <2>1, <2>2, <2>3
  <1>2. PICK u : u = req[s].doc.id
    OBVIOUS
  <1>2a. PICK b \in {"old", "new"} :
           Save(s, [bio |-> b, migrationHistory |-> req[s].doc.migrationHistory], LAMBDA d : Idle, "idle")
    BY DEF UpdateBioSave
  <1>3. PICK w : w = [bio |-> b, migrationHistory |-> req[s].doc.migrationHistory]
    OBVIOUS
  <1>4. /\ DOMAIN w \subseteq DOMAIN NoRow \ {"id"}
        /\ "email" \notin DOMAIN w
        /\ "newEmailPending" \notin DOMAIN w
        /\ "currentEmailVerified" \notin DOMAIN w
        /\ "newEmailVerified" \notin DOMAIN w
        /\ "migrationHistory" \in DOMAIN w /\ w.migrationHistory = req[s].doc.migrationHistory
        /\ "isEmailVerified" \notin DOMAIN w
        /\ "emailVerificationToken" \notin DOMAIN w
        /\ "migrationTokenExpires" \notin DOMAIN w
    BY <1>3 DEF NoRow, ++
  <1>5. PICK r, q : /\ u \in Users /\ Live(u) /\ r.id = u
                    /\ Overlaid(r, w, users[u])
                    /\ q = Idle ++ req[s]
                    /\ Writes(s, r, q, "idle")
    <2>1. u \in Users /\ Live(u) /\ users[u] \in Row /\ users[u].id = u
      BY <1>1, <1>2, Facts DEF Current
    <2>2. PICK r : r = w ++ users[u]
      OBVIOUS
    <2>3. PICK q : q = Idle ++ req[s]
      OBVIOUS
    <2>4. Writes(s, r, q, "idle")
      <3>1. Save(s, w, LAMBDA d : Idle, "idle")
        BY <1>2a, <1>3
      <3> QED BY <1>2, <2>1, <2>2, <2>3, <3>1 DEF Save, Updated, Goto, Writes
    <2>5. Overlaid(r, w, users[u])
      BY <1>4, <2>1, <2>2, Merged DEF Overlaid
    <2>6. r.id = u
      BY <1>4, <2>1, <2>5 DEF NoRow, Overlaid
    <2> QED BY <2>1, <2>3, <2>4, <2>5, <2>6
  <1>6. ASSUME Duplicate(r) PROVE Calm(s)
    <2>1. GoOn(s, "idle", <<>>) /\ UNCHANGED <<store, now, health>>
      BY <1>5, <1>6 DEF Writes
    <2>2. IF "idle" = "idle" THEN Answer(s) ELSE Goto(s, [pc |-> "idle"])
      BY <2>1, GoOnTo
    <2>3. req'[s] = Idle \/ req'[s] = [pc |-> "idle"] ++ req[s]
      <3> HIDE DEF ++
      <3> QED BY <2>2, Goes
    <2>4. req'[s].pc \in {"idle", "duplicate"}
      BY <2>3, Goes DEF ++, Idle
    <2> QED BY <1>1, <2>1, <2>4 DEF Calm, Cool, Recalls, Remembering
  <1>7. ASSUME ~Duplicate(r) PROVE Edit(s)
    <2>1. /\ r.email # None
          /\ r.email = users[u].email
          /\ r.newEmailPending = users[u].newEmailPending
          /\ r.currentEmailVerified = users[u].currentEmailVerified
          /\ r.newEmailVerified = users[u].newEmailVerified
          /\ r.migrationHistory = users[u].migrationHistory
          /\ r.isEmailVerified = users[u].isEmailVerified
          /\ r.emailVerificationToken = users[u].emailVerificationToken
          /\ r.migrationTokenExpires = users[u].migrationTokenExpires
      BY <1>1, <1>2, <1>4, <1>5, StoreAssumption, Zenon DEF NoRow, Overlaid, Live
    <2>2. /\ req' = [req EXCEPT ![s] = q] /\ WriteRow(r)
          /\ DOMAIN req = Slots /\ DOMAIN users = Users /\ DOMAIN req[s] = DOMAIN Idle
      BY <1>5, <1>7, Goes DEF Writes, Inv, Types
    <2>3. /\ req'[s] = q /\ users'[u] = r
          /\ \A v \in Users \ {u} : users'[v] = users[v]
          /\ UNCHANGED <<nextId, idx, now, health>>
      BY <1>5, <2>2 DEF WriteRow
    <2>4. Live(u)'
      BY <1>5, <2>1, <2>3 DEF Live
    <2>5. q.pc = "idle"
      BY <1>5, <2>2 DEF ++, Idle, Syncs, SyncFrom
    <2>6. Same(users[u], r)
      BY <1>1, <1>2, <2>1 DEF Same, BothVerified
    <2>7. Recalls(req[s])'
      BY <1>5, <2>1, <2>3, <2>5, Zenon DEF Recalls, Remembering, Idle, NoRow
    <2>8. users'[u].isEmailVerified => users[u].isEmailVerified \/ BothVerified(users[u])
      BY <1>1, <1>2, <2>1, <2>3
    <2>9. \/ users'[u].emailVerificationToken \in {0, users[u].emailVerificationToken}
          \/ users'[u].emailVerificationToken = gen + 1 /\ gen < MaxTokens
      BY <1>1, <2>1, <2>3 DEF UpdateBioSave, CanGenerate, Fresh
    <2>10. /\ \A v \in Users : Behind(req[s], v) => v = u
           /\ \/ Behind(q, u)
              \/ users'[u].newEmailPending = None
              \/ /\ ~Behind(req[s], u)
                 /\ users'[u].newEmailPending = users[u].newEmailPending
                 /\ users'[u].migrationTokenExpires = users[u].migrationTokenExpires
      BY <1>1, <1>2, <1>5, <2>1, <2>3, <2>5 DEF Behind
    <2> QED BY <1>1, <1>2, <1>5, <2>3, <2>4, <2>5, <2>6, <2>7, <2>8, <2>9, <2>10, Zenon DEF Edit, InHistory
  <1> QED BY <1>6, <1>7

\* the flag of a migration link (verifyCurrentEmail, verifyNewEmail),
LEMMA VerifyMigrationSaveEdit ==
    ASSUME Inv, NEW s \in Slots, VerifyMigrationSave(s), Recalls(req[s])
    PROVE  Calm(s) \/ Edit(s)
  <1>1. /\ req[s].pc = "saveverified" /\ Current(req[s].doc)
        /\ req[s].doc.migrationHistory = users[req[s].doc.id].migrationHistory
        /\ users[req[s].doc.id].newEmailPending # None
    <2>1. req[s].pc = "saveverified"
      BY DEF VerifyMigrationSave
    <2>2. Current(req[s].doc)
      BY <2>1, Facts DEF Knows, Documents
    <2>3. req[s].doc.migrationHistory = users[req[s].doc.id].migrationHistory
      BY <2>1, <2>2 DEF Recalls, Remembering, Current, Users
    <2>4. users[req[s].doc.id].newEmailPending # None
      BY <2>1, Facts DEF Knows, Migrating
    <2> QED BY <2>1, <2>2, <2>3, <2>4
  <1>2. PICK u : u = req[s].doc.id
    OBVIOUS
  <1>3. PICK w : w = (IF req[s].op = "new" THEN [newEmailVerified |-> TRUE]
                      ELSE [currentEmailVerified |-> TRUE])
                     ++ [migrationHistory |-> req[s].doc.migrationHistory]
    OBVIOUS
  <1>4. /\ DOMAIN w \subseteq DOMAIN NoRow \ {"id"}
        /\ "email" \notin DOMAIN w
        /\ "isEmailVerified" \notin DOMAIN w
        /\ "emailVerificationToken" \notin DOMAIN w
        /\ "migrationTokenExpires" \notin DOMAIN w
        /\ "newEmailPending" \notin DOMAIN w
        /\ "migrationHistory" \in DOMAIN w /\ w.migrationHistory = req[s].doc.migrationHistory
        /\ req[s].op = "new" => /\ "newEmailVerified" \in DOMAIN w /\ w.newEmailVerified = TRUE
                                /\ "currentEmailVerified" \notin DOMAIN w
        /\ req[s].op # "new" => /\ "currentEmailVerified" \in DOMAIN w /\ w.currentEmailVerified = TRUE
                                /\ "newEmailVerified" \notin DOMAIN w
    BY <1>3 DEF NoRow, ++
  <1>5. PICK r, q : /\ u \in Users /\ Live(u) /\ r.id = u
                    /\ Overlaid(r, w, users[u])
                    /\ q = [pc |-> "readhistory", doc |-> r] ++ req[s]
                    /\ Writes(s, r, q, "idle")
    <2>1. u \in Users /\ Live(u) /\ users[u] \in Row /\ users[u].id = u
      BY <1>1, <1>2, Facts DEF Current
    <2>2. PICK r : r = w ++ users[u]
      OBVIOUS
    <2>3. PICK q : q = [pc |-> "readhistory", doc |-> r] ++ req[s]
      OBVIOUS
    <2>4. Writes(s, r, q, "idle")
      BY <1>2, <1>3, <2>1, <2>2, <2>3 DEF VerifyMigrationSave, Save, Updated, Goto, Writes
    <2>5. Overlaid(r, w, users[u])
      BY <1>4, <2>1, <2>2, Merged DEF Overlaid
    <2>6. r.id = u
      BY <1>4, <2>1, <2>5 DEF NoRow, Overlaid
    <2> QED BY <2>1, <2>3, <2>4, <2>5, <2>6
  <1>6. ASSUME Duplicate(r) PROVE Calm(s)
    <2>1. GoOn(s, "idle", <<>>) /\ UNCHANGED <<store, now, health>>
      BY <1>5, <1>6 DEF Writes
    <2>2. IF "idle" = "idle" THEN Answer(s) ELSE Goto(s, [pc |-> "idle"])
      BY <2>1, GoOnTo
    <2>3. req'[s] = Idle \/ req'[s] = [pc |-> "idle"] ++ req[s]
      <3> HIDE DEF ++
      <3> QED BY <2>2, Goes
    <2>4. req'[s].pc \in {"idle", "duplicate"}
      BY <2>3, Goes DEF ++, Idle
    <2> QED BY <1>1, <2>1, <2>4 DEF Calm, Cool, Recalls, Remembering
  <1>7. ASSUME ~Duplicate(r) PROVE Edit(s)
    <2>1. /\ r.email # None
          /\ r.currentEmailVerified = (IF req[s].op = "new" THEN users[u].currentEmailVerified ELSE TRUE)
          /\ r.newEmailVerified = (IF req[s].op = "new" THEN TRUE ELSE users[u].newEmailVerified)
          /\ r.email = users[u].email
          /\ r.isEmailVerified = users[u].isEmailVerified
          /\ r.emailVerificationToken = users[u].emailVerificationToken
          /\ r.migrationTokenExpires = users[u].migrationTokenExpires
          /\ r.newEmailPending = users[u].newEmailPending
          /\ r.migrationHistory = users[u].migrationHistory
      BY <1>1, <1>2, <1>4, <1>5, StoreAssumption, ZenonT(60) DEF NoRow, Overlaid, Live
    <2>2. /\ req' = [req EXCEPT ![s] = q] /\ WriteRow(r)
          /\ DOMAIN req = Slots /\ DOMAIN users = Users /\ DOMAIN req[s] = DOMAIN Idle
      BY <1>5, <1>7, Goes DEF Writes, Inv, Types
    <2>3. /\ req'[s] = q /\ users'[u] = r
          /\ \A v \in Users \ {u} : users'[v] = users[v]
          /\ UNCHANGED <<nextId, idx, now, health>>
      BY <1>5, <2>2 DEF WriteRow
    <2>4. Live(u)'
      BY <1>5, <2>1, <2>3 DEF Live
    <2>5. q.pc = "readhistory" /\ q.doc = r /\ q.op = req[s].op
      BY <1>5, <2>2 DEF ++, Idle, Syncs, SyncFrom
    <2>6. Flagged(users[u], r, req[s].op)
      BY <1>1, <1>2, <2>1 DEF Flagged, BothVerified
    <2>7. Recalls(req[s])'
      BY <1>5, <2>1, <2>3, <2>5 DEF Recalls, Remembering, Idle, NoRow
    <2>8. users'[u].isEmailVerified => users[u].isEmailVerified \/ BothVerified(users[u])
      BY <1>1, <1>2, <2>1, <2>3
    <2>9. \/ users'[u].emailVerificationToken \in {0, users[u].emailVerificationToken}
          \/ users'[u].emailVerificationToken = gen + 1 /\ gen < MaxTokens
      BY <1>1, <2>1, <2>3 DEF VerifyMigrationSave, CanGenerate, Fresh
    <2>10. /\ \A v \in Users : Behind(req[s], v) => v = u
           /\ \/ Behind(q, u)
              \/ users'[u].newEmailPending = None
              \/ /\ ~Behind(req[s], u)
                 /\ users'[u].newEmailPending = users[u].newEmailPending
                 /\ users'[u].migrationTokenExpires = users[u].migrationTokenExpires
      BY <1>1, <1>2, <1>5, <2>1, <2>3, <2>5 DEF Behind
    <2> QED BY <1>1, <1>2, <1>5, <2>3, <2>4, <2>5, <2>6, <2>7, <2>8, <2>9, <2>10, ZenonT(30) DEF Edit, InHistory
  <1> QED BY <1>6, <1>7

\* the note of it in the history,
LEMMA VerifyHistorySaveEdit ==
    ASSUME Inv, NEW s \in Slots, VerifyHistorySave(s), Recalls(req[s])
    PROVE  Calm(s) \/ Edit(s)
  <1>1. /\ req[s].pc = "savehistory" /\ Current(req[s].doc)
        /\ req[s].keep.migrationHistory = users[req[s].doc.id].migrationHistory
        /\ req[s].keep.migrationHistory # <<>>
    <2>1. req[s].pc = "savehistory"
      BY DEF VerifyHistorySave
    <2>2. Current(req[s].doc)
      BY <2>1, Facts DEF Knows, Documents
    <2>3. req[s].keep.migrationHistory = users[req[s].doc.id].migrationHistory
      BY <2>1, <2>2 DEF Recalls, Remembering, Current, Users
    <2>4. req[s].keep.migrationHistory # <<>>
      BY <2>1, Facts DEF Knows, Documents
    <2> QED BY <2>1, <2>2, <2>3, <2>4
  <1>2. PICK u : u = req[s].doc.id
    OBVIOUS
  <1>2a. PICK g : g = LET h == req[s].keep.migrationHistory
                          m == IF req[s].op = "new" THEN [h[Len(h)] EXCEPT !.new = TRUE]
                               ELSE [h[Len(h)] EXCEPT !.cur = TRUE]
                      IN  [h EXCEPT ![Len(h)] = m]
    OBVIOUS
  <1>3. PICK w : w = [migrationHistory |-> g]
    OBVIOUS
  <1>4. /\ DOMAIN w \subseteq DOMAIN NoRow \ {"id"}
        /\ "email" \notin DOMAIN w
        /\ "newEmailPending" \notin DOMAIN w
        /\ "currentEmailVerified" \notin DOMAIN w
        /\ "newEmailVerified" \notin DOMAIN w
        /\ "migrationHistory" \in DOMAIN w /\ w.migrationHistory = g
        /\ "isEmailVerified" \notin DOMAIN w
        /\ "emailVerificationToken" \notin DOMAIN w
        /\ "migrationTokenExpires" \notin DOMAIN w
    BY <1>3 DEF NoRow, ++
  <1>4a. "provider" \notin DOMAIN w
    BY <1>3
  <1>5. PICK r, q : /\ u \in Users /\ Live(u) /\ r.id = u
                    /\ Overlaid(r, w, users[u])
                    /\ q = [pc |-> "bothverified"] ++ req[s]
                    /\ Writes(s, r, q, "idle")
    <2>1. u \in Users /\ Live(u) /\ users[u] \in Row /\ users[u].id = u
      BY <1>1, <1>2, Facts DEF Current
    <2>2. PICK r : r = w ++ users[u]
      OBVIOUS
    <2>3. PICK q : q = [pc |-> "bothverified"] ++ req[s]
      OBVIOUS
    <2>4. Writes(s, r, q, "idle")
      <3>1. Save(s, w, LAMBDA d : [pc |-> "bothverified"], "idle")
        BY <1>2a, <1>3 DEF VerifyHistorySave, Last
      <3> QED BY <1>2, <2>1, <2>2, <2>3, <3>1 DEF Save, Updated, Goto, Writes
    <2>5. Overlaid(r, w, users[u])
      BY <1>4, <2>1, <2>2, Merged DEF Overlaid
    <2>6. r.id = u
      BY <1>4, <2>1, <2>5 DEF NoRow, Overlaid
    <2> QED BY <2>1, <2>3, <2>4, <2>5, <2>6
  <1>6. ~Duplicate(r)
    <2>1. r.email = users[u].email /\ (r.provider = users[u].provider \/ r.provider = Local)
      BY <1>1, <1>2, <1>4, <1>4a, <1>5 DEF NoRow, Overlaid
    <2> QED BY <1>5, <2>1, NotDuplicate
  <1>7. ASSUME ~Duplicate(r) PROVE Edit(s)
    <2>1. /\ r.email # None
          /\ r.email = users[u].email
          /\ r.newEmailPending = users[u].newEmailPending
          /\ r.currentEmailVerified = users[u].currentEmailVerified
          /\ r.newEmailVerified = users[u].newEmailVerified
          /\ r.migrationHistory = g
          /\ r.isEmailVerified = users[u].isEmailVerified
          /\ r.emailVerificationToken = users[u].emailVerificationToken
          /\ r.migrationTokenExpires = users[u].migrationTokenExpires
      BY <1>1, <1>2, <1>4, <1>5, StoreAssumption, Zenon DEF NoRow, Overlaid, Live
    <2>2. /\ req' = [req EXCEPT ![s] = q] /\ WriteRow(r)
          /\ DOMAIN req = Slots /\ DOMAIN users = Users /\ DOMAIN req[s] = DOMAIN Idle
      BY <1>5, <1>7, Goes DEF Writes, Inv, Types
    <2>3. /\ req'[s] = q /\ users'[u] = r
          /\ \A v \in Users \ {u} : users'[v] = users[v]
          /\ UNCHANGED <<nextId, idx, now, health>>
      BY <1>5, <2>2 DEF WriteRow
    <2>4. Live(u)'
      BY <1>5, <2>1, <2>3 DEF Live
    <2>5. q.pc = "bothverified" /\ q.doc = req[s].doc
      BY <1>5, <2>2 DEF ++, Idle, Syncs, SyncFrom
    <2>6. Noted(users[u], r, req[s].op)
      BY <1>1, <1>2, <2>1 , <1>2a, Zenon DEF Noted
    <2>7. Recalls(req[s])'
      BY <1>5, <2>1, <2>3, <2>5 DEF Recalls, Remembering, Idle, NoRow
    <2>8. users'[u].isEmailVerified => users[u].isEmailVerified \/ BothVerified(users[u])
      BY <1>1, <1>2, <2>1, <2>3
    <2>9. \/ users'[u].emailVerificationToken \in {0, users[u].emailVerificationToken}
          \/ users'[u].emailVerificationToken = gen + 1 /\ gen < MaxTokens
      BY <1>1, <2>1, <2>3 DEF VerifyHistorySave, CanGenerate, Fresh
    <2>10. /\ \A v \in Users : Behind(req[s], v) => v = u
           /\ \/ Behind(q, u)
              \/ users'[u].newEmailPending = None
              \/ /\ ~Behind(req[s], u)
                 /\ users'[u].newEmailPending = users[u].newEmailPending
                 /\ users'[u].migrationTokenExpires = users[u].migrationTokenExpires
      BY <1>1, <1>2, <1>5, <2>1, <2>3, <2>5 DEF Behind
    <2> QED BY <1>1, <1>2, <1>5, <2>3, <2>4, <2>5, <2>6, <2>7, <2>8, <2>9, <2>10, Zenon DEF Edit, InHistory
  <1> QED BY <1>6, <1>7

\* the guarded update of finalizeMigrationInternal, where it moves the account,
LEMMA FinaliseUpdateMoves ==
    ASSUME Inv, NEW s \in Slots, FinaliseUpdate(s), Recalls(req[s]), users[req[s].doc.id].tokenVersion = req[s].doc.tokenVersion
    PROVE  Calm(s) \/ Edit(s)
  <1>1. /\ req[s].pc = "finupdate" /\ Current(req[s].doc)
        /\ BothVerified(users[req[s].doc.id])
        /\ req[s].e \in Emails
    <2>1. req[s].pc = "finupdate"
      BY DEF FinaliseUpdate
    <2>2. Current(req[s].doc)
      BY <2>1, Facts, Zenon DEF Knows, Documents
    <2>4. BothVerified(users[req[s].doc.id])
      BY <2>1, Facts DEF Knows, Migrating
    <2>5. req[s].e \in Emails
      BY <2>1, Facts, Zenon DEF Knows, Documents
    <2> QED BY <2>1, <2>2, <2>4, <2>5
  <1>2. PICK u : u = req[s].doc.id
    OBVIOUS
  <1>3. PICK w : w = Moved(req[s].doc, req[s].e) ++ [migrationTokenExpires |-> 0,
                                     tokenVersion |-> req[s].doc.tokenVersion + 1]
    OBVIOUS
  <1>4. /\ DOMAIN w \subseteq DOMAIN NoRow \ {"id"}
        /\ "email" \in DOMAIN w /\ w.email = req[s].e
        /\ "newEmailPending" \in DOMAIN w /\ w.newEmailPending = None
        /\ "isEmailVerified" \in DOMAIN w /\ w.isEmailVerified = TRUE
        /\ "migrationHistory" \notin DOMAIN w
        /\ "emailVerificationToken" \notin DOMAIN w
    BY <1>3 DEF NoRow, ++, Moved
  <1>5. PICK r, q : /\ u \in Users /\ Live(u) /\ r.id = u
                    /\ Overlaid(r, w, users[u])
                    /\ q = [pc |-> "finprofile", doc |-> r] ++ req[s]
                    /\ Writes(s, r, q, "duplicate")
    <2>1. u \in Users /\ Live(u) /\ users[u] \in Row /\ users[u].id = u
      BY <1>1, <1>2, Facts DEF Current
    <2>2. PICK r : r = w ++ users[u]
      OBVIOUS
    <2>3. PICK q : q = [pc |-> "finprofile", doc |-> r] ++ req[s]
      OBVIOUS
    <2>4. Writes(s, r, q, "duplicate")
      <3>1. r = (Moved(req[s].doc, req[s].e) ++ [migrationTokenExpires |-> 0,
                      tokenVersion |-> req[s].doc.tokenVersion + 1]) ++ users[req[s].doc.id]
        BY <1>2, <1>3, <2>2
      <3>2. ([pc |-> "duplicate"] ++ <<>>) = [pc |-> "duplicate"]
        BY DEF ++
      <3>3. IF Duplicate(r)
            THEN Goto(s, [pc |-> "duplicate"]) /\ UNCHANGED <<store, now, health, movedAt>>
            ELSE Goto(s, [pc |-> "finprofile", doc |-> r]) /\ WriteRow(r)
        BY <1>2, <2>1, <3>1 DEF FinaliseUpdate
      <3> QED BY <2>3, <3>2, <3>3 DEF Goto, GoOn, Writes
    <2>5. Overlaid(r, w, users[u])
      BY <1>4, <2>1, <2>2, Merged DEF Overlaid
    <2>6. r.id = u
      BY <1>4, <2>1, <2>5 DEF NoRow, Overlaid
    <2> QED BY <2>1, <2>3, <2>4, <2>5, <2>6
  <1>6. ASSUME Duplicate(r) PROVE Calm(s)
    <2>1. GoOn(s, "duplicate", <<>>) /\ UNCHANGED <<store, now, health>>
      BY <1>5, <1>6 DEF Writes
    <2>2. IF "duplicate" = "idle" THEN Answer(s) ELSE Goto(s, [pc |-> "duplicate"])
      BY <2>1, GoOnTo
    <2>3. req'[s] = Idle \/ req'[s] = [pc |-> "duplicate"] ++ req[s]
      <3> HIDE DEF ++
      <3> QED BY <2>2, Goes
    <2>4. req'[s].pc \in {"idle", "duplicate"}
      BY <2>3, Goes DEF ++, Idle
    <2> QED BY <1>1, <2>1, <2>4 DEF Calm, Cool, Recalls, Remembering
  <1>7. ASSUME ~Duplicate(r) PROVE Edit(s)
    <2>1. /\ r.email # None
          /\ r.email = req[s].e
          /\ r.newEmailPending = None /\ r.isEmailVerified = TRUE
          /\ r.migrationHistory = users[u].migrationHistory
          /\ r.emailVerificationToken = users[u].emailVerificationToken
      BY <1>1, <1>2, <1>4, <1>5, StoreAssumption DEF NoRow, Overlaid, Live
    <2>2. /\ req' = [req EXCEPT ![s] = q] /\ WriteRow(r)
          /\ DOMAIN req = Slots /\ DOMAIN users = Users /\ DOMAIN req[s] = DOMAIN Idle
      BY <1>5, <1>7, Goes DEF Writes, Inv, Types
    <2>3. /\ req'[s] = q /\ users'[u] = r
          /\ \A v \in Users \ {u} : users'[v] = users[v]
          /\ UNCHANGED <<nextId, idx, now, health>>
      BY <1>5, <2>2 DEF WriteRow
    <2>4. Live(u)'
      BY <1>5, <2>1, <2>3 DEF Live
    <2>5. q.pc = "finprofile" /\ q.doc = r
      BY <1>5, <2>2 DEF ++, Idle, Syncs, SyncFrom
    <2>6. Concluded(users[u], r)
      BY <1>1, <1>2, <2>1 DEF Concluded, BothVerified
    <2>7. Recalls(req[s])'
      BY <1>5, <2>1, <2>3, <2>5 DEF Recalls, Remembering, Idle, NoRow
    <2>8. users'[u].isEmailVerified => users[u].isEmailVerified \/ BothVerified(users[u])
      BY <1>1, <1>2, <2>1, <2>3
    <2>9. \/ users'[u].emailVerificationToken \in {0, users[u].emailVerificationToken}
          \/ users'[u].emailVerificationToken = gen + 1 /\ gen < MaxTokens
      BY <1>1, <2>1, <2>3 DEF FinaliseUpdate, CanGenerate, Fresh
    <2>10. /\ \A v \in Users : Behind(req[s], v) => v = u
           /\ \/ Behind(q, u)
              \/ users'[u].newEmailPending = None
              \/ /\ ~Behind(req[s], u)
                 /\ users'[u].newEmailPending = users[u].newEmailPending
                 /\ users'[u].migrationTokenExpires = users[u].migrationTokenExpires
      BY <1>1, <1>2, <1>5, <2>1, <2>3, <2>5 DEF Behind
    <2> QED BY <1>1, <1>2, <1>5, <2>3, <2>4, <2>5, <2>6, <2>7, <2>8, <2>9, <2>10, Zenon DEF Edit, InHistory
  <1> QED BY <1>6, <1>7

\* the profile of the finalised account, where the account has it already,
LEMMA FinaliseProfileSameEdit ==
    ASSUME Inv, NEW s \in Slots, FinaliseProfile(s), Recalls(req[s]), req[s].x = req[s].doc.id
    PROVE  Calm(s) \/ Edit(s)
  <1>1. /\ req[s].pc = "finprofile" /\ Current(req[s].doc)
        /\ req[s].doc.migrationHistory = users[req[s].doc.id].migrationHistory
        /\ users[req[s].doc.id].newEmailPending = None /\ users[req[s].doc.id].isEmailVerified
        /\ req[s].keep.provider = users[req[s].doc.id].provider
        /\ req[s].e \in Emails
    <2>1. req[s].pc = "finprofile"
      BY DEF FinaliseProfile
    <2>2. Current(req[s].doc)
      BY <2>1, Facts DEF Knows, Documents
    <2>3. req[s].doc.migrationHistory = users[req[s].doc.id].migrationHistory
      BY <2>1, <2>2 DEF Recalls, Remembering, Current, Users
    <2>4. users[req[s].doc.id].newEmailPending = None /\ users[req[s].doc.id].isEmailVerified
      BY <2>1, <2>2 DEF Recalls, Current, Users
    <2>5. req[s].keep.provider = users[req[s].doc.id].provider
      BY <2>1, <2>2, Facts, Zenon DEF Knows, Documents, Current
    <2>6. req[s].e \in Emails
      BY <2>1, Facts DEF Knows, Documents
    <2> QED BY <2>1, <2>2, <2>3, <2>4, <2>5, <2>6
  <1>2. PICK u : u = req[s].doc.id
    OBVIOUS
  <1>3. PICK w : w = [migrationHistory |-> MarkSuccess(req[s].doc.migrationHistory, req[s].e)]
    OBVIOUS
  <1>4. /\ DOMAIN w \subseteq DOMAIN NoRow \ {"id"}
        /\ "email" \notin DOMAIN w
        /\ "newEmailPending" \notin DOMAIN w
        /\ "currentEmailVerified" \notin DOMAIN w
        /\ "newEmailVerified" \notin DOMAIN w
        /\ "migrationHistory" \in DOMAIN w /\ w.migrationHistory = MarkSuccess(req[s].doc.migrationHistory, req[s].e)
        /\ "isEmailVerified" \notin DOMAIN w
        /\ "emailVerificationToken" \notin DOMAIN w
    BY <1>3 DEF NoRow, ++
  <1>4a. "provider" \notin DOMAIN w
    BY <1>3
  <1>5. PICK r, q : /\ u \in Users /\ Live(u) /\ r.id = u
                    /\ Overlaid(r, w, users[u])
                    /\ Syncs(q, r, "idle", req[s])
                    /\ Writes(s, r, q, "duplicate")
    <2>1. SaveAndSync(s, w, "idle", "duplicate")
      BY <1>1, <1>3 DEF FinaliseProfile
    <2> QED BY <1>1, <1>2, <1>4, <2>1, SaveStep
  <1>6. ~Duplicate(r)
    <2>1. r.email = users[u].email /\ (r.provider = users[u].provider \/ r.provider = Local)
      BY <1>1, <1>2, <1>4, <1>4a, <1>5 DEF NoRow, Overlaid
    <2> QED BY <1>5, <2>1, NotDuplicate
  <1>7. ASSUME ~Duplicate(r) PROVE Edit(s)
    <2>1. /\ r.email # None
          /\ r.email = users[u].email
          /\ r.newEmailPending = users[u].newEmailPending
          /\ r.currentEmailVerified = users[u].currentEmailVerified
          /\ r.newEmailVerified = users[u].newEmailVerified
          /\ r.migrationHistory = MarkSuccess(users[u].migrationHistory, req[s].e)
          /\ r.isEmailVerified = users[u].isEmailVerified
          /\ r.emailVerificationToken = users[u].emailVerificationToken
      <3>1. /\ \A f \in DOMAIN w : r[f] = w[f]
            /\ \A f \in DOMAIN NoRow \ DOMAIN w : r[f] = users[u][f]
        BY <1>4, <1>5 DEF Overlaid
      <3>2. {"email", "newEmailPending", "currentEmailVerified", "newEmailVerified",
             "isEmailVerified", "emailVerificationToken"} \subseteq DOMAIN NoRow
        BY DEF NoRow
      <3> QED BY <1>1, <1>2, <1>4, <1>5, <3>1, <3>2, Zenon DEF Live
    <2>2. /\ req' = [req EXCEPT ![s] = q] /\ WriteRow(r)
          /\ DOMAIN req = Slots /\ DOMAIN users = Users /\ DOMAIN req[s] = DOMAIN Idle
      BY <1>5, <1>7, Goes DEF Writes, Inv, Types
    <2>3. /\ req'[s] = q /\ users'[u] = r
          /\ \A v \in Users \ {u} : users'[v] = users[v]
          /\ UNCHANGED <<nextId, idx, now, health>>
      BY <1>5, <2>2 DEF WriteRow
    <2>4. Live(u)'
      BY <1>5, <2>1, <2>3 DEF Live
    <2>5. q.pc = "sync" /\ q.sd = r /\ q.doc = r /\ q.k = 1 /\ q.expected = expectedKeysForUser(r)
      BY <1>5, <2>2 DEF ++, Idle, Syncs, SyncFrom
    <2>6. Concluded(users[u], r)
      BY <1>1, <1>2, <2>1, Zenon DEF Concluded, BothVerified
    <2>7. Recalls(req[s])'
      BY <1>5, <2>1, <2>3, <2>5 DEF Recalls, Remembering, Idle, NoRow
    <2>8. users'[u].isEmailVerified => users[u].isEmailVerified \/ BothVerified(users[u])
      BY <1>1, <1>2, <2>1, <2>3
    <2>9. \/ users'[u].emailVerificationToken \in {0, users[u].emailVerificationToken}
          \/ users'[u].emailVerificationToken = gen + 1 /\ gen < MaxTokens
      BY <1>1, <2>1, <2>3 DEF FinaliseProfile, CanGenerate, Fresh
    <2>10. /\ \A v \in Users : Behind(req[s], v) => v = u
           /\ \/ Behind(q, u)
              \/ users'[u].newEmailPending = None
              \/ /\ ~Behind(req[s], u)
                 /\ users'[u].newEmailPending = users[u].newEmailPending
                 /\ users'[u].migrationTokenExpires = users[u].migrationTokenExpires
      BY <1>1, <1>2, <1>5, <2>1, <2>3, <2>5 DEF Behind
    <2> QED BY <1>1, <1>2, <1>5, <2>3, <2>4, <2>5, <2>6, <2>7, <2>8, <2>9, <2>10, Zenon DEF Edit, InHistory
  <1> QED BY <1>6, <1>7

\* or where it is another's,
LEMMA FinaliseProfileOtherEdit ==
    ASSUME Inv, NEW s \in Slots, FinaliseProfile(s), Recalls(req[s]), req[s].x # req[s].doc.id
    PROVE  Calm(s) \/ Edit(s)
  <1>1. /\ req[s].pc = "finprofile" /\ Current(req[s].doc)
        /\ req[s].doc.migrationHistory = users[req[s].doc.id].migrationHistory
        /\ users[req[s].doc.id].newEmailPending = None /\ users[req[s].doc.id].isEmailVerified
        /\ req[s].keep.provider = users[req[s].doc.id].provider
        /\ req[s].e \in Emails
    <2>1. req[s].pc = "finprofile"
      BY DEF FinaliseProfile
    <2>2. Current(req[s].doc)
      BY <2>1, Facts DEF Knows, Documents
    <2>3. req[s].doc.migrationHistory = users[req[s].doc.id].migrationHistory
      BY <2>1, <2>2 DEF Recalls, Remembering, Current, Users
    <2>4. users[req[s].doc.id].newEmailPending = None /\ users[req[s].doc.id].isEmailVerified
      BY <2>1, <2>2 DEF Recalls, Current, Users
    <2>5. req[s].keep.provider = users[req[s].doc.id].provider
      BY <2>1, <2>2, Facts, Zenon DEF Knows, Documents, Current
    <2>6. req[s].e \in Emails
      BY <2>1, Facts DEF Knows, Documents
    <2> QED BY <2>1, <2>2, <2>3, <2>4, <2>5, <2>6
  <1>2. PICK u : u = req[s].doc.id
    OBVIOUS
  <1>3. PICK w : w = [migrationHistory |-> MarkSuccess(req[s].doc.migrationHistory, req[s].e)]
                     ++ Preserved(req[s].keep)
    OBVIOUS
  <1>4. /\ DOMAIN w \subseteq DOMAIN NoRow \ {"id"}
        /\ "email" \notin DOMAIN w
        /\ "newEmailPending" \notin DOMAIN w
        /\ "currentEmailVerified" \notin DOMAIN w
        /\ "newEmailVerified" \notin DOMAIN w
        /\ "migrationHistory" \in DOMAIN w /\ w.migrationHistory = MarkSuccess(req[s].doc.migrationHistory, req[s].e)
        /\ "isEmailVerified" \notin DOMAIN w
        /\ "emailVerificationToken" \notin DOMAIN w
    BY <1>3 DEF NoRow, ++, Preserved
  <1>4a. "provider" \in DOMAIN w /\ w.provider = req[s].keep.provider
    BY <1>3 DEF ++, Preserved
  <1>5. PICK r, q : /\ u \in Users /\ Live(u) /\ r.id = u
                    /\ Overlaid(r, w, users[u])
                    /\ Syncs(q, r, "checkbio", req[s])
                    /\ Writes(s, r, q, "duplicate")
    <2>1. SaveAndSync(s, w, "checkbio", "duplicate")
      BY <1>1, <1>3 DEF FinaliseProfile
    <2> QED BY <1>1, <1>2, <1>4, <2>1, SaveStep
  <1>6. ~Duplicate(r)
    <2>1. r.email = users[u].email /\ (r.provider = users[u].provider \/ r.provider = Local)
      BY <1>1, <1>2, <1>4, <1>4a, <1>5 DEF NoRow, Overlaid
    <2> QED BY <1>5, <2>1, NotDuplicate
  <1>7. ASSUME ~Duplicate(r) PROVE Edit(s)
    <2>1. /\ r.email # None
          /\ r.email = users[u].email
          /\ r.newEmailPending = users[u].newEmailPending
          /\ r.currentEmailVerified = users[u].currentEmailVerified
          /\ r.newEmailVerified = users[u].newEmailVerified
          /\ r.migrationHistory = MarkSuccess(users[u].migrationHistory, req[s].e)
          /\ r.isEmailVerified = users[u].isEmailVerified
          /\ r.emailVerificationToken = users[u].emailVerificationToken
      <3>1. /\ \A f \in DOMAIN w : r[f] = w[f]
            /\ \A f \in DOMAIN NoRow \ DOMAIN w : r[f] = users[u][f]
        BY <1>4, <1>5 DEF Overlaid
      <3>2. {"email", "newEmailPending", "currentEmailVerified", "newEmailVerified",
             "isEmailVerified", "emailVerificationToken"} \subseteq DOMAIN NoRow
        BY DEF NoRow
      <3> QED BY <1>1, <1>2, <1>4, <1>5, <3>1, <3>2, Zenon DEF Live
    <2>2. /\ req' = [req EXCEPT ![s] = q] /\ WriteRow(r)
          /\ DOMAIN req = Slots /\ DOMAIN users = Users /\ DOMAIN req[s] = DOMAIN Idle
      BY <1>5, <1>7, Goes DEF Writes, Inv, Types
    <2>3. /\ req'[s] = q /\ users'[u] = r
          /\ \A v \in Users \ {u} : users'[v] = users[v]
          /\ UNCHANGED <<nextId, idx, now, health>>
      BY <1>5, <2>2 DEF WriteRow
    <2>4. Live(u)'
      BY <1>5, <2>1, <2>3 DEF Live
    <2>5. q.pc = "sync" /\ q.sd = r /\ q.doc = r /\ q.k = 1 /\ q.expected = expectedKeysForUser(r)
      BY <1>5, <2>2 DEF ++, Idle, Syncs, SyncFrom
    <2>6. Concluded(users[u], r)
      BY <1>1, <1>2, <2>1, Zenon DEF Concluded, BothVerified
    <2>7. Recalls(req[s])'
      BY <1>5, <2>1, <2>3, <2>5 DEF Recalls, Remembering, Idle, NoRow
    <2>8. users'[u].isEmailVerified => users[u].isEmailVerified \/ BothVerified(users[u])
      BY <1>1, <1>2, <2>1, <2>3
    <2>9. \/ users'[u].emailVerificationToken \in {0, users[u].emailVerificationToken}
          \/ users'[u].emailVerificationToken = gen + 1 /\ gen < MaxTokens
      BY <1>1, <2>1, <2>3 DEF FinaliseProfile, CanGenerate, Fresh
    <2>10. /\ \A v \in Users : Behind(req[s], v) => v = u
           /\ \/ Behind(q, u)
              \/ users'[u].newEmailPending = None
              \/ /\ ~Behind(req[s], u)
                 /\ users'[u].newEmailPending = users[u].newEmailPending
                 /\ users'[u].migrationTokenExpires = users[u].migrationTokenExpires
      BY <1>1, <1>2, <1>5, <2>1, <2>3, <2>5 DEF Behind
    <2> QED BY <1>1, <1>2, <1>5, <2>3, <2>4, <2>5, <2>6, <2>7, <2>8, <2>9, <2>10, Zenon DEF Edit, InHistory
  <1> QED BY <1>6, <1>7

\* the guarded update, where it may be too late,
LEMMA FinaliseUpdateEdit ==
    ASSUME Inv, NEW s \in Slots, FinaliseUpdate(s), Recalls(req[s])
    PROVE  Calm(s) \/ Edit(s)
  <1>1. CASE users[req[s].doc.id].tokenVersion = req[s].doc.tokenVersion
    BY <1>1, FinaliseUpdateMoves
  <1>2. CASE users[req[s].doc.id].tokenVersion # req[s].doc.tokenVersion
    <2>1. req[s].pc = "finupdate" /\ Answer(s) /\ UNCHANGED <<store, now, health>>
      BY <1>2 DEF FinaliseUpdate
    <2>2. req'[s] = Idle
      BY <2>1, Goes
    <2> QED BY <2>1, <2>2, IdleRecalls DEF Calm, Cool, Recalls, Remembering, Idle, NoRow
  <1> QED BY <1>1, <1>2

\* and the OAuth strategy, where it saves,
LEMMA OAuthStrategySaves ==
    ASSUME Inv, NEW s \in Slots, OAuthStrategy(s), Recalls(req[s]), ~(Answer(s) /\ UNCHANGED <<store, now, health, movedAt>>)
    PROVE  Calm(s) \/ Edit(s)
  <1>1. /\ req[s].pc = "strategy" /\ Current(req[s].doc)
        /\ req[s].doc.migrationHistory = users[req[s].doc.id].migrationHistory
    <2>1. req[s].pc = "strategy"
      BY DEF OAuthStrategy
    <2>2. Current(req[s].doc)
      BY <2>1, Facts DEF Knows, Documents
    <2>3. req[s].doc.migrationHistory = users[req[s].doc.id].migrationHistory
      BY <2>1, <2>2 DEF Recalls, Remembering, Current, Users
    <2> QED BY <2>1, <2>2, <2>3
  <1>2. PICK u : u = req[s].doc.id
    OBVIOUS
  <1>3. PICK w : w = [migrationHistory |-> req[s].doc.migrationHistory]
    OBVIOUS
  <1>4. /\ DOMAIN w \subseteq DOMAIN NoRow \ {"id"}
        /\ "email" \notin DOMAIN w
        /\ "newEmailPending" \notin DOMAIN w
        /\ "currentEmailVerified" \notin DOMAIN w
        /\ "newEmailVerified" \notin DOMAIN w
        /\ "migrationHistory" \in DOMAIN w /\ w.migrationHistory = req[s].doc.migrationHistory
        /\ "isEmailVerified" \notin DOMAIN w
        /\ "emailVerificationToken" \notin DOMAIN w
    BY <1>3 DEF NoRow, ++
  <1>5. SaveAndSync(s, w, "idle", "idle")
    BY <1>1, <1>3 DEF OAuthStrategy
  <1>6. CASE UNCHANGED <<store, now, health>> /\ req'[s].pc \in {"idle", "duplicate"}
    BY <1>1, <1>6 DEF Calm, Cool, Recalls, Remembering
  <1>7. ASSUME NEW r, u \in Users, Live(u), r.id = u, Overlaid(r, w, users[u]),
               users'[u] = r, \A v \in Users \ {u} : users'[v] = users[v],
               UNCHANGED <<nextId, idx, now, health>>,
               req'[s].pc = "sync", req'[s].sd = r, req'[s].doc = r, req'[s].k = 1,
               req'[s].expected = expectedKeysForUser(r),
               Behind(req'[s], u), Recalls(req[s])'
        PROVE  Edit(s)
    <2>1. /\ r.email # None
          /\ r.email = users[u].email
          /\ r.newEmailPending = users[u].newEmailPending
          /\ r.currentEmailVerified = users[u].currentEmailVerified
          /\ r.newEmailVerified = users[u].newEmailVerified
          /\ r.migrationHistory = users[u].migrationHistory
          /\ r.isEmailVerified = users[u].isEmailVerified
          /\ r.emailVerificationToken = users[u].emailVerificationToken
      BY <1>1, <1>2, <1>4, <1>7, StoreAssumption, ZenonT(30) DEF NoRow, Overlaid, Live
    <2>2. Live(u)'
      BY <1>7, <2>1 DEF Live
    <2>3. Same(users[u], users'[u])
      BY <1>1, <1>2, <1>7, <2>1 DEF Same
    <2>4. /\ ~InHistory(req[s]) /\ ~InHistory(req'[s])
          /\ \A v \in Users : Behind(req[s], v) => v = u
      BY <1>1, <1>2, <1>7 DEF InHistory, Behind
    <2>5. users'[u].isEmailVerified =>
               \/ users[u].isEmailVerified \/ BothVerified(users[u])
               \/ AutoVerifyEmail \/ req[s].pc = "saveverify"
               \/ \E l \in opened' : l.u = u
      BY <1>1, <1>2, <1>7, <2>1 DEF OAuthStrategy
    <2>6. \/ users'[u].emailVerificationToken \in {0, users[u].emailVerificationToken}
          \/ users'[u].emailVerificationToken = gen + 1 /\ gen < MaxTokens
      BY <1>1, <1>7, <2>1, AccountsAssumption DEF OAuthStrategy, CanGenerate, Fresh
    <2> QED BY <1>2, <1>7, <2>2, <2>3, <2>4, <2>5, <2>6 DEF Edit
  <1>8. \/ UNCHANGED <<store, now, health>> /\ req'[s].pc \in {"idle", "duplicate"}
        \/ \E r :
              /\ u \in Users /\ Live(u) /\ r.id = u
              /\ Overlaid(r, w, users[u])
              /\ users'[u] = r /\ \A v \in Users \ {u} : users'[v] = users[v]
              /\ UNCHANGED <<nextId, idx, now, health>>
              /\ req'[s].pc = "sync" /\ req'[s].sd = r /\ req'[s].doc = r /\ req'[s].k = 1
              /\ req'[s].expected = expectedKeysForUser(r)
              /\ Behind(req'[s], u)
              /\ Recalls(req[s])'
    BY <1>1, <1>2, <1>4, <1>5, SyncSaves
  <1> QED BY <1>6, <1>7, <1>8

\* and where it may have nothing to save.
LEMMA OAuthStrategyEdit ==
    ASSUME Inv, NEW s \in Slots, OAuthStrategy(s), Recalls(req[s])
    PROVE  Calm(s) \/ Edit(s)
  <1>1. CASE Answer(s) /\ UNCHANGED <<store, now, health, movedAt>>
    <2>1. req[s].pc = "strategy" /\ req'[s] = Idle /\ UNCHANGED <<store, now, health>>
      BY <1>1, Goes DEF OAuthStrategy
    <2> QED BY <2>1, IdleRecalls DEF Calm, Cool, Idle
  <1>2. CASE ~(Answer(s) /\ UNCHANGED <<store, now, health, movedAt>>)
    BY <1>2, OAuthStrategySaves
  <1> QED BY <1>1, <1>2

\* request s inserts a row that has no migration
Inserts(s) ==
    \E u \in Users :
        /\ u = nextId /\ nextId' = nextId + 1 /\ Live(u)'
        /\ \A v \in Users \ {u} : users'[v] = users[v]
        /\ users'[u].migrationHistory = <<>> /\ users'[u].newEmailPending = None
        /\ users'[u].isEmailVerified => AutoVerifyEmail \/ \E l \in opened' : l.u = u
        /\ \/ users'[u].emailVerificationToken = 0
           \/ users'[u].emailVerificationToken = gen + 1 /\ gen < MaxTokens
        /\ UNCHANGED <<idx, now, health>>
        /\ Cool(req[s]) /\ Recalls(req[s])'
        /\ req'[s].pc = "sync" /\ req'[s].sd = users'[u] /\ req'[s].k = 1
        /\ req'[s].expected = expectedKeysForUser(users'[u])

\* An insert puts a new row where there was none, or fails.
LEMMA InsertInserts ==
    ASSUME Inv, NEW s \in Slots, NEW r0 \in Row, NEW cont, InsertAndSync(s, r0, cont),
           UNCHANGED <<now, health>>, Cool(req[s]), Recalls(req[s]),
           cont \in {"idle", "mailverify"} \/ (cont = "saveverified" /\ req[s].pc = "placeholder"),
           r0.email # None, r0.migrationHistory = <<>>, r0.newEmailPending = None,
           r0.isEmailVerified => AutoVerifyEmail \/ nextId' = nextId \/ \E l \in opened' : l.u = nextId,
           r0.emailVerificationToken = 0 \/ (r0.emailVerificationToken = gen + 1 /\ gen < MaxTokens)
    PROVE  Calm(s) \/ Inserts(s)
  <1>1. PICK u : u = nextId
    OBVIOUS
  <1>2. u \in Users
    BY <1>1, StoreAssumption DEF InsertAndSync, Inv, Types, Users
  <1>3. PICK r, q :
              /\ r \in Row /\ r.id = u /\ \A f \in DOMAIN NoRow \ {"id"} : r[f] = r0[f]
              /\ q = SyncFrom(r, cont) ++ req[s]
              /\ IF Duplicate(r) THEN Answer(s) /\ UNCHANGED <<store, movedAt>>
                 ELSE /\ users' = [users EXCEPT ![u] = r] /\ nextId' = nextId + 1
                      /\ req' = [req EXCEPT ![s] = q] /\ UNCHANGED <<idx, movedAt>>
    BY <1>1, <1>2, InsertStep
  <1>4. CASE Duplicate(r)
    <2>1. req'[s] = Idle /\ UNCHANGED <<store, now, health>>
      BY <1>3, <1>4, Goes
    <2> QED BY <2>1, IdleRecalls DEF Calm, Cool, Idle
  <1>5. CASE ~Duplicate(r)
    <2>1. /\ DOMAIN req = Slots /\ DOMAIN users = Users /\ DOMAIN req[s] = DOMAIN Idle
      BY Goes DEF Inv, Types
    <2>2. /\ req'[s] = q /\ users'[u] = r /\ nextId' = nextId + 1
          /\ \A v \in Users \ {u} : users'[v] = users[v]
          /\ UNCHANGED <<idx, now, health>>
      BY <1>2, <1>3, <1>5, <2>1
    <2>3. /\ r.email # None /\ r.migrationHistory = <<>> /\ r.newEmailPending = None
          /\ r.isEmailVerified = r0.isEmailVerified
          /\ r.emailVerificationToken = r0.emailVerificationToken
      BY <1>3 DEF NoRow
    <2>4. Live(u)'
      BY <1>2, <2>2, <2>3, StoreAssumption DEF Live, Users
    <2>5. PICK ks : ks = expectedKeysForUser(r)
      OBVIOUS
    <2>6. q = [pc |-> "sync", k |-> 1, sd |-> r, expected |-> ks, cont |-> cont] ++ req[s]
      BY <1>3, <2>5 DEF SyncFrom
    <2>7. /\ q.pc = "sync" /\ q.sd = r /\ q.k = 1 /\ q.expected = ks /\ q.cont = cont
          /\ q.doc = req[s].doc
      BY <2>1, <2>6 DEF ++, Idle
    <2>8. Recalls(req[s])'
      <3>1. cont \in {"idle", "mailverify"} \/ (cont = "saveverified" /\ req[s].pc = "placeholder")
        OBVIOUS
      <3>2. CASE cont \in {"idle", "mailverify"}
        BY <2>2, <2>7, <3>2 DEF Recalls, Remembering
      <3>3. CASE cont = "saveverified" /\ req[s].pc = "placeholder"
        <4>1. Current(req[s].doc)
          BY <3>3, Facts DEF Knows, Documents
        <4>2. req[s].doc.migrationHistory = users[req[s].doc.id].migrationHistory
          BY <3>3, <4>1, SMTT(30) DEF Recalls, Remembering, Current, Users
        <4>3. req[s].doc.id \in Users \ {u}
          BY <1>1, <4>1, Facts DEF Current, Consistent
        <4>4. req'[s].doc.migrationHistory = users'[req'[s].doc.id].migrationHistory
          BY <2>2, <2>7, <4>2, <4>3
        <4> QED BY <2>2, <2>7, <4>4 DEF Recalls
      <3> QED BY <3>1, <3>2, <3>3
    <2>9. users'[u].isEmailVerified => AutoVerifyEmail \/ \E l \in opened' : l.u = u
      <3>1. nextId' # nextId
        BY <2>2, Facts
      <3> QED BY <1>1, <2>2, <2>3, <3>1
    <2>10. req'[s].pc = "sync" /\ req'[s].sd = users'[u] /\ req'[s].k = 1
      BY <2>2, <2>7
    <2>11. req'[s].expected = expectedKeysForUser(users'[u])
      BY <2>2, <2>5, <2>7
    <2>12. users'[u].emailVerificationToken = 0 \/ (users'[u].emailVerificationToken = gen + 1 /\ gen < MaxTokens)
      BY <2>2, <2>3
    <2> QED BY <1>1, <1>2, <2>2, <2>3, <2>4, <2>8, <2>9, <2>10, <2>11, <2>12 DEF Inserts
  <1> QED BY <1>4, <1>5

\* The requests that insert a row: register, OAuth, and the placeholder of
\* verifyNewEmail.
LEMMA InsertsRows ==
    ASSUME Inv, NEW s \in Slots, Recalls(req[s])
    PROVE  /\ RegisterSave(s) /\ req[s].doc.id = 0 => Calm(s) \/ Inserts(s)
           /\ OAuthCreate(s) => Calm(s) \/ Inserts(s)
           /\ VerifyNewPlaceholder(s) => Calm(s) \/ Inserts(s)
  <1>1. ASSUME RegisterSave(s), req[s].doc.id = 0 PROVE Calm(s) \/ Inserts(s)
    <2>1. req[s].pc = "create" /\ req[s].e \in Emails
      BY <1>1, Facts DEF RegisterSave, Knows, Documents
    <2>2. PICK r0 : r0 = Credentials ++ [NoRow EXCEPT !.email = req[s].e]
      OBVIOUS
    <2>3. /\ r0.email = req[s].e /\ r0.migrationHistory = <<>> /\ r0.newEmailPending = None
          /\ r0.isEmailVerified = AutoVerifyEmail
          /\ r0.emailVerificationToken = (IF AutoVerifyEmail THEN 0 ELSE gen + 1)
      BY <2>2 DEF ++, Credentials, NoRow, Fresh
    <2>4. r0 \in Row
      BY <1>1, <2>1, <2>2, NewCredentials DEF RegisterSave, CanGenerate
    <2>5. InsertAndSync(s, r0, "mailverify") /\ UNCHANGED <<now, health>> /\ gen < MaxTokens
      BY <1>1, <2>2 DEF RegisterSave, CanGenerate
    <2> QED BY <2>1, <2>3, <2>4, <2>5, InsertInserts, StoreAssumption, AccountsAssumption DEF Cool
  <1>2. ASSUME OAuthCreate(s) PROVE Calm(s) \/ Inserts(s)
    <2>1. req[s].pc = "oauthcreate" /\ req[s].e \in Emails /\ req[s].id \in OAuthIds
      BY <1>2, Facts, Zenon DEF OAuthCreate, Knows, Documents
    <2>2. PICK r0 : r0 = [NoRow EXCEPT !.email = req[s].e, !.provider = req[s].id, !.isEmailVerified = TRUE]
      OBVIOUS
    <2>3. /\ r0.email = req[s].e /\ r0.migrationHistory = <<>> /\ r0.newEmailPending = None
          /\ r0.emailVerificationToken = 0 /\ r0 \in Row
      BY <2>1, <2>2, NoRowIsRow DEF NoRow, Row
    <2>5. InsertAndSync(s, r0, "idle") /\ UNCHANGED <<now, health>>
      BY <1>2, <2>2 DEF OAuthCreate
    <2>6. nextId' = nextId \/ \E l \in opened' : l.u = nextId
      <3>1. PICK l : l = [kind |-> "oauth", secret |-> 0, u |-> nextId, to |-> req[s].e]
        OBVIOUS
      <3>2. nextId' # nextId => l \in opened' /\ l.u = nextId
        BY <1>2, <3>1 DEF OAuthCreate, Vouch
      <3> QED BY <3>2
    <2> QED BY <2>1, <2>3, <2>5, <2>6, InsertInserts, StoreAssumption DEF Cool
  <1>3. ASSUME VerifyNewPlaceholder(s) PROVE Calm(s) \/ Inserts(s)
    <2>1. req[s].pc = "placeholder" /\ req[s].e \in Emails
      BY <1>3, Facts DEF VerifyNewPlaceholder, Knows, Documents
    <2>2. PICK r0 : r0 = [NoRow EXCEPT !.email = req[s].e]
      OBVIOUS
    <2>3. /\ r0.email = req[s].e /\ r0.migrationHistory = <<>> /\ r0.newEmailPending = None
          /\ r0.emailVerificationToken = 0 /\ r0 \in Row /\ ~r0.isEmailVerified
      BY <2>1, <2>2, NoRowIsRow DEF NoRow, Row
    <2>5. InsertAndSync(s, r0, "saveverified") /\ UNCHANGED <<now, health>>
      BY <1>3, <2>2 DEF VerifyNewPlaceholder
    <2> QED BY <2>1, <2>3, <2>5, InsertInserts, StoreAssumption DEF Cool
  <1> QED BY <1>1, <1>2, <1>3

\* request s writes the index only
IndexStep(s) == \/ SyncSelect(s) \/ SyncWrite(s) \/ SyncPrune(s)
                \/ FinaliseRelease(s) \/ RecoverRelease(s)

\* a request does not notice what happens to the index
LEMMA IndexOnly ==
    ASSUME Inv, NEW s \in Slots, Recalls(req[s]), IndexStep(s)
    PROVE  /\ UNCHANGED <<users, nextId, now, post>>
           /\ ~InHistory(req[s]) /\ ~InHistory(req'[s])
           /\ Recalls(req[s])'
  <1>1. \A pc \in Continuations \cup {"findelete", "recdelete"} :
            pc \notin {"savehistory", "finprofile", "readhistory", "sync", "upsert"}
    BY DEF Continuations
  <1>2. req[s].pc \in {"sync", "upsert"} => req[s].cont \in Continuations
    BY Facts DEF Knows, Fields
  <1>3. CASE SyncSelect(s)
    <2>1. req[s].pc = "sync" /\ UNCHANGED <<users, nextId, now, post>>
      BY <1>3 DEF SyncSelect, Reads, store
    <2>2. PICK q : q = [pc |-> "upsert", k |-> Min(Due(s)),
                        found |-> idx[KeyOf(req[s].sd, Min(Due(s)))] # NoEntry] ++ req[s]
      OBVIOUS
    <2>3. q.pc = "upsert" /\ q.doc = req[s].doc /\ q.cont = req[s].cont
      BY <2>2, Goes DEF ++, Idle
    <2>4. req'[s] = q
      BY <1>3, <2>2, Goes DEF SyncSelect
    <2> QED BY <2>1, <2>3, <2>4 DEF Recalls, InHistory, Stage
  <1>4. CASE SyncWrite(s)
    <2>1. req[s].pc = "upsert" /\ UNCHANGED <<users, nextId, now, post>>
      BY <1>4 DEF SyncWrite
    <2>2. PICK q : q = [pc |-> "sync", k |-> req[s].k + 1] ++ req[s]
      OBVIOUS
    <2>3. q.pc = "sync" /\ q.doc = req[s].doc /\ q.cont = req[s].cont
      BY <2>2, Goes DEF ++, Idle
    <2>4. req'[s] \in {q, Idle}
      BY <1>4, <2>2, Goes DEF SyncWrite
    <2>5. Recalls(q)'
      BY <2>1, <2>3 DEF Recalls, Stage
    <2>6. Recalls(Idle)' /\ ~InHistory(Idle)
      BY DEF Recalls, Idle, Remembering, NoRow, Stage, InHistory
    <2> QED BY <2>1, <2>3, <2>4, <2>5, <2>6 DEF InHistory, Recalls
  <1>5. CASE SyncPrune(s)
    <2>1. req[s].pc = "sync" /\ UNCHANGED <<users, nextId, now, post>>
      BY <1>5 DEF SyncPrune
    <2>2. PICK q : q = [pc |-> req[s].cont] ++ req[s]
      OBVIOUS
    <2>3. q.pc = req[s].cont /\ q.doc = req[s].doc
      BY <2>2, Goes DEF ++, Idle
    <2>4. GoOn(s, req[s].cont, <<>>)
      BY <1>5 DEF SyncPrune
    <2>5. req'[s] \in {q, Idle}
      BY <2>2, <2>4, Goes, GoOnTo
    <2>6. Recalls(q)'
      BY <1>1, <1>2, <2>1, <2>3 DEF Recalls, Stage
    <2>7. Recalls(Idle)' /\ ~InHistory(Idle)
      BY DEF Recalls, Idle, Remembering, NoRow, Stage, InHistory
    <2> QED BY <1>1, <1>2, <2>1, <2>3, <2>5, <2>6, <2>7 DEF InHistory, Recalls
  <1>6. CASE FinaliseRelease(s) \/ RecoverRelease(s)
    <2>1. PICK pc \in {"findelete", "recdelete"} :
              req[s].pc \in {"finrelease", "recrelease"} /\ Release(s, req[s].x, pc)
      BY <1>6 DEF FinaliseRelease, RecoverRelease
    <2>2. PICK q : q = [pc |-> pc] ++ req[s]
      OBVIOUS
    <2>3. q.pc = pc /\ q.doc = req[s].doc
      BY <2>2, Goes DEF ++, Idle
    <2>4. GoOn(s, pc, <<>>) /\ UNCHANGED <<users, nextId, now, post>>
      BY <2>1 DEF Release
    <2>5. req'[s] = q
      BY <2>2, <2>4, Goes, GoOnTo
    <2> QED BY <2>1, <2>3, <2>4, <2>5 DEF InHistory, Recalls, Remembering, Stage
  <1> QED BY <1>3, <1>4, <1>5, <1>6 DEF IndexStep

\* Every step is one of these.
LEMMA Kinds ==
    ASSUME Inv, [Next]_vars, \A s \in Slots : Recalls(req[s])
    PROVE  \/ \E s \in Slots : \/ Calm(s) \/ Edit(s) \/ Inserts(s) \/ IndexStep(s)
                               \/ VerifyHistoryRead(s) \/ FinaliseDelete(s) \/ RecoverDelete(s)
                               \/ StatementFails(s)
           \/ \E u \in Users : BumpVersion(u)
           \/ Tick \/ Sweep \/ Crash \/ Boot \/ UNCHANGED vars
  <1>1. ASSUME NEW s \in Slots, AccountStart(s) \/ MigrationStart(s) PROVE Calm(s)
    BY <1>1, StartsCalm
  <1>2. ASSUME NEW s \in Slots, AccountStep(s)
        PROVE  Calm(s) \/ Edit(s) \/ Inserts(s) \/ IndexStep(s)
    <2>1. Recalls(req[s])
      OBVIOUS
    <2>2. RegisterSave(s) => Calm(s) \/ Edit(s) \/ Inserts(s)
      BY <2>1, InsertsRows, RegisterSaveEdit
    <2>3. OAuthCreate(s) => Calm(s) \/ Inserts(s)
      BY <2>1, InsertsRows
    <2>4. SyncSelect(s) \/ SyncWrite(s) \/ SyncPrune(s) => IndexStep(s)
      BY DEF IndexStep
    <2>5. /\ Resolve(s) \/ OAuthById(s) \/ OAuthUser(s) \/ OAuthPrimaryUser(s)
               \/ VerifyEmailFind(s) \/ UpdateBioFind(s) \/ RegisterMail(s) => Calm(s)
          /\ RegisterHolder(s) \/ RegisterLookup(s) \/ RegisterTaken(s) \/ OAuthPrimary(s)
               \/ ResendVerificationFind(s) => Calm(s)
      BY <2>1, FindsCalm, ReadsCalm
    <2>6. ResendVerificationSave(s) \/ VerifyEmailSave(s) \/ OAuthTakeOver(s) \/ OAuthStrategy(s)
               \/ UpdateBioSave(s) => Calm(s) \/ Edit(s)
      BY <2>1, ResendVerificationSaveEdit, VerifyEmailSaveEdit, OAuthTakeOverEdit,
         OAuthStrategyEdit, UpdateBioSaveEdit
    <2> QED BY <1>2, <2>2, <2>3, <2>4, <2>5, <2>6 DEF AccountStep
  <1>3. ASSUME NEW s \in Slots, MigrationStep(s)
        PROVE  \/ Calm(s) \/ Edit(s) \/ Inserts(s) \/ IndexStep(s)
               \/ VerifyHistoryRead(s) \/ FinaliseDelete(s) \/ RecoverDelete(s)
    <2>1. Recalls(req[s])
      OBVIOUS
    <2>2. VerifyNewPlaceholder(s) => Calm(s) \/ Inserts(s)
      BY <2>1, InsertsRows
    <2>3. FinaliseRelease(s) \/ RecoverRelease(s) => IndexStep(s)
      BY DEF IndexStep
    <2>4. /\ MigrationMail(s) \/ VerifyMigrationFind(s) => Calm(s)
          /\ InitiateLookup(s) \/ InitiateExists(s) \/ InitiateReload(s) \/ VerifyNewLookup(s)
               \/ VerifyNewExists(s) \/ VerifyFinalise(s) \/ FinaliseRead(s) \/ FinaliseLookup(s)
               \/ FinaliseExists(s) \/ FinaliseReload(s) \/ FinaliseCheckBio(s)
               \/ RecoverLookup(s) \/ RecoverFind(s) \/ LoginUser(s) => Calm(s)
      BY <2>1, FindsCalm, ReadsCalm
    <2>5. InitiateSave(s) \/ ResendSave(s) \/ VerifyMigrationSave(s) \/ VerifyHistorySave(s)
               \/ FinaliseUpdate(s) \/ FinaliseSave(s) \/ FinaliseSaveBio(s) \/ LoginSave(s)
               \/ CleanupSave(s) => Calm(s) \/ Edit(s)
      BY <2>1, InitiateSaveEdit, ResendSaveEdit, VerifyMigrationSaveEdit, VerifyHistorySaveEdit,
         FinaliseUpdateEdit, FinaliseSaveEdit, FinaliseSaveBioEdit, LoginSaveEdit, CleanupSaveEdit
    <2>6. FinaliseProfile(s) => Calm(s) \/ Edit(s)
      BY <2>1, FinaliseProfileSameEdit, FinaliseProfileOtherEdit
    <2> QED BY <1>3, <2>2, <2>3, <2>4, <2>5, <2>6 DEF MigrationStep
  <1> QED BY <1>1, <1>2, <1>3 DEF Next

==============================================================================
