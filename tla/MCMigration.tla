---------------------------- MODULE MCMigration ------------------------------
EXTENDS Migration

\* a verified local account with a profile
Account(u, e) == [NoRow EXCEPT !.id = u, !.email = e, !.isEmailVerified = TRUE,
                               !.password = TRUE, !.bio = "new"]

MCOneAccount == <<Account(1, "a")>>

\* one that moved from "a" to "b" and is still in the grace period
MCMovedAccount == <<[Account(1, "b") EXCEPT !.previousEmail = "a", !.migrationExpiry = 2,
                                            !.lastMigrationDate = 1]>>

\* one whose migration to "b" waits to be finalised, and the placeholder
MCVerifiedMigration ==
    <<[Account(1, "a") EXCEPT !.newEmailPending = "b", !.migrationToken = MaxTokens + 1,
                              !.migrationTokenExpires = 2,
                              !.currentEmailVerified = TRUE, !.newEmailVerified = TRUE,
                              !.migrationHistory = <<[Pending("b") EXCEPT !.cur = TRUE, !.new = TRUE]>>],
      [NoRow EXCEPT !.id = 2, !.email = "b"]>>

SlotSymmetry == Permutations(Slots)

==============================================================================
