---------------------------- MODULE MCUserAccounts ----------------------------
(* One client that starts again and again on one data directory: the default *)
(* account with a second spelling of its name, and two more names.           *)
EXTENDS UserAccounts, TLC

CONSTANTS c1, t1, t2, bob, eve

MCClients == {c1}
MCTokens == {t1, t2}
MCNames == {"admin", "Admin", bob, eve}
MCFolded == [n \in MCNames |-> IF n = "Admin" THEN "admin" ELSE n]

Legacy(n, r) == [name |-> n, role |-> r, assigned |-> None, enabled |-> TRUE]

\* A new data directory, and one migrated from the version before roles.
MCInitialUsers == {<< >>, <<Legacy("admin", "admin"), Legacy(bob, "user")>>,
                   <<Legacy("admin", "admin"), Legacy(eve, "user")>>}

Symmetry == Permutations(MCTokens) \cup Permutations({bob, eve})
=============================================================================
