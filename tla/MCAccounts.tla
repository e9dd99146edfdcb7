----------------------------- MODULE MCAccounts -----------------------------
(* Three requests of every kind for two usernames, two addresses and two
   passwords, in the default tenant and in another one.  What a header can hold
   is what a registration can name. *)
EXTENDS Accounts, TLC

CONSTANTS r1, r2, r3, n1, n2, e1, e2, p1, p2, t0, t1

MCRequests == {r1, r2, r3}
MCUsers == {n1, n2}
MCEmails == {e1, e2}
MCPasswords == {p1, p2}
MCTenants == {t0, t1}

Symmetry == Permutations(MCRequests) \cup Permutations(MCUsers)
                \cup Permutations(MCEmails) \cup Permutations(MCPasswords)
=============================================================================
