----------------------------- MODULE MCAccounts -----------------------------
(* The instances of Accounts that TLC checks. *)
EXTENDS AccountsProperties, TLC

CONSTANTS u1, u2, x1, r1, r2

Slots == Permutations({r1, r2}) \cup Permutations({u1, u2})

=============================================================================
