----------------------------- MODULE MCAccounts -----------------------------
(***************************************************************************)
(* Accounts for TLC: two machines, two users, the processes of a few       *)
(* seconds.                                                                *)
(***************************************************************************)
EXTENDS Accounts, TLC

CONSTANTS m1, m2, h1, h2

\* Machines and processes are interchangeable.
Alike == Permutations({m1, m2}) \cup Permutations({h1, h2})

=============================================================================
