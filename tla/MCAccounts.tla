----------------------------- MODULE MCAccounts -----------------------------
(***************************************************************************)
(* Accounts on small instances.  Requests are interchangeable, and so are  *)
(* the user ids that are still free at the start.                          *)
(***************************************************************************)
EXTENDS Accounts, TLC

Symmetry == Permutations(Reqs) \cup Permutations(Uids \ {SeedUid})
=============================================================================
