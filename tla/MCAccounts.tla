----------------------------- MODULE MCAccounts -----------------------------
(***************************************************************************)
(* Instances of Accounts small enough for TLC.                             *)
(***************************************************************************)
EXTENDS Accounts, TLC

Symmetry == Permutations(Users) \cup Permutations(Tokens) \cup Permutations(Browsers)
=============================================================================
