----------------------------- MODULE MCSession ------------------------------
(***************************************************************************)
(* Instances of Session small enough for TLC: an administrator, organiser  *)
(* of a household, and a newcomer, who signs in with a second step.        *)
(***************************************************************************)
EXTENDS Session

CONSTANTS ada, ben

Household == {[a \in Accounts |-> IF a = ada THEN 3 ELSE 0]}
=============================================================================
