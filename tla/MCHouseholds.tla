---------------------------- MODULE MCHouseholds ----------------------------
(***************************************************************************)
(* Instances of Households small enough for TLC.                           *)
(***************************************************************************)
EXTENDS Households, TLC

CONSTANTS alice, bob, carl

MCUsers == {alice, bob, carl}

(* Only alice may be told apart: she is the site administrator where there *)
(* is one.                                                                 *)
Symmetry == Permutations(Users \ {alice}) \cup Permutations(Invitations)
=============================================================================
