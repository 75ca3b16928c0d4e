-------------------------- MODULE MCHouseholdRaces --------------------------
(***************************************************************************)
(* Small instances of HouseholdRaces; sessions are interchangeable.        *)
(***************************************************************************)
EXTENDS HouseholdRaces, TLC

SessionSymmetry == Permutations(Sessions)
=============================================================================
