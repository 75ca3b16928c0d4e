------------------------- MODULE MCOccurrenceRaces --------------------------
(***************************************************************************)
(* Small instances of OccurrenceRaces; sessions are interchangeable.       *)
(***************************************************************************)
EXTENDS OccurrenceRaces, TLC

SessionSymmetry == Permutations(Sessions)
=============================================================================
