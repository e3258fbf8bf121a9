--------------------------- MODULE MCLastKnownGood ---------------------------
(* LastKnownGood with two keys and two values. *)
EXTENDS LastKnownGood, TLC

Symmetry == Permutations(Keys) \cup Permutations(Values)

=============================================================================
