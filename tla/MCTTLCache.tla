----------------------------- MODULE MCTTLCache -----------------------------
(* TTLCache with a few keys, callers and calls. *)
EXTENDS TTLCache, TLC

Symmetry == Permutations(Keys) \cup Permutations(Callers)

=============================================================================
