----------------------------- MODULE MCFileScrape -----------------------------
(* FileScrape with a few calls. *)
EXTENDS FileScrape, TLC

Symmetry == Permutations(Scrapes)

=============================================================================
