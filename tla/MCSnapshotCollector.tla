------------------------ MODULE MCSnapshotCollector ------------------------
(* SnapshotCollector on small sets of scrapes and loops. *)
EXTENDS SnapshotCollector, TLC

\* Scrapes are interchangeable, and so are loops.  Safety runs only.
Symmetry == Permutations(Scrapes) \cup Permutations(Loops)

=============================================================================
