------------------------ MODULE MCExporterLifecycle ------------------------
(* ExporterLifecycle with every plan of up to two small features. *)
EXTENDS ExporterLifecycle, SequencesExt

CONSTANTS a, b

MCCollectors == {a, b}
Batches == SeqOf(MCCollectors \cup {Base, Nil}, 2)
MCFeatures == [startable : BOOLEAN, batch : Batches]

\* Every list of at most two features with at most two collectors each, up to the
\* names of the collectors: b is not used before a.
MCPlans ==
  {p \in SeqOf(MCFeatures, 2) :
     LET entries == FlattenSeq([f \in DOMAIN p |-> p[f].batch])
     IN \A i \in DOMAIN entries : entries[i] = b => \E j \in 1 .. i : entries[j] = a}

\* One feature that serves, for what happens after registration.
OneFeature == {<<[startable |-> TRUE, batch |-> <<a>>]>>,
               <<[startable |-> TRUE, batch |-> <<a, a>>]>>,
               <<[startable |-> TRUE, batch |-> <<a>>], [startable |-> TRUE, batch |-> <<b, a>>]>>,
               <<[startable |-> TRUE, batch |-> <<a, b>>], [startable |-> FALSE, batch |-> <<>>]>>}

=============================================================================
