--------------------------- MODULE MCFeatureConfig ---------------------------
(* FeatureConfig with a few calls and two configurations. *)
EXTENDS FeatureConfig

CONSTANTS v, w

\* v passes validation, w does not.
MCContents == {v, w}
MCValid == {Raw, v}

=============================================================================
