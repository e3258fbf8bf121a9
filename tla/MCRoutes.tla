------------------------------ MODULE MCRoutes ------------------------------
(* Routes with the names that matter, spelled plainly or not. *)
EXTENDS Routes

\* The default, metrics, is a path of its own in any case.
MCSegments ==
  [name : {"healthz", "debug", "pprof", ".."}, escaped : {FALSE}]
    \cup [name : {"healthz", "pprof"}, escaped : {TRUE}]

=============================================================================
