--------------------------- MODULE MCExporterTests ---------------------------
(* ExporterTests on a generated exporter that keeps the contract, and on builds *)
(* that differ from it in one respect or two.                                   *)
EXTENDS ExporterTests

MCPadded == (" " :> "") @@ (" demo" :> "demo") @@ (" v1 " :> "v1")
              @@ (" /tmp/feature.yml " :> "/tmp/feature.yml")
MCIdentifiers == {"demo", "old_demo", "demo_old", "exporter", "renamed"}
MCAddresses == {":9901", ":9900"}
MCPaths == {"/metrics"}

Meta == [name |-> "demo-exporter", description |-> "Demo", feature |-> "f",
         namespace |-> "demo", listen |-> ":9901"]

Example == [id |-> "example_value", scope |-> "feature", name |-> "_example_value", labels |-> 0]
Twin == [id |-> "twin", scope |-> "namespace", name |-> "_example_value", labels |-> 0]

Helpers == [own |-> <<Example>>, caches |-> FALSE, files |-> <<>>, values |-> <<>>, labels |-> 0]
AllHelpers == [own |-> <<Example>>, caches |-> TRUE, files |-> <<"x", "x_read", "cache">>,
               values |-> <<"x", "cache_hits", "x_last">>, labels |-> 1]

Scaffold == [FeatureDefaults EXCEPT
  !.interval = 60, !.configFile = TRUE, !.resolve = TRUE, !.newSnapshotter = "unset",
  !.factory = "good", !.defaultEngine = "good", !.metrics = "unset", !.handlers = TRUE,
  !.helpers = Helpers, !.example = "f.yml", !.metric = "example_value"]

Good == [project |-> Meta, tested |-> Meta, binary |-> "prebuilt", linked |-> Meta,
         stamp |-> SmokeVersion, base |-> "demo-exporter",
         vcs |-> [version |-> "(devel)", branch |-> "", revision |-> "unknown"],
         x |-> Scaffold, disk |-> ("../examples/f.yml" :> "empty")]

Metas == {NoMetadata, [Meta EXCEPT !.feature = " "], [Meta EXCEPT !.namespace = " demo"],
          [Meta EXCEPT !.namespace = "1x"], [Meta EXCEPT !.listen = "9901"],
          [Meta EXCEPT !.name = "demo"], [Meta EXCEPT !.namespace = "exporter"],
          [Meta EXCEPT !.namespace = "old_demo"], [Meta EXCEPT !.namespace = "demo_old"]}

Flag(name, bind) == <<[name |-> name, bind |-> bind]>>

Extensions ==
  {FeatureDefaults}
    \cup {[Scaffold EXCEPT !.interval = 0, !.flags = Flag("limit", TRUE)],
          [Scaffold EXCEPT !.flags = Flag("limit", FALSE)],
          [Scaffold EXCEPT !.flags = Flag("config-file", TRUE)],
          [Scaffold EXCEPT !.configFile = FALSE], [Scaffold EXCEPT !.resolve = FALSE],
          [Scaffold EXCEPT !.valid = FALSE],
          [Scaffold EXCEPT !.factory = "error"], [Scaffold EXCEPT !.factory = "bad"],
          [Scaffold EXCEPT !.factory = "unset"], [Scaffold EXCEPT !.defaultEngine = "nil"],
          [Scaffold EXCEPT !.defaultSnapshotter = "bad"],
          [Scaffold EXCEPT !.newSnapshotter = "nil", !.defaultEngine = "nil"],
          [Scaffold EXCEPT !.metrics = "nil"],
          [Scaffold EXCEPT !.handlers = FALSE, !.helpers.own = <<>>]}
    \cup {[Scaffold EXCEPT !.helpers = h] :
            h \in {AllHelpers, [AllHelpers EXCEPT !.files = <<"x", "x">>],
                   [AllHelpers EXCEPT !.values = <<" ">>],
                   [Helpers EXCEPT !.own = <<Example, Twin>>],
                   [Helpers EXCEPT !.own = <<Example, Example>>]}}

\* The test of the adapter is generated with metadata in it, so project always has some.
MCBuilds ==
  {Good, [Good EXCEPT !.binary = "none"], [Good EXCEPT !.binary = "missing"],
   [Good EXCEPT !.base = "renamed"],
   [Good EXCEPT !.stamp = NoVersion],
   [Good EXCEPT !.stamp = [SmokeVersion EXCEPT !.version = " v1 "],
                !.vcs = [version |-> "v2", branch |-> "main", revision |-> "abc"]],
   [Good EXCEPT !.vcs = [version |-> "v2", branch |-> "main", revision |-> "abc"]],
   [Good EXCEPT !.disk = "../examples/f.yml" :> "bad"],
   [Good EXCEPT !.disk = @ @@ (DefaultFeatureConfigFile("f") :> "ok")]}
  \cup {[Good EXCEPT !.x = x] : x \in Extensions}
  \cup {[Good EXCEPT !.project = m, !.tested = m, !.linked = m] : m \in Metas \ {NoMetadata}}
  \cup {[Good EXCEPT !.linked = m] : m \in Metas}
  \cup {[Good EXCEPT !.tested = m] : m \in Metas}

MCIntervals == {0, 5}

=============================================================================
