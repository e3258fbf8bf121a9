------------------------------ MODULE FeatureKit ------------------------------
(***************************************************************************)
(* Snapshot features, exporter/featurekit: an extension of hooks           *)
(* (extension.go), or a contract of methods (contract.go), becomes a       *)
(* feature (snapshot.go, feature.go), which registers flags, reports its   *)
(* configuration and builds its snapshot collector.                        *)
(*                                                                         *)
(* An extension x has the hooks                                            *)
(*   interval, syncTimeout  durations, 0 if unset                          *)
(*   configFile, resolve    whether ConfigFileFunc and ResolveConfigFunc   *)
(*                          are there; the latter loads the file           *)
(*   flags                  a sequence of [name, bind]                     *)
(*   valid                  what ValidateConfigFunc says                   *)
(*   newSnapshotter, factory          sources, "unset" without a hook      *)
(*   defaultSnapshotter, defaultEngine  snapshotters, "nil" if unset       *)
(*   metrics                "unset", "nil" or "own"                        *)
(*   handlers, errorLog     whether they are there                         *)
(*   helpers                the metric tables of FeatureMetrics            *)
(*   example, metric        the file its smoke test is given, and the      *)
(*                          metric it wants; "" without a smoke hook       *)
(* A snapshotter is "good" or "bad", after the status of its snapshots; a  *)
(* source may return "nil" or "error" as well.                             *)
(***************************************************************************)
EXTENDS FeatureMetrics

DefaultSnapshotRefreshInterval == 30

NormalizeDuration(value, fallback) == IF value <= 0 THEN fallback ELSE value

-----------------------------------------------------------------------------
(* From an extension to a feature *)

\* FeatureDefaults, the contract whose methods are embedded: no hook is missing, for
\* RegisterFlags, NewSnapshotter and NewMetrics are methods that do nothing.
FeatureDefaults ==
  [interval |-> 0, syncTimeout |-> 0, configFile |-> FALSE, resolve |-> FALSE,
   flags |-> <<>>, valid |-> TRUE, newSnapshotter |-> "nil", factory |-> "unset",
   defaultSnapshotter |-> "nil", defaultEngine |-> "nil", metrics |-> "nil",
   handlers |-> FALSE, errorLog |-> FALSE, example |-> "", metric |-> "",
   helpers |-> [own |-> <<>>, caches |-> FALSE, files |-> <<>>, values |-> <<>>, labels |-> 0]]

snapshotExtensionNewSnapshotter(x) ==
  IF x.newSnapshotter # "unset" THEN x.newSnapshotter ELSE x.factory

snapshotExtensionDefaultSnapshotter(x) ==
  IF x.defaultSnapshotter # "nil" THEN x.defaultSnapshotter ELSE x.defaultEngine

\* "specs" stands for NewFeatureMetrics.
snapshotExtensionMetricsFunc(x) ==
  IF x.metrics # "unset" THEN x.metrics
  ELSE IF HelperSpecs(x.helpers) = <<>> /\ ~x.handlers THEN "nil" ELSE "specs"

\* NewSnapshotFeatureSpec and NewFeature, for options [name, interval, fallback].
NewFeature(options, x) ==
  LET fallback == NormalizeDuration(NormalizeDuration(options.fallback, x.interval),
                                    DefaultSnapshotRefreshInterval)
      interval == NormalizeDuration(options.interval, x.interval)
  IN [name |-> Or(options.name, "exporter"),
      defaultInterval |-> NormalizeDuration(interval, fallback),
      specInterval |-> interval,
      refreshInterval |-> NormalizeDuration(interval, fallback),
      file |-> "", x |-> x]

-----------------------------------------------------------------------------
(* Flags and the configuration file *)

\* RegisterFlags: every flag has the name of the feature in front.  A flag without a
\* Bind panics at once, two of one name make Parse fail.
FlagNames(feature) ==
  <<feature.name \o ".refresh-interval">>
    \o (IF feature.x.configFile THEN <<feature.name \o ".config-file">> ELSE <<>>)
    \o [i \in DOMAIN feature.x.flags |-> feature.name \o "." \o feature.x.flags[i].name]

RegisterFlags(feature) ==
  FirstError(<<Check(\A i \in DOMAIN feature.x.flags : feature.x.flags[i].bind, "panic"),
               Check(~Repeats(FlagNames(feature)), "duplicate flag")>>)

\* Parse sets what args, a function of flag names, gives; all else keeps its default.
ParseFlags(feature, args) ==
  [feature EXCEPT
     !.refreshInterval = IF feature.name \o ".refresh-interval" \in DOMAIN args
                         THEN args[feature.name \o ".refresh-interval"] ELSE @,
     !.file = IF feature.name \o ".config-file" \in DOMAIN args
              THEN args[feature.name \o ".config-file"] ELSE @]

ParseError(feature, args) ==
  FirstError(<<RegisterFlags(feature),
               Check(DOMAIN args \subseteq ToSet(FlagNames(feature)), "unknown flag")>>)

DefaultFeatureConfigFile(name) ==
  "/etc/prometheus/prometheus-" \o Or(TrimSpace(name), "exporter") \o "-exporter.yml"

\* A disk gives the files that are there: "ok", "bad" (unknown fields) or "empty".
LoadFeatureConfigFile(name, explicit, disk) ==
  LET path == Or(TrimSpace(explicit), DefaultFeatureConfigFile(name))
      there == path \in DOMAIN disk
  IN [path |-> path, loaded |-> there /\ disk[path] \in {"ok", "empty"},
      error |-> FirstError(<<Check(there \/ TrimSpace(explicit) = "", "no such file"),
                             Check(there => disk[path] # "bad", "cannot parse")>>)]

\* Without a resolver the file is named, and not read.
ResolveFeatureConfig(feature, disk) ==
  IF feature.x.resolve THEN LoadFeatureConfigFile(feature.name, feature.file, disk)
  ELSE [path |-> IF feature.x.configFile
                 THEN Or(TrimSpace(feature.file), DefaultFeatureConfigFile(feature.name)) ELSE "",
        loaded |-> FALSE, error |-> ""]

\* RuntimeConfig: a preparation that failed leaves the file's name and an error.
RuntimeConfig(feature, disk) ==
  LET resolved == ResolveFeatureConfig(feature, disk)
  IN [refresh_interval |-> NormalizeDuration(feature.refreshInterval, feature.defaultInterval),
      config_file |-> IF feature.x.configFile THEN resolved.path ELSE "",
      config_file_loaded |-> feature.x.configFile /\ resolved.error = "" /\ resolved.loaded,
      config_error |-> resolved.error]

-----------------------------------------------------------------------------
(* Collectors *)

ResolveSnapshotCollectorOptions(o) ==
  [name |-> Or(o.name, "exporter"), namespace |-> Or(o.namespace, "exporter"),
   snapshotter |-> IF o.snapshotter = "nil" THEN o.defaultSnapshotter ELSE o.snapshotter,
   defaultSnapshotter |-> o.defaultSnapshotter, syncTimeout |-> o.syncTimeout,
   interval |-> NormalizeDuration(o.interval,
                  NormalizeDuration(o.defaultInterval, DefaultSnapshotRefreshInterval)),
   defaultInterval |-> NormalizeDuration(o.defaultInterval, DefaultSnapshotRefreshInterval)]

\* NewSnapshotMetricsCollector.  panic is that of the metrics, source the snapshotter
\* that they are told of, names all that Describe sends.  The collector itself puts an
\* empty snapshot, which is no success, in the place of a missing snapshotter.
NewSnapshotMetricsCollector(options, x) ==
  LET o == ResolveSnapshotCollectorOptions(options)
      metrics == snapshotExtensionMetricsFunc(x)
      info == StandardMetricInfo(o.namespace)
      table == LoadFeatureMetricDescriptors(o.name, o.namespace, HelperSpecs(x.helpers))
  IN [name |-> o.name, namespace |-> o.namespace,
      snapshotter |-> IF o.snapshotter = "nil" THEN "bad" ELSE o.snapshotter,
      source |-> o.snapshotter, interval |-> o.interval, syncTimeout |-> o.syncTimeout,
      panic |-> IF metrics = "specs" THEN LoadPanic(x.helpers, o.name, o.namespace) ELSE "",
      names |-> (IF metrics = "specs" THEN table.names ELSE <<>>)
                  \o <<info.LastCollectionSuccess, info.LastCollectionTimestampSeconds,
                       info.LastSuccessfulCollectionTimestampSeconds,
                       info.CollectionDurationSeconds>>,
      logs |-> IF x.errorLog THEN "hook"
               ELSE IF metrics = "specs" THEN "metrics" ELSE "nobody"]

\* Variant: the interval of the flag is taken as it is.
CollectorOptionsRaw(feature, namespace) ==
  LET snapshotter == snapshotExtensionNewSnapshotter(feature.x)
  IN [name |-> feature.name, namespace |-> namespace,
      snapshotter |-> IF snapshotter = "unset" THEN "nil" ELSE snapshotter,
      defaultSnapshotter |-> snapshotExtensionDefaultSnapshotter(feature.x),
      interval |-> feature.refreshInterval, defaultInterval |-> feature.specInterval,
      syncTimeout |-> feature.x.syncTimeout]

\* What RegisterCollectors hands to NewCollectorFunc, and this to the collector.
CollectorOptions(feature, namespace) ==
  LET snapshotter == snapshotExtensionNewSnapshotter(feature.x)
  IN [name |-> feature.name, namespace |-> namespace,
      snapshotter |-> IF snapshotter = "unset" THEN "nil" ELSE snapshotter,
      defaultSnapshotter |-> snapshotExtensionDefaultSnapshotter(feature.x),
      interval |-> NormalizeDuration(feature.refreshInterval, feature.defaultInterval),
      defaultInterval |-> feature.specInterval, syncTimeout |-> feature.x.syncTimeout]

Collector(feature, namespace) ==
  NewSnapshotMetricsCollector(CollectorOptions(feature, namespace), feature.x)

\* The error of RegisterCollectors, or its panic, in a registry that has taken names.
RegisterCollectors(feature, namespace, disk, taken) ==
  LET collector == Collector(feature, namespace)
  IN FirstError(<<ResolveFeatureConfig(feature, disk).error,
                  Check(feature.x.valid, "invalid configuration"),
                  Check(snapshotExtensionNewSnapshotter(feature.x) # "error", "no snapshotter"),
                  collector.panic,
                  Check(~Repeats(collector.names) /\ ToSet(collector.names) \cap taken = {},
                        "already registered")>>)

\* FeatureSmoke of a generated exporter: its example file, and the one metric that it looks
\* up among its own.  An unknown one panics.
SmokePanics(x) == x.example # "" /\ x.metric \notin {spec.id : spec \in ToSet(x.helpers.own)}

SmokeSpec(feature) ==
  LET x == feature.x
  IN IF x.example = "" THEN [args |-> {}, want |-> {}, reject |-> {}]
     ELSE [args |-> {<<feature.name \o ".config-file", "../examples/" \o x.example>>},
           want |-> {<<FeatureMetricName(feature.name, "", x.metric, x.helpers.own), 1>>},
           reject |-> {}]

=============================================================================
