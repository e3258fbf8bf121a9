---------------------------- MODULE FeatureMetrics ----------------------------
(***************************************************************************)
(* The metric tables of a feature, exporter/featurekit/metrics.go, and the *)
(* tables the helpers add: ttl_cache_metrics.go, last_known_good_metrics.go*)
(* and file_scrape_metrics.go.  A specification is [id, scope, name,       *)
(* labels], with the number of labels; a sample is <<id, label values>>.   *)
(* A panic is the text it panics with, "" if there is none.                *)
(***************************************************************************)
EXTENDS Startup

MetricName(spec, feature, namespace) ==
  CASE spec.scope = "feature"   -> feature \o spec.name
    [] spec.scope = "namespace" -> namespace \o spec.name
    [] OTHER                    -> spec.name

\* An unknown ID panics, here and in Get.
FeatureMetricName(feature, namespace, id, specs) ==
  LET found == {i \in DOMAIN specs : specs[i].id = id}
  IN IF found = {} THEN "panic" ELSE MetricName(specs[Min(found)], feature, namespace)

Repeats(seq) == \E i, j \in DOMAIN seq : i # j /\ seq[i] = seq[j]

validateFeatureMetricSpecs(specs) ==
  FirstError(<<Check(\A i \in DOMAIN specs : specs[i].id # "", "empty ID"),
               Check(~Repeats([i \in DOMAIN specs |-> specs[i].id]), "duplicate ID")>>)

\* [panic, names, labels]: the metric names in order, and the number of labels of each ID.
LoadFeatureMetricDescriptors(feature, namespace, specs) ==
  LET names == [i \in DOMAIN specs |-> MetricName(specs[i], feature, namespace)]
  IN [panic |-> FirstError(<<validateFeatureMetricSpecs(specs),
                             Check("" \notin ToSet(names), "empty name"),
                             Check(~Repeats(names), "duplicate name")>>),
      names |-> names,
      labels |-> [id \in {spec.id : spec \in ToSet(specs)} |->
                   (CHOOSE spec \in ToSet(specs) : spec.id = id).labels]]

\* Get panics at an unknown ID, MustNewConstMetric at a wrong number of label values.
CollectPanic(descriptors, samples) ==
  FirstError(<<Check(\A s \in samples : s[1] \in DOMAIN descriptors.labels, "unknown ID"),
               Check(\A s \in samples : descriptors.labels[s[1]] = s[2], "wrong labels")>>)

-----------------------------------------------------------------------------
(* The tables of the helpers *)

Table(prefix, suffixes, labels) ==
  [i \in DOMAIN suffixes |-> [id |-> prefix \o suffixes[i], scope |-> "feature",
                              name |-> "_" \o prefix \o suffixes[i], labels |-> labels]]

TTLCacheMetrics == <<"_entries", "_hits_total", "_misses_total", "_sets_total",
                     "_deletes_total", "_expired_total", "_clears_total">>
FileScrapeMetrics == <<"_mtime_seconds", "_up", "_valid", "_read_errors_total",
                       "_parse_errors_total", "_scrape_duration_seconds">>
LastKnownGoodMetrics == <<"_last_success_timestamp_seconds", "_consecutive_failures",
                          "_data_available", "_data_stale">>

\* A source is required: MetricIDsFor panics without.
SourcePanic(source) == Check(TrimSpace(source) # "", "source is required")

\* All caches of a feature share the table, and the label cache tells them apart.
TTLCacheMetricSpecs(labels) == Table("cache", TTLCacheMetrics, 1 + labels)
FileScrapeMetricSpecs(source, labels) == Table(source, FileScrapeMetrics, labels)
LastKnownGoodMetricSpecs(source, labels) == Table(source, LastKnownGoodMetrics, labels)

\* Variant: the name of the cache is left out of the label values.
CollectTTLCacheUnlabelled(values) ==
  {<<"cache" \o metric, values>> : metric \in ToSet(TTLCacheMetrics)}

CollectTTLCacheMetrics(values) ==
  {<<"cache" \o metric, 1 + values>> : metric \in ToSet(TTLCacheMetrics)}

CollectFileScrapeMetrics(source, values) ==
  {<<source \o metric, values>> : metric \in ToSet(FileScrapeMetrics)}

CollectLastKnownGoodMetrics(source, values) ==
  {<<source \o metric, values>> : metric \in ToSet(LastKnownGoodMetrics)}

-----------------------------------------------------------------------------
(* A feature that uses helpers: [own, caches, files, values, labels] *)

\* Tables of n specifications each, one after the other.
Appended(tables, n) ==
  [i \in 1 .. n * Len(tables) |-> tables[((i - 1) \div n) + 1][((i - 1) % n) + 1]]

FileSpecs(h) ==
  Appended([i \in DOMAIN h.files |-> FileScrapeMetricSpecs(h.files[i], h.labels)], 6)
ValueSpecs(h) ==
  Appended([i \in DOMAIN h.values |-> LastKnownGoodMetricSpecs(h.values[i], h.labels)], 4)

\* The table of its caches, if any, and those of each source, after its own specifications.
HelperTables(h) ==
  (IF h.caches THEN TTLCacheMetricSpecs(h.labels) ELSE <<>>) \o FileSpecs(h) \o ValueSpecs(h)
HelperSpecs(h) == h.own \o HelperTables(h)

HelperSamples(h) ==
  {<<spec.id, spec.labels>> : spec \in ToSet(h.own)}
    \cup (IF h.caches THEN CollectTTLCacheMetrics(h.labels) ELSE {})
    \cup (UNION {CollectFileScrapeMetrics(source, h.labels) : source \in ToSet(h.files)})
    \cup (UNION {CollectLastKnownGoodMetrics(source, h.labels) : source \in ToSet(h.values)})

\* The panic of a package whose tables cannot be made, ...
TablePanic(h) ==
  FirstError([i \in DOMAIN (h.files \o h.values) |-> SourcePanic((h.files \o h.values)[i])])

\* ... of RegisterCollectors, ...
LoadPanic(h, feature, namespace) ==
  LoadFeatureMetricDescriptors(feature, namespace, HelperSpecs(h)).panic

\* ... and of a scrape.
ScrapePanic(h, feature, namespace) ==
  CollectPanic(LoadFeatureMetricDescriptors(feature, namespace, HelperSpecs(h)),
               HelperSamples(h))

=============================================================================
