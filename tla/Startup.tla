------------------------------- MODULE Startup -------------------------------
(***************************************************************************)
(* What an exporter decides before it serves: exporter/injected.go and     *)
(* cli.go, config.go, injected.go and version.go of exporter/internal/app. *)
(* Five texts are linked into the binary; they become a configuration, the *)
(* command line is parsed, and the first check that fails ends the start.  *)
(* A text is a string, "" if unset.  An error is a text, "" if all is well.*)
(***************************************************************************)
EXTENDS Naturals, FiniteSetsExt, SequencesExt

CONSTANTS
  Padded,       \* the texts with white space around them, each with what is left without
  Identifiers,  \* the texts made of letters, digits and underscores, no digit first
  Addresses,    \* the texts of the form host:port or :port
  Paths         \* the texts that are telemetry paths

\* What is left has none around it, nor has a text of this program, or an identifier.
ASSUME TextsAssumption ==
  /\ \A text \in DOMAIN Padded : Padded[text] \notin DOMAIN Padded
  /\ {"", ".", "dev", "namespace is empty", "telemetry path is invalid", "exporter",
      "no such file", "cannot parse", "already registered"} \cap DOMAIN Padded = {}
  /\ \A text \in Addresses : text # "" /\ (text \in DOMAIN Padded => Padded[text] # "")
  /\ Identifiers \cap ({"", "."} \cup DOMAIN Padded) = {}

TrimSpace(text) == IF text \in DOMAIN Padded THEN Padded[text] ELSE text
Or(text, default) == IF text = "" THEN default ELSE text

firstNonEmpty(values) ==
  LET filled == {i \in DOMAIN values : TrimSpace(values[i]) # ""}
  IN IF filled = {} THEN "" ELSE TrimSpace(values[Min(filled)])

\* Checks are made in order, and the first that fails is reported.
FirstError(errors) == firstNonEmpty(errors)
Check(holds, error) == IF holds THEN "" ELSE error

-----------------------------------------------------------------------------
(* Version metadata: [version, branch, revision] *)

NoVersion == [version |-> "", branch |-> "", revision |-> ""]

normalizeBuildVersion(text) == IF TrimSpace(text) = "(devel)" THEN "" ELSE text
normalizeComputedRevision(text) == IF TrimSpace(text) = "unknown" THEN "" ELSE text

\* Variant: what the Go tool recorded goes before what was stamped.
ResolveFromBuildFirst(current, computed, build) ==
  [version  |-> firstNonEmpty(<<normalizeBuildVersion(build.version), current.version, "dev">>),
   branch   |-> firstNonEmpty(<<build.branch, current.branch, "dev">>),
   revision |-> firstNonEmpty(<<normalizeComputedRevision(build.revision), current.revision, "dev">>)]

\* What was stamped at link time, else what the Go tool recorded, else "dev".
ResolveVersionMetadata(current, computed, build) ==
  [version  |-> firstNonEmpty(<<current.version, normalizeBuildVersion(build.version), "dev">>),
   branch   |-> firstNonEmpty(<<current.branch, build.branch, "dev">>),
   revision |-> firstNonEmpty(<<current.revision, normalizeComputedRevision(build.revision),
                                normalizeComputedRevision(computed), "dev">>)]

\* Once a revision is set, version.GetRevision returns it.
HydrateVersionMetadata(current, build) ==
  ResolveVersionMetadata(current, Or(current.revision, "unknown"), build)

-----------------------------------------------------------------------------
(* Injected metadata: [name, description, feature, namespace, listen] *)

InjectedDefault(field, text) == Check(TrimSpace(text) # "", "missing " \o field)

validateMetricNamespace(text) ==
  FirstError(<<Check(TrimSpace(text) # "", "namespace is empty"),
               Check(TrimSpace(text) = text, "namespace has white space around it"),
               Check(text \in Identifiers, "namespace is no identifier")>>)

ValidateListenAddress(text) ==
  FirstError(<<Check(TrimSpace(text) # "", "listen address is empty"),
               Check(text \in Addresses, "listen address is malformed")>>)

Validate(m) ==
  FirstError(<<InjectedDefault("name", m.name), InjectedDefault("description", m.description),
               InjectedDefault("feature", m.feature), InjectedDefault("namespace", m.namespace),
               validateMetricNamespace(m.namespace),
               InjectedDefault("listen", m.listen), ValidateListenAddress(m.listen)>>)

\* The error of InjectedProjectMetadataErr: all five are looked for before any is judged.
InjectedProjectMetadataErr(m) ==
  FirstError(<<InjectedDefault("name", m.name), InjectedDefault("description", m.description),
               InjectedDefault("feature", m.feature), InjectedDefault("namespace", m.namespace),
               InjectedDefault("listen", m.listen), Validate(m)>>)

\* RequireInjectedDefault and its kin panic with the error.
InjectedFeatureName(m) == InjectedDefault("feature", m.feature)

StandardMetricInfo(namespace) ==
  [BuildInfo |-> namespace \o "_build_info",
   CollectionDurationSeconds |-> namespace \o "_collection_duration_seconds",
   LastCollectionSuccess |-> namespace \o "_last_collection_success",
   LastCollectionTimestampSeconds |-> namespace \o "_last_collection_timestamp_seconds",
   LastSuccessfulCollectionTimestampSeconds |->
     namespace \o "_last_successful_collection_timestamp_seconds"]

\* A smoke specification is [args, want, reject]: sets of flags, and of texts that are a
\* metric with its value.
ExporterInfoFromProjectMetadata(m, spec) ==
  LET success == StandardMetricInfo(m.namespace).LastCollectionSuccess
  IN [name |-> m.name, description |-> m.description, feature |-> m.feature,
      namespace |-> m.namespace, listen |-> m.listen,
      metrics |-> StandardMetricInfo(m.namespace),
      smoke |-> [forbidden |-> {m.namespace},
                 renamed |-> "renamed-" \o m.feature \o "-exporter",
                 args |-> spec.args,
                 want |-> spec.want \cup {<<success, 1>>},
                 reject |-> spec.reject \cup {<<success, 0>>}]]

-----------------------------------------------------------------------------
(* The command line *)

\* Variant: the namespace follows the name.
ConfigWithoutNamespace(m) ==
  [name |-> m.name, namespace |-> "", description |-> m.description,
   listen |-> m.listen, path |-> ""]

ConfigFromInjectedProject(m) ==
  [name |-> m.name, namespace |-> m.namespace, description |-> m.description,
   listen |-> m.listen, path |-> ""]

\* The file's base name; "" stands for an empty os.Args.
ExecutableName(base, fallback) ==
  IF base = "." \/ TrimSpace(base) = "" THEN fallback ELSE base

normalized(c) ==
  LET name == Or(c.name, "exporter_framework")
  IN [name |-> name, namespace |-> Or(c.namespace, name),
      description |-> Or(c.description, "Prometheus exporter framework"),
      listen |-> Or(c.listen, ":9900"), path |-> Or(c.path, "/metrics")]

\* What a process called base makes of configuration c and its command line:
\* action is "help", "version" or "serve", path what --web.telemetry-path gives, "" if
\* it is not given, and flags the error that the features' flags lead to in Parse.
\* usage is the name it goes by, error what it exits with; the features' collectors,
\* registered last, may add an error.
RunCLI(base, c, flags, action, path) ==
  LET cfg == normalized([c EXCEPT !.name = ExecutableName(base, c.name)])
      metricsPath == Or(path, cfg.path)
      parse == FirstError(<<ValidateListenAddress(cfg.listen), flags>>)
      start == FirstError(<<Check(metricsPath \in Paths, "telemetry path is invalid"),
                            validateMetricNamespace(cfg.namespace)>>)
  IN [usage |-> cfg.name, namespace |-> cfg.namespace,
      error |-> IF parse # "" \/ action # "serve" THEN parse ELSE start]

=============================================================================
