---------------------------- MODULE ExporterTests ----------------------------
(***************************************************************************)
(* The tests of a generated exporter, exporter/exportertest: the adapter   *)
(* contract, the feature test suite, its test of the background refresh,   *)
(* and the smoke test of the binary, whose server part is Smoketest.  What *)
(* is tested is a build:                                                   *)
(*   project   the metadata written into the test of the adapter           *)
(*   tested    the metadata linked into the smoke test                     *)
(*   binary    "prebuilt", "missing", or "none": the test builds one       *)
(*   linked, stamp, vcs   what is linked into the prebuilt binary: metadata*)
(*             and version, and what the Go tool recorded                  *)
(*   base      its file name                                               *)
(*   x         the extension of its feature                                *)
(*   disk      the configuration files of the machine                      *)
(***************************************************************************)
EXTENDS Integers, Smoketest, FeatureKit

CONSTANTS
  Builds,
  Intervals   \* durations in seconds that options and flags may give

\* The types of builds, of which no test's own file is on the disk, and texts of the tests.
ASSUME TestsAssumption ==
  /\ Intervals \subseteq Int
  /\ \A b \in Builds :
       /\ {b.project, b.tested, b.linked} \subseteq
            [name : STRING, description : STRING, feature : STRING, namespace : STRING,
             listen : STRING]
       /\ b.base \in STRING /\ b.x.interval \in Int
       /\ b.x.flags \in Seq([name : STRING, bind : BOOLEAN])
       /\ b.x.helpers \in
            [own : Seq([id : STRING, scope : {"feature", "namespace", "absolute"}, name : STRING,
                       labels : Nat]),
             caches : BOOLEAN, files : Seq(STRING), values : Seq(STRING), labels : Nat]
       /\ {"/tmp/feature.yml", "/tmp/bad.yml", "/tmp/missing.yml"} \cap DOMAIN b.disk = {}
       /\ "renamed-" \o b.project.feature \o "-exporter" \notin {"", "."} \cup DOMAIN Padded
  /\ {"/tmp/feature.yml", "/tmp/bad.yml", "/tmp/missing.yml", "v9.8.7", "smoke-branch",
      "abc123def"} \cap DOMAIN Padded = {}
  /\ " /tmp/feature.yml " \in DOMAIN Padded /\ Padded[" /tmp/feature.yml "] = "/tmp/feature.yml"
  /\ "metrics" \notin Paths

VARIABLES
  build,
  outcome,   \* what becomes of it
  stage,     \* "adapter", "suite", "background", "smoke", "server" or "over"
  failed,    \* the tests that have failed
  wait,      \* the background test: "off", "up", "down", "passed" or "failed"
  fake,      \* the snapshot of its FakeSnapshotter
  cached,    \* the snapshot of its collector, "none" at first
  by,        \* who stored it: "nobody", "loop" or "scrape"
  loop,      \* the collector's loop: "none", "due", "idle" or "refreshing"
  scraping,  \* whether a scrape refreshes
  held,      \* what the refresh under way has got from the snapshotter
  deadline   \* whether the deadline of the wait has passed

background == <<wait, fake, cached, by, loop, scraping, held, deadline>>
testVars == <<build, outcome, stage, failed, background>>
allVars == <<vars, testVars>>

-----------------------------------------------------------------------------
(* Tests and processes *)

\* A record of tests, each with whether it passes.
Failures(tests) == {t \in DOMAIN tests : ~tests[t]}

Options(name) == [name |-> name, interval |-> 0, fallback |-> 0]
NewNamedFeature(b, name) == NewFeature(Options(name), b.x)

\* WaitForMetricValue gathers until last_collection_success is 1: snapshots do not
\* change here, so it is 1 from the first collection on, or never.
Collects(collector, snapshot) ==
  collector.panic = "" /\ collector.snapshotter = snapshot

RunInjectedAdapterContract(b) ==
  LET m == b.project
      info == ExporterInfoFromProjectMetadata(m, SmokeSpec(NewNamedFeature(b, m.feature)))
  IN [creates_feature |-> NewNamedFeature(b, m.feature).name = m.feature,
      main_delegates |-> NewNamedFeature(b, m.feature).name = m.feature,
      reports_info |->
        /\ Validate(m) = "" /\ ~SmokePanics(b.x)
        /\ [name |-> info.name, description |-> info.description, feature |-> info.feature,
            namespace |-> info.namespace, listen |-> info.listen] = m
        /\ info.metrics = StandardMetricInfo(m.namespace)
        /\ m.namespace \in info.smoke.forbidden
        /\ <<info.metrics.LastCollectionSuccess, 1>> \in info.smoke.want
        /\ <<info.metrics.LastCollectionSuccess, 0>> \in info.smoke.reject
        /\ SmokeSpec(NewNamedFeature(b, m.feature)).args \subseteq info.smoke.args]

\* Files that tests write: the scratch directory holds no missing.yml.
Scratch(b) ==
  [file \in DOMAIN b.disk \cup {"/tmp/feature.yml", "/tmp/bad.yml"} |->
     CASE file = "/tmp/feature.yml" -> "ok" [] file = "/tmp/bad.yml" -> "bad"
       [] OTHER -> b.disk[file]]

\* The command line of a test that gives one flag.
Given(flag, value) == [f \in {flag} |-> value]

NamedFeature(b) == NewNamedFeature(b, b.project.feature)
ConfigFileFlag(b) == b.project.feature \o ".config-file"

\* The third part registers one feature twice in a registry.
RunFeatureContract(b, args, want) ==
  LET feature == NamedFeature(b)
      namespace == b.project.namespace
      parsed == ParseFlags(feature, args)
  IN /\ ParseError(feature, args) = ""
     /\ \A key \in DOMAIN want : RuntimeConfig(parsed, b.disk)[key] = want[key]
     /\ RegisterCollectors(parsed, namespace, b.disk, {}) = ""
     /\ Collects(Collector(parsed, namespace), "good")
     /\ RegisterCollectors(feature, namespace, b.disk, {}) = ""
     /\ RegisterCollectors(feature, namespace, b.disk,
                           ToSet(Collector(feature, namespace).names)) # ""

testExporterContract(b) ==
  RunFeatureContract(b, Given(b.project.feature \o ".refresh-interval", 30),
                     [refresh_interval |-> 30, config_file_loaded |-> FALSE,
                      config_file |-> DefaultFeatureConfigFile(b.project.feature)])

testExporterRegistersCollectors(b) ==
  /\ ParseError(NamedFeature(b), <<>>) = ""
  /\ RegisterCollectors(NamedFeature(b), b.project.namespace, b.disk, {}) = ""
  /\ Collects(Collector(NamedFeature(b), b.project.namespace), "good")

testContractFeatureDefaults(b) ==
  LET report == RuntimeConfig(NewNamedFeature(b, ""), b.disk)
  IN /\ ParseError(NewNamedFeature(b, ""), <<>>) = ""
     /\ report.refresh_interval = NormalizeDuration(b.x.interval, DefaultSnapshotRefreshInterval)
     /\ report.config_file = DefaultFeatureConfigFile("")
     /\ ~report.config_file_loaded

testFeatureConfigFileHook(b) ==
  LET given(path) == ParseFlags(NamedFeature(b), Given(ConfigFileFlag(b), path))
      report == RuntimeConfig(given("/tmp/feature.yml"), Scratch(b))
  IN /\ b.x.configFile
     /\ ParseError(NamedFeature(b), Given(ConfigFileFlag(b), "/tmp/feature.yml")) = ""
     /\ report.config_file = "/tmp/feature.yml" /\ report.config_file_loaded
     /\ RegisterCollectors(given("/tmp/missing.yml"), b.project.namespace, Scratch(b), {}) # ""

testFeatureConfigFileLoader(b) ==
  LET load(path) == LoadFeatureConfigFile(b.project.feature, path, Scratch(b))
  IN /\ load("/tmp/missing.yml") =
          [path |-> "/tmp/missing.yml", loaded |-> FALSE, error |-> "no such file"]
     /\ load("/tmp/bad.yml").error # "" /\ ~load("/tmp/bad.yml").loaded
     /\ load(" /tmp/feature.yml ") = [path |-> "/tmp/feature.yml", loaded |-> TRUE, error |-> ""]

testSmokeSpecIncludesConfigFile(b) ==
  LET file == Or(b.x.example, "prometheus-" \o b.project.feature \o "-exporter.yml")
  IN <<ConfigFileFlag(b), "../examples/" \o file>> \in SmokeSpec(NamedFeature(b)).args

testMetricNameContract(b) ==
  LET specs == HelperSpecs(b.x.helpers)
  IN /\ specs # <<>>
     /\ FeatureMetricName("feature", "namespace", specs[1].id, specs)
          = MetricName(specs[1], "feature", "namespace")
     /\ FeatureMetricName("feature", "namespace", "missing_metric", specs) = "panic"

\* NewCollector of the suite, and the gathering of a collector.
NewCollector(b, name, namespace, snapshotter, default) ==
  NewSnapshotMetricsCollector(
    [name |-> name, namespace |-> namespace, snapshotter |-> snapshotter,
     defaultSnapshotter |-> default, interval |-> 0, defaultInterval |-> b.x.interval,
     syncTimeout |-> 0], b.x)

testCollectorDefaultsAndFailureMetrics(b) ==
  LET collector == NewCollector(b, "", "", "bad", snapshotExtensionDefaultSnapshotter(b.x))
  IN Collects(collector, "bad") /\ collector.namespace = "exporter"

testCollectorUsesDefaultSnapshotter(b) ==
  Collects(NewCollector(b, b.project.feature, b.project.namespace, "nil",
                        snapshotExtensionDefaultSnapshotter(b.x)), "good")

\* The tests of NewFeatureTestSuite but for the background refresh.  They run in
\* parallel, and share nothing that changes.
RunTests(b) ==
  [exporter_contract |-> testExporterContract(b),
   exporter_registers_collectors |-> testExporterRegistersCollectors(b),
   contract_feature_defaults |-> testContractFeatureDefaults(b),
   feature_config_file_hook |-> testFeatureConfigFileHook(b),
   feature_config_file_loader |-> testFeatureConfigFileLoader(b),
   smoke_spec_includes_config_file |-> testSmokeSpecIncludesConfigFile(b),
   metric_name_contract |-> testMetricNameContract(b),
   collector_defaults_and_failure_metrics |-> testCollectorDefaultsAndFailureMetrics(b),
   collector_uses_default_snapshotter |-> testCollectorUsesDefaultSnapshotter(b)]

\* The tables are made, loaded for the suite's names and for the defaults, and collected;
\* the smoke specification is asked for.
Panics(b) ==
  LET panics(name, namespace) == \/ LoadPanic(b.x.helpers, name, namespace) # ""
                                 \/ ScrapePanic(b.x.helpers, name, namespace) # ""
  IN \/ TablePanic(b.x.helpers) # "" \/ SmokePanics(b.x)
     \/ snapshotExtensionMetricsFunc(b.x) = "specs" /\ ( \/ panics("exporter", "exporter")
                                                         \/ panics(b.project.feature, b.project.namespace))

-----------------------------------------------------------------------------
(* The binary *)

NoMetadata == [name |-> "", description |-> "", feature |-> "", namespace |-> "", listen |-> ""]
SmokeVersion == [version |-> "v9.8.7", branch |-> "smoke-branch", revision |-> "abc123def"]

\* InfoErr of a generated exporter: NewFeature() is evaluated first, the feature is asked
\* for its smoke specification last.
InfoErr(b) ==
  IF InjectedFeatureName(b.tested) # "" THEN "panic"
  ELSE IF InjectedProjectMetadataErr(b.tested) # "" THEN "error"
  ELSE IF SmokePanics(b.x) THEN "panic" ELSE "info"

Info(b) ==
  ExporterInfoFromProjectMetadata(b.tested, SmokeSpec(NewNamedFeature(b, b.tested.feature)))

\* buildBinary stamps a version, and links no metadata.
testBinary(b) ==
  IF b.binary = "none" THEN [metadata |-> NoMetadata, stamp |-> SmokeVersion, vcs |-> b.vcs]
  ELSE [metadata |-> b.linked, stamp |-> b.stamp, vcs |-> b.vcs]

\* A process of the binary under the name base: Main of a generated exporter, which
\* panics without its metadata, and MainFromInjectedProject.
Process(b, base, action, args, path) ==
  LET m == testBinary(b).metadata
      feature == NewNamedFeature(b, m.feature)
      cli == RunCLI(base, ConfigFromInjectedProject(m), ParseError(feature, args), action, path)
      taken == {StandardMetricInfo(cli.namespace).BuildInfo}
      collectors == RegisterCollectors(ParseFlags(feature, args), cli.namespace, b.disk, taken)
  IN [usage |-> cli.usage, namespace |-> cli.namespace,
      error |-> FirstError(<<InjectedProjectMetadataErr(m), cli.error,
                             IF action = "serve" THEN collectors ELSE "">>),
      version |-> HydrateVersionMetadata(testBinary(b).stamp, testBinary(b).vcs),
      collector |-> Collector(ParseFlags(feature, args), cli.namespace)]

BinaryName(b) == IF b.binary = "none" THEN b.tested.name ELSE b.base
ServerArgs(b) == LET args == Info(b).smoke.args
                 IN [flag \in {a[1] : a \in args} |-> (CHOOSE a \in args : a[1] = flag)[2]]
Server(b) == Process(b, BinaryName(b), "serve", ServerArgs(b), "/metrics")

RunBinary(b) ==
  LET help(base) == Process(b, base, "help", <<>>, "")
      version == Process(b, BinaryName(b), "version", <<>>, "")
      renamed == Info(b).smoke.renamed
  IN [injected_version |-> version.error = "" /\ version.version = SmokeVersion,
      concrete_name |-> /\ help(BinaryName(b)).error = ""
                        /\ help(BinaryName(b)).usage = b.tested.name
                        /\ b.tested.name \notin Info(b).smoke.forbidden,
      file_name |-> help(renamed).error = "" /\ help(renamed).usage = renamed,
      invalid_path |-> Process(b, BinaryName(b), "serve", <<>>, "metrics").error
                         = "telemetry path is invalid"]

\* The text of a scrape, by its samples: metrics of the framework and of the feature itself,
\* labels as pairs of name and value; none if the scrape panics.
Sample(metric, labels, value) == [metric |-> metric, labels |-> labels, value |-> value]

Served(b) ==
  LET p == Server(b)
      info == StandardMetricInfo(p.namespace)
      success == IF p.collector.snapshotter = "good" THEN 1 ELSE 0
      own == {Sample(MetricName(spec, p.collector.name, p.namespace),
                     IF spec.labels = 0 THEN {} ELSE {<<"label", "">>}, 1) :
                spec \in ToSet(b.x.helpers.own)}
  IN IF ScrapePanic(b.x.helpers, p.collector.name, p.namespace) # "" THEN {}
     ELSE {Sample(info.BuildInfo, {<<field, p.version[field]>> : field \in DOMAIN p.version}, 1),
           Sample(info.LastCollectionSuccess, {}, success)}
            \cup IF success = 1 THEN own ELSE {}

-----------------------------------------------------------------------------
(* The search of the text: strings.Contains *)

\* Variant: any version will do.
WantsWithoutVersion(b) ==
  [names |-> {Info(b).metrics.BuildInfo}, labels |-> {}, samples |-> Info(b).smoke.want]

\* What is wanted: the name of a metric, labels with their values, and metrics with theirs,
\* each by itself and anywhere.
metricWants(b) ==
  [names |-> {Info(b).metrics.BuildInfo},
   labels |-> {<<field, SmokeVersion[field]>> : field \in DOMAIN SmokeVersion},
   samples |-> Info(b).smoke.want]

Within(text, part) ==
  \E i \in 0 .. Len(text) - Len(part) : SubSeq(text, i + 1, i + Len(part)) = part

EndsWith(text, part) ==
  /\ Len(part) <= Len(text)
  /\ SubSeq(text, Len(text) - Len(part) + 1, Len(text)) = part

\* A metric with its value is found where a longer name ends in it, and no labels follow.
ContainsSample(samples, want) ==
  \E s \in samples : EndsWith(s.metric, want[1]) /\ s.labels = {} /\ s.value = want[2]

containsAll(samples, wants) ==
  /\ \A name \in wants.names : \E s \in samples : Within(s.metric, name)
  /\ \A label \in wants.labels : \E s \in samples : label \in s.labels
  /\ \A want \in wants.samples : ContainsSample(samples, want)

\* What becomes of a build.  No test changes what another one sees, so that this is known
\* from the start.
Outcome(b) ==
  [adapter |-> Failures(RunInjectedAdapterContract(b)),
   setup |-> TablePanic(b.x.helpers) # "",
   panics |-> Panics(b),
   suite |-> Failures(RunTests(b)),
   info |-> InfoErr(b),
   binary |-> Failures(RunBinary(b)),
   serves |-> Server(b).error = "",
   complete |-> /\ containsAll(Served(b), metricWants(b))
                /\ \A want \in Info(b).smoke.reject : ~ContainsSample(Served(b), want)]

TestsInit ==
  /\ Init
  /\ build \in Builds
  /\ outcome = Outcome(build)
  /\ stage = "adapter"
  /\ failed = {}
  /\ wait = "off" /\ fake = "good" /\ cached = "none" /\ by = "nobody"
  /\ loop = "none" /\ scraping = FALSE /\ held = "none" /\ deadline = FALSE

-----------------------------------------------------------------------------
(* The stages *)

TestAdapter ==
  /\ stage = "adapter"
  /\ failed' = outcome.adapter
  /\ stage' = "suite"
  /\ UNCHANGED <<vars, build, outcome, background>>

\* A panic ends the tests of the package, and one while it is set up those of every
\* package that imports it.
TestSuite ==
  /\ stage = "suite"
  /\ IF outcome.panics
     THEN /\ failed' = failed \cup {"panic"}
          /\ stage' = IF outcome.setup THEN "over" ELSE "smoke"
          /\ UNCHANGED <<wait, loop>>
     ELSE /\ failed' = failed \cup outcome.suite
          /\ stage' = "background"
          /\ wait' = "up"
          /\ loop' = "due"
  /\ UNCHANGED <<vars, build, outcome, fake, cached, by, scraping, held, deadline>>

\* TestBinarySmoke and setDefaults, whose defaults are valid.
SmokeSkipped ==
  /\ stage = "smoke"
  /\ outcome.info # "info" \/ build.binary = "missing"
  /\ stage' = "over"
  /\ failed' = failed \cup CASE outcome.info = "panic" -> {"smoke panic"}
                             [] outcome.info = "error" -> {}
                             [] OTHER -> {"smoke binary"}
  /\ UNCHANGED <<vars, build, outcome, background>>

TestBinary ==
  /\ stage = "smoke"
  /\ outcome.info = "info" /\ build.binary # "missing"
  /\ failed' = failed \cup outcome.binary
  /\ stage' = "server"
  /\ UNCHANGED <<vars, build, outcome, background>>

\* Only a process that gets through its start binds the port, and unless the port is
\* somebody else's the metrics are its own.
AsBuilt ==
  /\ (\E n \in Tries : server'[n] = "serving") => outcome.serves
  /\ verdict' = "pass" /\ ~lost => outcome.complete
  /\ UNCHANGED testVars

\* The server part, by the actions of Smoketest.
TestServer == stage = "server" /\ Next /\ AsBuilt

TestsOver ==
  /\ stage = "server"
  /\ pc = "done"
  /\ stage' = "over"
  /\ failed' = IF verdict = "pass" THEN failed ELSE failed \cup {"server"}
  /\ UNCHANGED <<vars, build, outcome, background>>

-----------------------------------------------------------------------------
(* testCollectorBackgroundRefreshUpdatesSnapshotOutsideScrape *)

refreshing == loop = "refreshing" \/ scraping

\* The first refresh of the loop, or one at a tick, with beginRefresh; what the
\* snapshotter returns is read before it is stored.
LoopRefreshes ==
  /\ stage = "background"
  /\ loop \in {"due", "idle"}
  /\ IF refreshing THEN loop' = "idle" /\ UNCHANGED held
                   ELSE loop' = "refreshing" /\ held' = fake
  /\ UNCHANGED <<vars, build, outcome, stage, failed, wait, fake, cached, by, scraping, deadline>>

LoopStores ==
  /\ stage = "background"
  /\ loop = "refreshing"
  /\ loop' = "idle"
  /\ cached' = held
  /\ by' = "loop"
  /\ UNCHANGED <<vars, build, outcome, stage, failed, wait, fake, scraping, held, deadline>>

\* Variant: a started loop does not keep a scrape from refreshing stale data.
ScrapeRefreshesStale ==
  /\ stage = "background"
  /\ wait \in {"up", "down"}
  /\ ~refreshing
  /\ scraping' = TRUE
  /\ held' = fake
  /\ UNCHANGED <<vars, build, outcome, stage, failed, wait, fake, cached, by, loop, deadline>>

\* A scrape refreshes as long as there is no snapshot; it waits for a refresh under way.
ScrapeRefreshes ==
  /\ stage = "background"
  /\ wait \in {"up", "down"}
  /\ cached = "none"
  /\ ~refreshing
  /\ scraping' = TRUE
  /\ held' = fake
  /\ UNCHANGED <<vars, build, outcome, stage, failed, wait, fake, cached, by, loop, deadline>>

\* WaitForMetricValueWithin looks at a value: it is the wanted one, or the deadline has
\* passed, or it polls again.  Between the two waits the snapshotter turns bad.
Look(value) ==
  \/ /\ wait = "up" /\ value = "good"
     /\ wait' = "down" /\ fake' = "bad" /\ deadline' = FALSE
  \/ /\ wait = "down" /\ value = "bad"
     /\ wait' = "passed" /\ UNCHANGED <<fake, deadline>>
  \/ /\ value # (IF wait = "up" THEN "good" ELSE "bad")
     /\ wait' = IF deadline THEN "failed" ELSE wait
     /\ UNCHANGED <<fake, deadline>>

ScrapeStores ==
  /\ scraping
  /\ scraping' = FALSE
  /\ cached' = held
  /\ by' = "scrape"
  /\ Look(held)
  /\ UNCHANGED <<vars, build, outcome, stage, failed, loop, held>>

ScrapeReads ==
  /\ stage = "background"
  /\ wait \in {"up", "down"}
  /\ ~scraping
  /\ cached # "none"
  /\ Look(cached)
  /\ UNCHANGED <<vars, build, outcome, stage, failed, cached, by, loop, scraping, held>>

WaitDeadline ==
  /\ stage = "background"
  /\ wait \in {"up", "down"}
  /\ ~deadline
  /\ deadline' = TRUE
  /\ UNCHANGED <<vars, build, outcome, stage, failed, wait, fake, cached, by, loop, scraping, held>>

\* The cleanup cancels the context of the loop.
BackgroundOver ==
  /\ stage = "background"
  /\ wait \in {"passed", "failed"}
  /\ stage' = "smoke"
  /\ failed' = IF wait = "passed" THEN failed ELSE failed \cup {"collector_background_refresh"}
  /\ loop' = "none"
  /\ UNCHANGED <<vars, build, outcome, wait, fake, cached, by, scraping, held, deadline>>

-----------------------------------------------------------------------------
LoopStep == LoopRefreshes \/ LoopStores
ScrapeStep == ScrapeRefreshes \/ ScrapeStores \/ ScrapeReads
StageStep ==
  TestAdapter \/ TestSuite \/ BackgroundOver \/ SmokeSkipped \/ TestBinary \/ TestsOver

TestsDone == stage = "over" /\ UNCHANGED allVars

TestsNext ==
  \/ StageStep \/ LoopStep \/ ScrapeStep \/ WaitDeadline
  \/ TestServer
  \/ TestsDone

\* Goroutines and tests run, deadlines pass, and a process that is killed exits.  A server
\* need neither come up nor answer nor exit by itself.
TestsSpec ==
  /\ TestsInit /\ [][TestsNext]_allVars
  /\ WF_allVars(StageStep) /\ WF_allVars(LoopStep) /\ WF_allVars(ScrapeStep)
  /\ WF_allVars(WaitDeadline)
  /\ WF_allVars(stage = "server" /\ TestStep /\ AsBuilt)
  /\ WF_allVars(stage = "server" /\ DeadlinePasses /\ AsBuilt)
  /\ \A n \in Tries : /\ WF_allVars(stage = "server" /\ WaiterStep(n) /\ AsBuilt)
                      /\ WF_allVars(stage = "server" /\ Killed(n) /\ AsBuilt)

-----------------------------------------------------------------------------
(* Properties *)

\* A feature's own metrics have no name of a table, of the framework, or of the suite.
Unclaimed(h, feature, namespace) ==
  LET names(specs) == {MetricName(specs[i], feature, namespace) : i \in DOMAIN specs}
      ids(specs) == {specs[i].id : i \in DOMAIN specs}
      standard == StandardMetricInfo(namespace)
  IN /\ ids(h.own) \cap ({"missing_metric"} \cup ids(HelperTables(h))) = {}
     /\ names(h.own) \cap ({standard[k] : k \in DOMAIN standard} \cup names(HelperTables(h))) = {}

\* What the documentation asks of a generated exporter, its build and its machine.
Contracted(b) ==
  LET m == b.project
      x == b.x
      h == x.helpers
      distinct(seq) == \A i, j \in DOMAIN seq : i # j => seq[i] # seq[j]
  IN /\ "" \notin {TrimSpace(m.name), TrimSpace(m.description), TrimSpace(m.feature)}
     /\ m.namespace \in Identifiers \ {m.name} /\ m.listen \in Addresses
     /\ m = b.tested /\ m = b.linked
     /\ b.binary = "prebuilt" /\ b.stamp = SmokeVersion /\ b.base = m.name
     /\ x.configFile /\ x.resolve /\ x.valid
     /\ \A i \in DOMAIN x.flags : x.flags[i].bind
     /\ distinct(<<"refresh-interval", "config-file">> \o [i \in DOMAIN x.flags |-> x.flags[i].name])
     /\ x.newSnapshotter = "unset" /\ x.factory = "good"
     /\ x.defaultSnapshotter \in {"nil", "good"} /\ x.defaultEngine = "good"
     /\ x.metrics = "unset"
     /\ h.own # <<>> /\ \A i \in DOMAIN h.own : h.own[i].id # "" /\ h.own[i].scope = "feature"
     /\ distinct([i \in DOMAIN h.own |-> h.own[i].id])
     /\ distinct([i \in DOMAIN h.own |-> h.own[i].name])
     /\ distinct(h.files) /\ distinct(h.values)
     /\ \A i \in DOMAIN (h.files \o h.values) : TrimSpace((h.files \o h.values)[i]) # ""
     /\ Unclaimed(h, m.feature, m.namespace) /\ Unclaimed(h, "exporter", "exporter")
     /\ ~SmokePanics(x)
     /\ x.example # "" /\ "../examples/" \o x.example \in {f \in DOMAIN b.disk : b.disk[f] # "bad"}
     /\ {DefaultFeatureConfigFile(m.feature), DefaultFeatureConfigFile("")} \cap DOMAIN b.disk = {}

\* An exporter that keeps the contract fails no test but by the clock: whatever helpers
\* its feature combines and however its intervals and hooks are set, flags, tables and
\* registration go through, in the tests and in the binary.
GoodExporterPasses ==
  stage = "over" /\ Contracted(build) => failed \subseteq {"collector_background_refresh", "server"}

\* The background test passes only by a snapshot that the loop stored: a scrape of its
\* own would hide a loop that does not run.
BackgroundHonest == wait = "passed" => by = "loop"

\* A smoke test that passes on a port of its own vouches for the binary: it carries what was
\* stamped for the test, collects successfully, and serves the tested namespace or one that
\* ends in it, for a search of the text finds demo_build_info in old_demo_build_info.
SmokeVouches ==
  stage = "over" /\ verdict = "pass" /\ ~lost =>
    /\ EndsWith(Server(build).namespace, build.tested.namespace)
    /\ Server(build).version = SmokeVersion
    /\ Server(build).collector.snapshotter = "good"

\* An exporter that is renamed goes by its new name, and serves the same metrics.
RenamedKeepsMetrics == stage = "adapter" =>
  \A base \in {"", ".", " ", "renamed", BinaryName(build)} :
    LET p == Process(build, base, "help", <<>>, "")
    IN p.error = "" => /\ p.namespace = testBinary(build).metadata.namespace
                       /\ base \in Identifiers \/ base = BinaryName(build) => p.usage = base

\* The interval that is reported is the one the collector has, and positive, whatever
\* the flag and the options say and whoever fills in a default.
OneInterval == stage = "adapter" =>
  \A default, fallback, flag \in Intervals :
    LET feature == NewFeature([name |-> "", interval |-> default, fallback |-> fallback], build.x)
        parsed == ParseFlags(feature, [name \in {"exporter.refresh-interval"} |-> flag])
    IN \A f \in {feature, parsed} :
         /\ RuntimeConfig(f, build.disk).refresh_interval = Collector(f, "exporter").interval
         /\ Collector(f, "exporter").interval > 0
         /\ f.refreshInterval > 0 => Collector(f, "exporter").interval = f.refreshInterval

\* Hydrating again, as an exporter that hydrates before Main does, changes nothing, and
\* what was stamped is never replaced.
VersionStable == stage = "adapter" =>
  LET v == HydrateVersionMetadata(build.stamp, build.vcs)
  IN /\ HydrateVersionMetadata(v, build.vcs) = v
     /\ \A field \in DOMAIN v : /\ TrimSpace(v[field]) # ""
                                /\ TrimSpace(build.stamp[field]) \in {"", v[field]}

\* Whatever is built, all tests end, also when the exit of a server was received before the
\* cleanup waits for it.
TestsEnd == <>(stage = "over")

\* The smoke test of an exporter without metadata is skipped and does not panic: "skipping
\* binary smoke without injected metadata", scaffold/template/smoke/scaffold_binary_test.go:15.
SkipsWithoutMetadata ==
  InjectedProjectMetadataErr(build.tested) # "" => "smoke panic" \notin failed

=============================================================================
