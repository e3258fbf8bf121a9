# A TLA+ model of prometheus-exporter-framework

The framework builds Prometheus exporters out of *features*. A feature registers collectors with a
registry; most are *snapshot collectors*, which cache what the feature's own code collects from a
backend, refresh it in the background or on a scrape, and answer scrapes from the cache. An HTTP server
exposes the registry until the caller's context is cancelled.

This directory models the parts of it whose correctness depends on order: goroutines that share state
under mutexes, contexts and shutdown, files that change while they are read, and attempts that fail half
way; and how an exporter is put together, configured, and tested by the suites that the framework gives it.
Every part is checked by TLC on small instances; of every part invariants are also proved with TLAPS, for all
values of the constants. `PROJECT.json` maps the
definitions to the lines they model and lists runs, hazards, mutants and theorems.

    tlc -workers 2 -config SnapshotCollector_safety.cfg MCSnapshotCollector    # check
    tlapm SnapshotCollectorProofs.tla                                          # prove

Paths below are relative to `src/`. All concurrent code is Go: "the lock" is a `sync.Mutex`, and one step
of a model is one critical section, one system call, one atomic operation or one call that can block.

## 1. Inventory

| Part | State it keeps | Operations | Meets |
|---|---|---|---|
| **Snapshot collector** `exporter/internal/snapshot/snapshot.go` | snapshot, status, last success, duration histogram, `initialized`, `refreshing`, `backgroundStarted`; a mutex and a condition variable | `Collect`, `Start`, the refresh loop | the feature's snapshotter (may fail, hang or report its own attempt time); the registry's scrapes; the run's context |
| **Exporter run** `exporter/internal/app/{server,registry,cli}.go`, `exporter/internal/feature/feature.go` | registry, server, watcher goroutine, loops | `RunContext`, `NewRegistryContext`, `RegisterCollectors`, `RegisterAndStartCollectors`, `listenAndServeContext` | features, HTTP clients, signals, the process that embeds it |
| **HTTP routes** `exporter/internal/app/{handler,telemetry_path}.go` | none after construction | `NewHandlerChecked`, `validateMetricsPath` | `net/http.ServeMux` |
| **Command line and options** `exporter/internal/app/{cli,config,feature_aliases}.go` | parsed flags | parse, defaults, validation | kingpin |
| **Feature configuration** `exporter/featurekit/{feature,extension}.go` | prepared configuration; where it came from, under a second mutex | `RuntimeConfig`, `RegisterCollectors`, `prepareConfig`, `LoadFeatureConfigFile` | the configuration file; the startup log; the run |
| **TTL cache** `exporter/featurekit/ttl_cache.go` | entries with expiry, seven counters | `Get`, `Set`, `SetWithTTL`, `Delete`, `Clear`, `Len`, `Stats` | features' snapshotters and the helper metrics |
| **Last-known-good values** `exporter/featurekit/last_known_good.go` | last success and failures of each key | `Success`, `Failure`, `Delete`, `Get`, `Snapshot`, `Len` | one snapshotter writes, anybody reads |
| **File scraper** `exporter/internal/files/file_scrape.go` | two cumulative counters | `Scrape` | a file that other programs rewrite |
| **Version and injected metadata** `exporter/injected.go`, `exporter/internal/app/{injected,version}.go` | package variables set by the linker | which source wins, what is missing or malformed | main, tests, the smoke test |
| **Feature kits, feature metrics, helper metrics** `exporter/featurekit` | descriptor tables; an extension's hooks | defaults, flags, tables, checks at load and at collection | snapshot collector, registry |
| **Smoke test of binaries** `exporter/exportertest/smoketest` | a child process, a free port, retries | help, version, renaming; start, poll, stop | the binary under test |
| **Test helpers** `exporter/exportertest`, `featuretest`, `adaptertest` | a fake snapshotter, a started collector | contract tests of a feature, the background test | an exporter's feature, its metadata and its machine |
| **Scaffold** `scaffold/` | none | generates and upgrades an exporter repository | all of the above |
| **Generators, example** | none | text | — |

How they interact. `RunContext` validates the options, builds the registry and calls each feature's
`RegisterCollectors`. A `featurekit` feature first *prepares* its configuration, then builds its
collectors, registers them as one batch and starts the loops of the startable ones with the run's context.
The server then serves; each scrape calls `Collect` of each collector in a goroutine of its own. When the
context ends, a watcher goroutine calls `Server.Shutdown`, and the loops end by themselves.

What is hard, and what has to be true of each part:

- *Snapshot collector.* Scrapes and the loop decide under the lock but collect outside it. There must be
  one collection at a time; no scrape may sleep through the broadcast it waits for; a scrape must get one
  stored state, whole, and not an older one than it may; `Start`, cancellation and the exit of a loop may
  interleave without leaving two loops or a flag without a loop; and a hanging backend must not hold scrapes
  or a cancelled loop for ever where a deadline was promised.
- *Exporter run.* A batch that fails half way must leave the registry as it was and start nothing;
  cancellation may come before, during or after registration, and must always be enough to stop everything.
- *Feature configuration.* The log and the collectors prepare the configuration at different times, the
  file may change between them, a failed preparation is retried, and origin and content lie under two
  mutexes: all of them must still go by one configuration, reported truthfully.
- *TTL cache.* `Get` finds an expired entry under the read lock and removes it under the write lock, `Len`
  reads the clock before the lock: neither may remove an entry that is alive, nor count one twice.
- *Last-known-good values.* A failure must not cost the value; fresh and stale must be told by the time
  of the last success.
- *File scraper.* Stat, read and the counters are separate steps: a result must not claim newer data than
  it has, or fewer errors than an earlier one.
- *HTTP routes.* No accepted path may collide with a reserved route or go unanswered: validation and
  `http.ServeMux` must have the same idea of a path.
- *Features, metadata and tests.* An interval, a name, a snapshotter or a version is filled in at three or four
  places, and all must agree; tables of helpers are combined that nobody has combined before; a test may pass
  for the wrong reason: by a scrape where the loop should have refreshed, or on another binary.
- *Smoke test.* The server may exit before, in or after the start window, its port may be lost to another
  program, and `t.Fatal` may end the test in the middle of any wait: no server may be left behind.

The list of hazards, each at its line, is in `PROJECT.json`, with the properties that would catch it.

## 2. Plan

Order: the most important behaviour first, abstract specifications beside the detailed ones.

1. `SnapshotCollector`, with `SnapshotRegister` as what it promises, and the proofs. **Done.**
2. `ExporterLifecycle`: the run, the batches, the end of the process. **Done.**
3. `TTLCache`, with `TTLMap` as what it promises. **Done.**
4. `FeatureConfig` and its proofs. **Done.**
5. `LastKnownGood` and `FileScrape`. **Done.**
6. `Routes`: the telemetry paths that `validateMetricsPath` accepts against the patterns the mux gets. **Done.**
7. `Smoketest` and its proofs: start attempts, the race of an early exit with the start window, polling,
   clean-up. **Done.**
8. `Startup`, `FeatureMetrics` and `FeatureKit`: what is decided before an exporter serves, as operators. **Done.**
9. `ExporterTests`: the generated tests of an exporter as clients of all that, composed with `Smoketest`. **Done.**
10. Proofs of `ExporterLifecycle`, `FileScrape`, `TTLCache` (with the refinement of `TTLMap` and the accounting),
    `ExporterTests`, `LastKnownGood` and `Routes`; `ExplicitFileUsed`. **Done.**
11. The composition of `LastKnownGood` with `SnapshotCollector`, which discharges the assumption of one refresh at a
    time; the proof that an exporter which keeps the contract passes its tests. **Done.**
12. Left: the upgrade script `scaffold/scripts/scaffold-drift.sh`, whose steps can fail half way; the begin and
    finish mode of `FileScrapeMetrics`.

Which module composes which: `FeatureMetrics` extends `Startup`, `FeatureKit` extends `FeatureMetrics`, and
`ExporterTests` extends `FeatureKit` and `Smoketest`, whose actions it takes as a stage of its own.
`SnapshotCollector` and `TTLCache` instantiate the abstract `SnapshotRegister` and `TTLMap`. The proofs of
`SnapshotCollector` compose it with `LastKnownGood`, whose refreshers are then the processes of the collector.

## 3. The modules

### SnapshotCollector, SnapshotRegister

Processes are `Scrapes` (one `Collect` each) and `Loops` (one `Start` each, with its own context). `pc` says
between which two critical sections of `snapshot.go` a process is:

| label | the code |
|---|---|
| `check` | `currentSnapshot`, about to lock and test |
| `wait`, `woken` | in `cond.Wait`; `Broadcast` makes every waiter `woken`, to compete for the lock |
| `begin` | the loop, before `beginRefresh` |
| `collecting`, `store` | inside `collectSnapshot`, with the snapshotter running; returned, before `finishRefresh` |
| `emit` | a scrape with its copy of the state |
| `select` | the loop between ticks |

`now`, `collectNow` and `startedAt` are the clock values a goroutine holds in local variables; they are read
before locks are taken, and the model lets any time pass in between. A snapshot is abstracted to who
collected it, whether it succeeded, and the attempt time `StatusFunc` reports for it (`OwnStamps`: any time
up to now; otherwise none, and the collector uses its own). The observations and buckets of the histogram are
counted; the sum of durations is left out.

`SnapshotRegister` is what a user may rely on: an atomic register of *outcomes*. Outcomes are published one
at a time, with the last success carried over failures; a scrape is answered with the register's value at
one instant of its stay, which is fresh or was published after the scrape came, unless a loop is alive.
Lock, condition variable, retries and clock readings are gone. `RegisterSpec` in `SnapshotCollector` is the
refinement mapping; the number of observations of the histogram serves as the version.

### ExporterLifecycle

One `RunContext`, its watcher, the loops, the requests and the process. A `plan` is the list of features: each
a flag whether its collectors are startable and a batch of collectors, in which a collector may occur twice,
belong to another feature, be the framework's own (`Base`) or be nil. A nil feature, which the loop skips, is no
member of a plan. `server`, `done` and `watcher` follow
`listenAndServeContext`; that `Serve` returns as soon as `Shutdown` has *begun* is external code, modelled from
its documentation and the use in `server.go`. When `RunContext` has returned, the process may end at any time, as
after `Main`, and cuts off whatever still runs (`Exit`), or live on, as an embedding program does.

### TTLCache, TTLMap

`TTLCache` has one action per critical section of `ttl_cache.go` and one per counter that is added to after
unlocking. `TTLMap` is a map whose entries vanish by themselves when their time is over; the refinement
mapping hides dead entries that nobody has removed yet. `TTLMap` counts its puts, removals and clears, so
that an implementation cannot pass off a lost entry as a deletion.

### FeatureConfig

`Callers` are concurrent calls of `RuntimeConfig` (the startup log) and `RegisterCollectors`. Both go through
`prepareConfig`: under `configMu` (held across the read of the file) they resolve the configuration once.
The extension's `configState` has its own mutex, so recording it is a step of its own. The file is any of
missing, unreadable, malformed, empty, or a configuration, valid or not, and changes at any time.
A configuration is kept before it is validated, so a refused one stays prepared: `RefusedForGood` says that no call
registers a collector beside the refusal, although the file was corrected in between.

### LastKnownGood, FileScrape

`LastKnownGood` keeps a history, `log`, of the attempts at each key, against which reads are judged.
`FileScrape` has one step per system call and per counter operation, on a file that is replaced or removed.

### Routes

A path is a sequence of segments, and a segment is its *text* and whether it is *spelled* with an escape:
`validateMetricsPath` compares spellings, the mux compares texts. A behaviour has three steps: a configuration,
its acceptance or rejection, and the registration of the patterns, which may panic. What the mux does (it refuses
conflicting patterns, cleans the paths of requests, picks the most specific match) is external code. `Clean` leaves a
path without dot segments as it is, and folds over the segments only if there are any, so that proofs about the
routes need no induction over the fold.

### Smoketest

`attempt` and `pc` follow the test through `runServerSmoke`, `waitForHealth` and `waitForMetrics`; each attempt
has a server process, a goroutine that waits for it (`waiter`), and a channel with room for one exit status
(`exit`), which is closed afterwards. `late` is the deadline of the current wait; `lost` says that another
program has the port, and answers in the server's place.

### Startup, FeatureMetrics, FeatureKit

Three modules of operators, without state, because the code has none: they run once, in one goroutine, and what
matters is how they fit together.

`Startup` is the way from what the linker put into the binary to what is served: `HydrateVersionMetadata`, the
checks of `ProjectMetadata` and `Config` in their order, the executable's name, the command line. Texts are
strings; which of them have white space around them, are identifiers, addresses or paths is given by constants,
so that trimming and validation are functions on a few texts. `TextsAssumption` says what is true of these sets
whatever they are: trimming twice is trimming once, and neither an identifier nor a text of the program has white
space around it. An operator that may fail returns an error, `""` if
all is well, and `FirstError` keeps the order of checks.

`FeatureMetrics` has the tables of a feature: its own specs and those of the helpers for caches, files and
last-known-good values (`HelperTables`, one after the other in the order of an extension that appends them). A spec is
its identifier, scope, name and number of labels. Loading a table and collecting with it panics as the code does, on
duplicates, unknown identifiers, and label values that do not fit.

`FeatureKit` makes a feature from options and the hooks of an extension; gives its flags, its report, the errors
of its registration and the collector that it registers, with every default put in where the code puts it.

### ExporterTests

The tests that a generated exporter runs, one behaviour per *build*: the metadata in its adapter test, in its smoke
test and in the binary, the binary's name and stamp, the hooks of its feature, and the files of the machine. `stage`
goes through the adapter contract, the feature suite, the background test and the smoke test. Tests without
concurrency are evaluated at once (`Outcome`), by the operators of `FeatureKit`: none of them sees what another one
changes, which is also why the suite may run them in parallel. The background test has its goroutines: the
collector's loop (`loop`), scrapes of the test that may refresh themselves (`scraping`), and the deadline; `held` is
what a refresh has got from the fake snapshotter and not stored yet, which the test may turn bad meanwhile. The
server part of the smoke test is `Smoketest`: `TestServer` takes its `Next`, restricted to what the binary of the
build can do.

What the smoke test looks for is text: `containsAll` searches the scraped metrics for strings, each by itself and
anywhere. The model keeps what that can tell apart. `Served` is the text by its samples, a metric with its labels and
value; the name of the build info is found *within* a name, a label with its value on any sample, and a metric with
its value wherever a name *ends* in it and no labels follow. So a binary of the namespace `old_demo` passes the test of
`demo`, in the model as in the code, and `SmokeVouches` promises no more than the search does: the version that was
stamped, a collection that succeeded, and a namespace that is the tested one or ends in it. `MCBuilds` has binaries of
both `old_demo` and `demo_old`.

## 4. What the runs check

| run | question | bounds |
|---|---|---|
| `collector_safety` | one collection, no lost wakeup, one loop, whole replies, attempt times (`StampsSettle`) | 2 scrapes, 2 loops, clock to 3, interval 1 |
| `collector_replies` | fresh replies, the inductive invariant, refinement of the register; scrapes are released and cancelled loops end, although collections may hang until their context ends | 2 scrapes, 1 loop, interval 2, own time stamps, a deadline for scrapes |
| `lifecycle` | whole batches; loops for registered collectors only, and for all startable ones while serving; cancellation stops everything | every list of up to 2 features with up to 2 entries, 1 request |
| `lifecycle_shutdown` | is shutdown clean? **Violated**, see section 6 | four such lists |
| `ttl_cache` | accounting, refinement of the map | 2 keys, 3 callers, 4 calls, clock to 3 |
| `config_calls` | one configuration, truthful reports, refusals are final, every call returns | 3 calls, 2 configurations, 2 changes |
| `last_known_good` | reads, freshness, order of attempts | 2 keys, 2 values, 3 writes, clock to 3 |
| `file_scrape` | each failure counted once, modification times, error totals | 3 scrapes, 2 changes |
| `routes` | the telemetry path is answered with metrics; a plainly spelled one makes nothing panic and leaves the built-in routes alone | paths of up to 3 segments, `..` and escapes included |
| `routes_reserved` | are reserved paths refused? **Violated**, see section 6 | the same, up to 2 segments |
| `exporter_tests` | exporters that keep the contract pass; tests pass for the right reason; intervals, names and versions agree; nothing is left behind, all tests end | 55 builds, 2 attempts, intervals 0 and 5 |
| `smoke_without_metadata` | is the smoke test skipped without metadata? **Violated**, see section 6 | the same builds |

Why these are enough. Two scrapes and a loop are what it takes for a scrape to wait for somebody else's
refresh while a third process begins the next; with two `Start` calls an earlier loop can be on its way out
while the later call arrives. A clock of three ticks with interval one lets a value be stored, become stale
and be replaced, and a goroutine hold a time stamp across all of that. Two features with two entries cover
a collision inside a batch, with an earlier feature and with the framework. In the cache, two callers can
find the same dead entry while a third replaces it. In `FileScrape` two scrapes can fail at once while a third
has already returned. In `ExporterTests` the builds are a generated exporter and what differs from it in one respect
or two: a flag without a binding, two of one name, a hook that fails, a table that collides, all helpers at once,
metadata missing or malformed at each of the places where it is used, another binary, one of a namespace that
contains the tested one, an older stamp, a broken file.
Two attempts are a first and a last one; the code has five, and what is said about servers is proved for any number.
Symmetry is used for safety only.

Every property has a mutant in `PROJECT.json`, a plausible bug in the code (a test dropped, a step moved out of
its critical section, a stale variable used) written as a *Variant* beside the definition; TLC finds the
property violated with it. So no property holds because its case never occurs.

Deadlock is checked in every run. Where a system has finished, or where only the bounds on the clock and on
writes bring the model to an end, a stuttering action says so (`Quiescent`, `Ended`, `AllReturned`, `Idle`,
`Done`, `TestsDone`).

## 5. Fairness

Safety runs assume none. For liveness:

- Goroutines that can run do run, and a free mutex is handed over: weak fairness of each process's own steps.
  Nothing is assumed of callers, clients, contexts, the clock or the file: `Collect`, `Start`, `Cancel`,
  `Accept`, `Tick`, `ChangeFile` may never happen. `Respond` is not fair either: a request may take for ever.
- Weak fairness is enough for a lock because it is only ever held for a moment in the snapshot collector, and
  in `FeatureConfig` because the number of calls is bounded: each holder gets out, and a call that never
  finds the mutex free in the model is one that the holder still keeps. Go's mutex hands over to a starving
  waiter.
- `HangingSpec`, under which `collector_replies` runs, does not assume that collections return: one returns for
  certain only when its context ends, which is when `SyncRefreshTimeout` passes for a scrape's own refresh and when
  the loop's context is cancelled for the loop's. Under it scrapes are *not* always answered: one that waits behind a hanging background refresh waits as
  long as that does. `TimeoutReleasesScrapes` says this is the only way; if all collections return, all scrapes are
  answered.
- A woken scrape can find another refresh under way and wait again. With unboundedly many scrapes and ticks that
  could go on for ever under weak fairness; the finite number of scrapes and ticks excludes it here.
- `ExporterTests`: goroutines run, deadlines pass, and a process that has been killed exits. A server need neither
  come up nor answer nor exit by itself.

## 6. Disagreements between the code and its documentation

**Shutdown.** `README.md:182` says "`RunContext` also shuts the HTTP server down cleanly when that context is canceled."
`Serve` returns `http.ErrServerClosed` as soon as `Shutdown` has closed the listeners; `listenAndServe` then
returns nil, `RunContext` returns nil, and nobody waits for the goroutine in which `Shutdown` still waits for
requests (`exporter/internal/app/server.go:94`). A main function that returns after `RunContext` cuts off the
requests in flight, although the shutdown timeout of five seconds has not passed. `lifecycle_shutdown` finds it:
a request is accepted, the context is cancelled, the server closes, `RunContext` returns, the process exits.
The documentation of `http.Server.Shutdown` asks the program to wait for exactly this reason.

**Escaped reserved paths.** `validateMetricsPath` (`exporter/internal/app/telemetry_path.go:40`) compares the path as
it is spelled, `http.ServeMux` unescapes the segments of a pattern.
`ARCHITECTURE.md:87` says "`/healthz` and `/debug/pprof/*` are reserved for built-in handlers and cannot be used as
telemetry paths." But `/debug/%70prof` is accepted and serves metrics there, and `/health%7a` is accepted and makes
`NewHandlerChecked` panic, which `ARCHITECTURE.md:146` recommends to "callers that need explicit errors instead of
`http.ServeMux` panics" (`routes_reserved`; `ReservedKept` says that only escaped spellings do so).

**A smoke test that panics instead of skipping.** `scaffold/template/smoke/scaffold_binary_test.go:14` skips "binary smoke
without injected metadata" if `InfoErr` returns an error, and `README.md:172` offers the `...Err` variants "for bootstrap
code that must return errors instead of panicking or exiting". But `InfoErr`
(`scaffold/template/internal/exporter/scaffold_exporter.go:30`) evaluates its argument `NewFeature()` first, which asks
for `InjectedFeatureName()`, and that panics when no feature name was linked into the test. With no metadata at all the
smoke test ends in a panic; only metadata that has a feature name and lacks something else is skipped
(`smoke_without_metadata`).

Smaller ones, which have no run of their own. An exporter whose metric namespace equals its name passes all checks and
fails its smoke test, which forbids the namespace in the usage text; and the tests of the configuration file depend on
the default file being absent from the machine. `Contracted`, the premise of `GoodExporterPasses`, rules out both, and
whatever else the documentation and the suite silently rely on: an exporter's own metrics have no identifier or name of
a helper table or of the framework, nor the one that the suite looks for in vain (`Unclaimed`); and the metric of its smoke test is its own
(`SmokePanics`).

The smoke test reports less than it is taken for. It cannot tell an exporter from another one whose namespace ends in
its own, such as `old_demo` from `demo`, if the stamp is the same. And `MAINTAINING.md:90` says that it verifies the
linker values of lines 84-88 through the `*_build_info` metric; it links and looks for the version, the branch and the
revision only, not for `BuildUser` and `BuildDate`.

Another one, which has no run of its own: a path with dot segments, such as `/metrics/.`, is accepted and
registered, but the mux cleans the path of every request first, so that nothing ever reaches it. `MetricsServed`
excludes these paths.

## 7. What is proved

`SnapshotCollectorProofs`, for any sets of scrapes and loops, any interval, any bucket bounds, with and without
own time stamps. Only `CollectorAssumption` is used: scrapes and loops are different processes, the interval is
positive. The composition at the end has the constants of `LastKnownGood` too.

- `Invariance`: `CollectorInv` is inductive. It adds to the checked invariants what they rest on. `SingleFlight`
  alone is inductive only together with the waiting scrapes (`NoLostWakeup`) and the loop (`OneLoop`), as the
  flags are set by one process and cleared by another step of the same one. `Clocks` says that no goroutine's
  time stamp is in the future and that a scrape that goes round the loop reads the clock later than on entry.
  `Fetched` says that what a process is about to store is its own; `Contents`, that the cache is either the
  zero state, uninitialized, or a whole state.
- `TypeCorrect`, `OneCollection`, `NoMissedBroadcast`, `AtMostOneLoop`, `WholeReplies` follow from it.
- `Freshness` carries `FreshWithoutLoop` along: a scrape that waited is answered by the time read after waiting,
  and that is later than the one it came with.
- `StampsNeverStepBack` needs one more invariant, `Dated`: after the first store a collection that is in flight
  has a time stamp no earlier than the one stored. It does not hold for the very first snapshot, which a loop
  that read the clock before may overwrite with an earlier time; the property says so.
- `ImplementsRegister`, from `CollectorInv`: every step of the collector is a step of the register or a stutter.
- `KeptInOrder` and `KeptFreshness` are about a feature with last-known-good values, `FeatureSpec`: the collector and
  `LastKnownGood` on one clock, where a process that is between the beginning and the end of a refresh of its values is
  inside a collection (`RecordedByCollections`; the values are recorded in the snapshot callback, which
  `collectSnapshot` calls and waits for). `SingleFlight` then gives `LastKnownGood` its one refresh at a time
  (`OneRecorder`), and the conclusions of `InOrder` and `HonestFreshness` hold without further assumption, whichever
  scrapes and loop take turns collecting. Their hypothesis is the assumption of `LastKnownGood` on its own constants.

`ExporterLifecycleProofs`, for any features and batches, however many collectors they share: `LifecycleInv` is inductive.
`Registration` says what the registry holds at every point: what the features that came through have brought
(`Before`), and what the batch under way has registered itself, which is disjoint from it. This is why taking a batch
back restores the registry (`BatchesWhole`). `Loops` says that no loop of a batch runs before the batch is registered,
and that all of it runs once the feature is through; `LoopsMatch` follows.

`FeatureConfigProofs`, for any number of calls, configurations and changes of the file: `ConfigInv` is inductive.
A call inside `prepareConfig` holds `configMu`, and nothing is prepared meanwhile (`Exclusive`); so the origin it
recorded is still there when it stores the configuration (`Origin`); so what calls have returned is what is
prepared (`Kept`). `SingleConfiguration`, `HonestReports`, `RefusalIsFinal` and `PreparationIsFinal` follow.
`ExplicitFileHonored` needs a witness: the call that prepared the configuration, and what it read of the file
(`FromFile`).

`TTLCacheProofs`: `CacheInv` is inductive: a `Get` that goes on to evict has seen a dead entry (`DeadFound`), and a
`Len` purges by a time that has passed (`LenBehind`). From it `ImplementsMap`, that every step of the cache is a step
of `TTLMap` or a stutter. `EntriesAccounted` has `Accounted` as an invariant of its own: what was ever stored is in the
map, was deleted, has expired, or was overwritten or cleared, but for what is on its way to a counter. The entries that a `Len` has removed and not yet counted are
written as a set of pairs (`Uncounted`), so that the sum over callers is a cardinality, of which the provers know
what adding and removing does; each action moves entries from one term to another. The case that could go wrong is a
`Get` that finds a dead entry which somebody else has removed or replaced before it has the write lock.

`LastKnownGoodProofs`, in two layers. `GoodInv` is inductive however many refreshes overlap: an entry tells the log of
its key (`Tells`): it has a value exactly if the log has a success, its value and its time are those of the last one,
and its failures are the attempts since. So does every copy that a reader holds, of the log as it was when it
read; `ReadsTell` is one of its parts. The last success of a log is found by `Least`: a set of natural numbers has a
least element, proved from the well-foundedness of inclusion, which the library states for finite sets, and applied to
the positions of the successes counted from the end. `OrderInv` needs one refresh at a time
(`OneAtATime`): two refreshes that overlap could record an earlier attempt after a later one. So `InOrder` and
`HonestFreshness` are about the behaviours in which it always holds, any goroutine being the one that refreshes; that it
does hold for what a snapshotter calls is proved with the collector, as above. With it no event in a log is later than
the refresh under way, so times never step back within a log (`Ordered`), and a value judged fresh is one that was
confirmed within the threshold.

`RoutesProofs`, for any segments and any length of paths. `RoutesWhole` is inductive: the telemetry path has passed
validation, the mux holds the patterns of `newHandler` and none of them conflicts with the telemetry path's, and what
was answered is what the mux answers. The rest is about the mux. Its patterns are finitely many, so one of the longest that
match exists (`BestIs`, by `Greatest`), and one for exactly the path requested is not beaten (`BestExact`). `Served`
follows, for every path that validation accepts and however it is spelled: a pattern as long as the telemetry path's
that matches it as well would have been a conflict. `ReservedStayReserved` is `RoutesInv`: a plainly
spelled path that is accepted lies apart from `/healthz` and `/debug/pprof` for the mux too (`AcceptedApart`), so that
nothing conflicts (`NoConflict`) and the best match there is a built-in pattern (`HealthAnswers`, `ProfilerAnswers`).
`PlainReservedRefused` adds that the disagreement in section 6 is one of escaped spellings only.

`FileScrapeProofs`: `ScrapeInv` is inductive. The totals are the failures of all scrapes, each counted once
(`ErrorsCounted`), which needs that scrapes are finitely many. What a scrape has statted is not newer than what it then
reads (`Older`), and the totals it loads include those of every scrape that returned before it began (`Ahead`), even
though they are loaded one after the other. `NeverNewer` and `TotalsAdvance` follow.

`ExporterTestsProofs` has the proofs of `Smoketest` too, for any number of attempts: `SmokeInv` is inductive. Attempts after the current one have not begun
(`Unstarted`) and those before it are over (`Over`), so only the current server can be alive; what `waitCh` says
is true (`Reaped`); and past the start window the cleanup knows of the server (`Known`), which is what makes
every end of the test safe. `NothingLeftBehind` follows.

Of `ExporterTests` are proved, for any builds: `ContainsSmoketest`, that the tests of an exporter behave as `Smoketest` for
whoever looks at the server part only, so that `NoServerLeft` is a consequence. `PassedByLoop` rests on
`BackgroundInv`: while the test waits for the good snapshot no bad one is on its way, and when it begins to wait for
the bad one the cache is filled, so that no scrape refreshes any more. `IntervalsAgree` is `OneInterval` for any
durations, negative ones included: the default of a feature is positive (`DefaultPositive`), report and collector put in
the same one (`SameInterval`), and parsing leaves it alone (`ParsedInterval`).

- `VersionsStable`: what `firstNonEmpty` returns of up to seven texts is the first that is not blank
  (`FirstNonEmpty`), and trimmed; so a version that is hydrated is settled, and hydrating it again picks it again.
- `RenamedSameMetrics`: a process that gets through its checks has a namespace in its metadata (`NamespaceGiven`), so the
  default that would follow the file's name is never taken. Its hypothesis `NamedBinaries` says that the file of a binary
  has a name, other than white space and ".".
- `SmokeVouched`: `PassInv` says that a test which has passed on a port of its own has found all it looks for; and what
  a search finds is enough (`Complete`). Labels of a version are on the build info only; what is taken for the success
  metric is that metric, so the collection has succeeded, and two texts of one ending that end in each other do so
  without it (`EndCut`), so the namespace ends in the tested one. There are two hypotheses. `Spelled`: strings are
  sequences of characters, of which the provers have no theory. `OwnNames`: no metric of the feature's own ends in the
  name of the success metric that is looked for; one that does, without labels and with the value 1, would be taken for
  it, and the test would pass for an exporter that fails to collect.
- `OnlyTheClock`: the stages report the outcomes of the tests and add no failure of their own, so that only the two
  tests that wait can fail a build of which all outcomes are good (`SoundInv`).
- `TablesCombine`: whatever caches, files and values a feature reports, and however many, its tables load, and a scrape
  finds every specification with as many labels as it gives. Every identifier and name of a table ends with a suffix of
  its own, so two of them differ in the suffix or in the source (`Group`, `Grouped`), and the feature's own metrics keep
  clear of them (`Fit`, from `Unclaimed`).
- `GoodPasses` is `GoodExporterPasses` for any builds: an exporter that keeps the contract fails no test but by the
  clock. It needs that all outcomes are good (`GoodOutcome`), and `OnlyTheClock` does the rest. Each test of the suite
  is a lemma (`ExporterContract` to `CollectorUsesDefault`), as are the adapter contract and the processes of the binary
  (`AdapterPasses`, `BinaryPasses`); they rest on what parsing, preparing, registering and collecting do with a feature
  whose hooks are given, and on `TablesCombine` for what a scrape finds.

The hypothesis of these two theorems, `StringFacts`, says of texts what the provers, for which a text is a value without
parts, cannot know: joining texts is associative, can be undone on the left, and gives the empty text of empty ones
only; no suffix of a metric is the end of another one, so that a name tells its suffix (`Splits`); no
identifier is empty or the one that the suite looks for in vain; and the dot before a flag's name joins as written. All
of it is true of strings, for the suffixes as they are in the code; it is not assumed in a model, so no run depends
on it.

The bounds of the models (`MaxTime`, `MaxChanges`) are constants of the proofs too: the theorems hold for every
value of them.

Only model-checked: all liveness (fairness and `ENABLED` are out of the prover's reach), that is the release of scrapes
and the end of cancelled loops, the stop after a cancellation, the return of every call, and `TestsEnd`. Every invariant
and every action property of the passing runs is stated by a theorem. The three properties of section 6 are violated, and so have no theorem.

## 8. Abstractions and what is left out

- Time is a small integer. Zero stands for Go's zero `time.Time`; the clock starts at one.
- Wording, logging, help texts, label values and descriptors are left out, as are nil receivers, which do
  nothing. Errors are their kind.
- `RegisterCollectors` of a feature without a collector factory is left out: it fails at once.
- Collectors have descriptors: an unchecked collector, which the roll-back cannot remove, is a hazard without
  a property.
- `LastKnownGood` is written by one refresh at a time in its run, which a snapshot collector guarantees
  (`SingleFlight`, and the composition in section 7);
  `Snapshot` and `Len` are reads of the same kind as `Get`.
- `FileScrape`'s file is replaced in one step with a modification time later than the one before. A program
  that writes the file in place could be read half way; its content is then "not good" or as it happens to parse.
- `Stats` of the cache is `Len` followed by loads of the counters, which are no state at one instant; `Accounted`
  bounds how far each lags behind.
- In `FeatureConfig` what an exporter's own `ResolveConfigFunc` does is taken from the scaffold's: it loads the
  file and lays it over the flags. `RegisterFlags` runs before everything else, and is in `FeatureKit`.
- `Routes` has no host names, methods or wildcards: `validateMetricsPath` refuses braces, and a pattern begins with
  a slash.
- In `Smoketest` the servers are any process that may exit, answer or hang. Two servers never meet on one port,
  as every attempt asks for a new one. `ExporterTests` adds what the binary under test can do; building and copying it
  are left out.
- In `ExporterTests` a snapshotter is "good" or "bad", after the status of its snapshots. The text of help and usage is
  the name in it. Of the scraped text there are the framework's build info and success metric and the feature's own,
  each own metric with the value 1 and at most one label; other samples and the lines of help and type are left out.
  Arguments are parsed as a function of flag names: kingpin's grammar,
  and the checks of `RunFeatureContract` on messages, are left out. The suite's tests are taken as the scaffold
  instantiates them.

### Not modelled

- `internal/docsgen` and `exporter/internal/publicapitest` read Go source and write text, in one goroutine and without
  state: a model would restate them.
- `scaffold/scripts` are shell, but for `go-symbol-diff.go`, which compares two lists of names; the upgrade script is
  in section 2.
- `examples/` only calls the framework.
- The begin and finish mode of `FileScrapeMetrics`, which emits the result of a scrape, and adds to the same counters.
