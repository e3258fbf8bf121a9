------------------------- MODULE ExporterTestsProofs -------------------------
(***************************************************************************)
(* For any builds and any number of attempts: the smoke test leaves no     *)
(* server behind and starts none while another one lives; the server part  *)
(* of the tests of an exporter behaves as Smoketest says, whatever the     *)
(* stages before it have found; and the test of the background refresh is  *)
(* passed by the loop alone.                                               *)
(*                                                                         *)
(* For the smoke test: the attempts after the current one have not begun   *)
(* and those before it are over (Unstarted, Over), so only the server of   *)
(* the current attempt can be alive; a value on waitCh, or its closing,    *)
(* means that this server has exited too (Reaped); and from the moment the *)
(* start window is over the cleanup knows of it (Known).                   *)
(*                                                                         *)
(* For the background test: as long as it waits for the good snapshot no   *)
(* bad one is on its way; and when it begins to wait for the bad one there *)
(* is a snapshot in the cache, so that no scrape refreshes any more, and a *)
(* bad one in the cache has come by the loop.                              *)
(*                                                                         *)
(* For an exporter that keeps the contract: a name tells the suffix that   *)
(* it ends with, so the specifications of its helper tables are apart from *)
(* one another and from its own; nothing panics, then, every test of the   *)
(* suite, of the adapter and of the binary passes, and what may fail is    *)
(* left to the clock.  What this needs to know of texts is StringFacts.    *)
(***************************************************************************)
EXTENDS ExporterTests, SequenceTheorems, TLAPS

-----------------------------------------------------------------------------
(* The smoke test *)

Unstarted ==
  \A n \in Tries : n > attempt \/ (n = attempt /\ pc = "start") =>
    server[n] = "none" /\ waiter[n] = "none"

Over == \A n \in Tries : n < attempt => server[n] = "exited" /\ waiter[n] \in {"sent", "closed"}

Reaped ==
  \A n \in Tries :
    /\ server[n] = "none" <=> waiter[n] = "none"
    /\ exit[n] => waiter[n] \in {"sent", "closed"}
    /\ waiter[n] \in {"sent", "closed"} => server[n] = "exited"

Known ==
  /\ pc \in {"start", "window"} => ~cleanup
  /\ pc \in {"health", "getHealth", "checkHealth", "metrics", "getMetrics", "await", "awaitKilled"}
       => cleanup
  /\ pc = "cleanup" /\ ~cleanup => ~Alive(attempt) /\ waiter[attempt] # "waiting"
  /\ pc = "done" => ~Alive(attempt) /\ waiter[attempt] # "waiting"

SmokeInv == TypeOK /\ Unstarted /\ Over /\ Reaped /\ Known

\* Nothing has been started at first.
LEMMA InitInv == Init => SmokeInv
<1> SUFFICES ASSUME Init PROVE SmokeInv
  OBVIOUS
<1> USE SmokeAssumption DEF Init, Tries
<1>1. TypeOK
  <2>1. attempt \in Tries
    OBVIOUS
  <2>2. /\ server \in [Tries -> {"none", "starting", "serving", "exited"}]
        /\ waiter \in [Tries -> {"none", "waiting", "sent", "closed"}]
        /\ cancelled \in [Tries -> BOOLEAN]
        /\ exit \in [Tries -> BOOLEAN]
    OBVIOUS
  <2> QED
    BY <2>1, <2>2 DEF TypeOK
<1>2. Unstarted /\ Over
  BY DEF Unstarted, Over
<1>3. Reaped
  BY DEF Reaped
<1>4. Known
  BY DEF Known
<1> QED
  BY <1>1, <1>2, <1>3, <1>4 DEF SmokeInv

\* Every step keeps the invariant.
LEMMA StepInv == SmokeInv /\ [Next]_vars => SmokeInv'
<1> SUFFICES ASSUME SmokeInv, [Next]_vars PROVE SmokeInv'
  OBVIOUS
<1> USE SmokeAssumption DEF SmokeInv, Tries
<1>1. CASE StartServer
  <2> USE <1>1 DEF StartServer
  <2>1. TypeOK'
    BY DEF TypeOK
  <2>2. Unstarted'
    BY DEF TypeOK, Unstarted, Known
  <2>3. Over'
    BY DEF TypeOK, Unstarted, Over, Reaped
  <2>4. Reaped'
    BY DEF TypeOK, Unstarted, Over, Reaped
  <2>5. Known'
    BY DEF TypeOK, Unstarted, Over, Reaped, Known, Alive
  <2> QED
    BY <2>1, <2>2, <2>3, <2>4, <2>5
<1>2. CASE StartFails
  <2> USE <1>2 DEF StartFails, Finish
  <2>1. TypeOK'
    BY DEF TypeOK
  <2>2. Unstarted'
    BY DEF TypeOK, Unstarted, Known
  <2>3. Over'
    BY DEF TypeOK, Unstarted, Over, Reaped
  <2>4. Reaped'
    BY DEF TypeOK, Unstarted, Over, Reaped
  <2>5. Known'
    BY DEF TypeOK, Unstarted, Over, Reaped, Known, Alive
  <2> QED
    BY <2>1, <2>2, <2>3, <2>4, <2>5
<1>3. CASE ExitInWindow
  <2> USE <1>3 DEF ExitInWindow, CanReceive, Receive, Finish
  <2>1. TypeOK'
    BY DEF TypeOK
  <2>2. Unstarted'
    BY DEF TypeOK, Unstarted, Known
  <2>3. Over'
    BY DEF TypeOK, Unstarted, Over, Reaped
  <2>4. Reaped'
    BY DEF TypeOK, Unstarted, Over, Reaped
  <2>5. Known'
    BY DEF TypeOK, Unstarted, Over, Reaped, Known, Alive
  <2> QED
    BY <2>1, <2>2, <2>3, <2>4, <2>5
<1>4. CASE WindowEnds
  <2> USE <1>4 DEF WindowEnds
  <2>1. TypeOK'
    BY DEF TypeOK
  <2>2. Unstarted'
    BY DEF TypeOK, Unstarted, Known
  <2>3. Over'
    BY DEF TypeOK, Unstarted, Over, Reaped
  <2>4. Reaped'
    BY DEF TypeOK, Unstarted, Over, Reaped
  <2>5. Known'
    BY DEF TypeOK, Unstarted, Over, Reaped, Known, Alive
  <2> QED
    BY <2>1, <2>2, <2>3, <2>4, <2>5
<1>5. CASE TimesOut \/ Ask \/ GetFails
  <2> USE <1>5 DEF TimesOut, Ask, GetFails, Finish
  <2>1. TypeOK'
    BY DEF TypeOK
  <2>2. Unstarted'
    BY DEF TypeOK, Unstarted, Known
  <2>3. Over'
    BY DEF TypeOK, Unstarted, Over, Reaped
  <2>4. Reaped'
    BY DEF TypeOK, Unstarted, Over, Reaped
  <2>5. Known'
    BY DEF TypeOK, Unstarted, Over, Reaped, Known, Alive
  <2> QED
    BY <2>1, <2>2, <2>3, <2>4, <2>5
<1>6. CASE HealthUp \/ HealthNotYet \/ HealthOK
  <2> USE <1>6 DEF HealthUp, HealthNotYet, HealthOK
  <2>1. TypeOK'
    BY DEF TypeOK
  <2>2. Unstarted'
    BY DEF TypeOK, Unstarted, Known
  <2>3. Over'
    BY DEF TypeOK, Unstarted, Over, Reaped
  <2>4. Reaped'
    BY DEF TypeOK, Unstarted, Over, Reaped
  <2>5. Known'
    BY DEF TypeOK, Unstarted, Over, Reaped, Known, Alive
  <2> QED
    BY <2>1, <2>2, <2>3, <2>4, <2>5
<1>7. CASE MetricsNotYet \/ MetricsComplete
  <2> USE <1>7 DEF MetricsNotYet, MetricsComplete, Finish
  <2>1. TypeOK'
    BY DEF TypeOK
  <2>2. Unstarted'
    BY DEF TypeOK, Unstarted, Known
  <2>3. Over'
    BY DEF TypeOK, Unstarted, Over, Reaped
  <2>4. Reaped'
    BY DEF TypeOK, Unstarted, Over, Reaped
  <2>5. Known'
    BY DEF TypeOK, Unstarted, Over, Reaped, Known, Alive
  <2> QED
    BY <2>1, <2>2, <2>3, <2>4, <2>5
<1>8. CASE FailIfExited \/ ServerGone
  <2> USE <1>8 DEF FailIfExited, ServerGone, CanReceive, Receive, Finish
  <2>1. TypeOK'
    BY DEF TypeOK
  <2>2. Unstarted'
    BY DEF TypeOK, Unstarted, Known
  <2>3. Over'
    BY DEF TypeOK, Unstarted, Over, Reaped
  <2>4. Reaped'
    BY DEF TypeOK, Unstarted, Over, Reaped
  <2>5. Known'
    BY DEF TypeOK, Unstarted, Over, Reaped, Known, Alive
  <2> QED
    BY <2>1, <2>2, <2>3, <2>4, <2>5
<1>9. CASE NothingToClean \/ CancelServer \/ KillServer
  <2> USE <1>9 DEF NothingToClean, CancelServer, KillServer
  <2>1. TypeOK'
    BY DEF TypeOK
  <2>2. Unstarted'
    BY DEF TypeOK, Unstarted, Known
  <2>3. Over'
    BY DEF TypeOK, Unstarted, Over, Reaped
  <2>4. Reaped'
    BY DEF TypeOK, Unstarted, Over, Reaped
  <2>5. Known'
    BY DEF TypeOK, Unstarted, Over, Reaped, Known, Alive
  <2> QED
    BY <2>1, <2>2, <2>3, <2>4, <2>5
<1>10. ASSUME NEW n \in Tries, WaitReturns(n) \/ CloseChannel(n) PROVE SmokeInv'
  <2> USE <1>10 DEF WaitReturns, CloseChannel, test
  <2>1. TypeOK'
    BY DEF TypeOK
  <2>2. Unstarted'
    BY DEF TypeOK, Unstarted, Known
  <2>3. Over'
    BY DEF TypeOK, Unstarted, Over, Reaped
  <2>4. Reaped'
    BY DEF TypeOK, Unstarted, Over, Reaped
  <2>5. Known'
    BY DEF TypeOK, Unstarted, Over, Reaped, Known, Alive
  <2> QED
    BY <2>1, <2>2, <2>3, <2>4, <2>5
<1>11. ASSUME NEW n \in Tries, Bind(n) \/ ServerExits(n) PROVE SmokeInv'
  <2> USE <1>11 DEF Bind, ServerExits, test, Alive
  <2>1. TypeOK'
    BY DEF TypeOK
  <2>2. Unstarted'
    BY DEF TypeOK, Unstarted, Known
  <2>3. Over'
    BY DEF TypeOK, Unstarted, Over, Reaped
  <2>4. Reaped'
    BY DEF TypeOK, Unstarted, Over, Reaped
  <2>5. Known'
    BY DEF TypeOK, Unstarted, Over, Reaped, Known, Alive
  <2> QED
    BY <2>1, <2>2, <2>3, <2>4, <2>5
<1>12. CASE LosePort \/ DeadlinePasses
  <2> USE <1>12 DEF LosePort, DeadlinePasses, test
  <2>1. TypeOK'
    BY DEF TypeOK
  <2>2. Unstarted'
    BY DEF TypeOK, Unstarted, Known
  <2>3. Over'
    BY DEF TypeOK, Unstarted, Over, Reaped
  <2>4. Reaped'
    BY DEF TypeOK, Unstarted, Over, Reaped
  <2>5. Known'
    BY DEF TypeOK, Unstarted, Over, Reaped, Known, Alive
  <2> QED
    BY <2>1, <2>2, <2>3, <2>4, <2>5
<1>13. CASE UNCHANGED vars
  <2> USE <1>13 DEF vars, test
  <2>1. TypeOK'
    BY DEF TypeOK
  <2>2. Unstarted'
    BY DEF TypeOK, Unstarted, Known
  <2>3. Over'
    BY DEF TypeOK, Unstarted, Over, Reaped
  <2>4. Reaped'
    BY DEF TypeOK, Unstarted, Over, Reaped
  <2>5. Known'
    BY DEF TypeOK, Unstarted, Over, Reaped, Known, Alive
  <2> QED
    BY <2>1, <2>2, <2>3, <2>4, <2>5
<1> QED
  BY <1>1, <1>2, <1>3, <1>4, <1>5, <1>6, <1>7, <1>8, <1>9, <1>10, <1>11, <1>12, <1>13
  DEF Next, TestStep, WaiterStep, Done

THEOREM Invariance == Spec => []SmokeInv
  BY InitInv, StepInv, PTL DEF Spec

-----------------------------------------------------------------------------
\* The attempts stay within serverStartAttempts, and a test is always somewhere.
THEOREM TypeCorrect == Spec => []TypeOK
<1>1. SmokeInv => TypeOK
  BY DEF SmokeInv
<1> QED
  BY <1>1, Invariance, PTL

\* When the smoke test is over, every server it started has exited and has been
\* waited for; and a further attempt starts one only after the one before is gone.
THEOREM NothingLeftBehind == Spec => []NoOrphans
<1>1. SmokeInv => NoOrphans
  BY SmokeAssumption DEF SmokeInv, TypeOK, Tries, Unstarted, Over, Known, NoOrphans, Alive
<1> QED
  BY <1>1, Invariance, PTL

-----------------------------------------------------------------------------
(* The server part *)

\* The tests of an exporter contain a smoke test: every step is one of its steps, or
\* none that it sees.
THEOREM ContainsSmoketest == TestsSpec => Spec
<1>1. TestsInit => Init
  BY DEF TestsInit
<1>2. [TestsNext]_allVars => [Next]_vars
  BY DEF TestsNext, StageStep, LoopStep, ScrapeStep, TestAdapter, TestSuite, BackgroundOver,
         SmokeSkipped, TestBinary, TestsOver, LoopRefreshes, LoopStores, ScrapeRefreshes,
         ScrapeStores, ScrapeReads, WaitDeadline, TestServer, AsBuilt, TestsDone, allVars
<1> QED
  BY <1>1, <1>2, PTL DEF TestsSpec, Spec

\* Whatever is built and however the earlier stages end, no two servers live at once,
\* and none outlives the tests.
THEOREM NoServerLeft == TestsSpec => []NoOrphans
BY ContainsSmoketest, NothingLeftBehind, PTL

-----------------------------------------------------------------------------
(* The background test *)

\* What is fetched and stored.
Snapshots ==
  /\ stage \in {"adapter", "suite"} => wait = "off"
  /\ fake \in {"good", "bad"}
  /\ loop = "refreshing" \/ scraping => held # "none"
  /\ wait \in {"off", "up"} => fake = "good" /\ held # "bad"

\* Scrapes refresh only while the test waits for the good snapshot.
ScrapesServe ==
  /\ scraping => wait = "up"
  /\ wait = "down" => cached # "none"

\* A bad snapshot has come by the loop.
ByLoop ==
  /\ cached = "bad" => by = "loop"
  /\ wait = "passed" => by = "loop"

BackgroundInv == Snapshots /\ ScrapesServe /\ ByLoop

LEMMA BackgroundInit == TestsInit => BackgroundInv
BY DEF TestsInit, BackgroundInv, Snapshots, ScrapesServe, ByLoop

\* The loop stores what it got, under its own name.
LEMMA LoopKeeps == BackgroundInv /\ LoopStep => BackgroundInv'
BY DEF LoopStep, LoopRefreshes, LoopStores, refreshing, BackgroundInv, Snapshots, ScrapesServe,
       ByLoop

\* A scrape that refreshes does so before the first snapshot, and the wait that it
\* belongs to is over only when it has stored what it got.
LEMMA ScrapeKeeps == BackgroundInv /\ ScrapeStep => BackgroundInv'
<1> SUFFICES ASSUME BackgroundInv, ScrapeStep PROVE BackgroundInv'
  OBVIOUS
<1> USE DEF BackgroundInv, Snapshots, ScrapesServe, ByLoop
<1>1. CASE ScrapeRefreshes
  BY <1>1 DEF ScrapeRefreshes, refreshing
<1>2. CASE ScrapeStores
  BY <1>2 DEF ScrapeStores, Look
<1>3. CASE ScrapeReads
  BY <1>3 DEF ScrapeReads, Look
<1> QED
  BY <1>1, <1>2, <1>3 DEF ScrapeStep

\* The stages begin the test and clean up after it.
LEMMA StageKeeps == BackgroundInv /\ StageStep => BackgroundInv'
<1> SUFFICES ASSUME BackgroundInv, StageStep PROVE BackgroundInv'
  OBVIOUS
<1> USE DEF BackgroundInv, Snapshots, ScrapesServe, ByLoop, background
<1>1. CASE TestSuite
  <2>1. UNCHANGED <<fake, cached, by, scraping, held>>
    BY <1>1 DEF TestSuite
  <2>2. stage = "suite" /\ stage' \in {"over", "smoke", "background"}
    BY <1>1 DEF TestSuite
  <2>3. \/ UNCHANGED <<wait, loop>>
        \/ wait' = "up" /\ loop' = "due"
    BY <1>1 DEF TestSuite
  <2> QED
    BY <2>1, <2>2, <2>3
<1>2. CASE BackgroundOver
  <2>1. UNCHANGED <<wait, fake, cached, by, scraping, held>> /\ loop' = "none" /\ stage' = "smoke"
    BY <1>2 DEF BackgroundOver
  <2> QED
    BY <2>1
<1>3. CASE TestAdapter \/ SmokeSkipped \/ TestBinary \/ TestsOver
  <2>1. UNCHANGED background /\ (stage' \in {"server", "over"} \/ stage = "adapter")
    BY <1>3 DEF TestAdapter, SmokeSkipped, TestBinary, TestsOver
  <2> QED
    BY <2>1
<1> QED
  BY <1>1, <1>2, <1>3 DEF StageStep

\* A collector whose loop does not run fails the test: no scrape of the test's own hides it.
THEOREM PassedByLoop == TestsSpec => []BackgroundHonest
<1>1. BackgroundInv /\ [TestsNext]_allVars => BackgroundInv'
  <2> SUFFICES ASSUME BackgroundInv, [TestsNext]_allVars PROVE BackgroundInv'
    OBVIOUS
  <2>1. CASE UNCHANGED <<stage, background>>
    BY <2>1 DEF background, BackgroundInv, Snapshots, ScrapesServe, ByLoop
  <2>2. CASE WaitDeadline
    BY <2>2 DEF WaitDeadline, BackgroundInv, Snapshots, ScrapesServe, ByLoop
  <2> QED
    BY <2>1, <2>2, LoopKeeps, ScrapeKeeps, StageKeeps
    DEF TestsNext, TestServer, AsBuilt, TestsDone, allVars, testVars
<1>2. BackgroundInv => BackgroundHonest
  BY DEF BackgroundInv, ByLoop, BackgroundHonest
<1> QED
  BY BackgroundInit, <1>1, <1>2, PTL DEF TestsSpec

-----------------------------------------------------------------------------
(* Intervals *)

\* The build and what becomes of it are settled at the start.
LEMMA BuildKept == [TestsNext]_allVars => build' = build /\ outcome' = outcome
BY Zenon
DEF TestsNext, StageStep, LoopStep, ScrapeStep, TestAdapter, TestSuite, BackgroundOver,
    SmokeSkipped, TestBinary, TestsOver, LoopRefreshes, LoopStores, ScrapeRefreshes,
    ScrapeStores, ScrapeReads, WaitDeadline, TestServer, AsBuilt, TestsDone, allVars, testVars

\* The default of a feature is a positive duration, whatever its options leave out.
LEMMA DefaultPositive ==
  ASSUME NEW options, NEW x,
         options.interval \in Int, options.fallback \in Int, x.interval \in Int
  PROVE  /\ NewFeature(options, x).defaultInterval \in Int
         /\ NewFeature(options, x).defaultInterval > 0
         /\ NewFeature(options, x).refreshInterval = NewFeature(options, x).defaultInterval
BY DEF NewFeature, NormalizeDuration, DefaultSnapshotRefreshInterval

\* The report and the collector put in the same default, and the collector's own changes
\* nothing any more.
LEMMA SameInterval ==
  ASSUME NEW f, NEW disk, NEW namespace,
         f.refreshInterval \in Int, f.defaultInterval \in Int, f.defaultInterval > 0
  PROVE  /\ RuntimeConfig(f, disk).refresh_interval = Collector(f, namespace).interval
         /\ Collector(f, namespace).interval > 0
         /\ f.refreshInterval > 0 => Collector(f, namespace).interval = f.refreshInterval
<1> DEFINE used == NormalizeDuration(f.refreshInterval, f.defaultInterval)
<1>1. used \in Int /\ used > 0 /\ (f.refreshInterval > 0 => used = f.refreshInterval)
  BY DEF NormalizeDuration
<1>2. RuntimeConfig(f, disk).refresh_interval = used
  BY DEF RuntimeConfig
<1>3. CollectorOptions(f, namespace).interval = used
  BY DEF CollectorOptions
<1>4. \A o : Int \cap {o.interval} # {} /\ o.interval > 0 =>
               ResolveSnapshotCollectorOptions(o).interval = o.interval
  BY DEF ResolveSnapshotCollectorOptions, NormalizeDuration
<1>5. Collector(f, namespace).interval
        = ResolveSnapshotCollectorOptions(CollectorOptions(f, namespace)).interval
  BY DEF Collector, NewSnapshotMetricsCollector
<1> QED
  BY <1>1, <1>2, <1>3, <1>4, <1>5

\* Parsing sets the interval of the flag or leaves it, and the default stays.
LEMMA ParsedInterval ==
  ASSUME NEW options, NEW x, NEW args, NEW flag, \A key \in DOMAIN args : args[key] = flag
  PROVE  LET feature == NewFeature(options, x)
             parsed == ParseFlags(feature, args)
         IN /\ parsed.defaultInterval = feature.defaultInterval
            /\ parsed.refreshInterval \in {flag, feature.refreshInterval}
<1> DEFINE feature == NewFeature(options, x)
           name == Or(options.name, "exporter")
           unset == ""
           key == feature.name \o ".refresh-interval"
           path == feature.name \o ".config-file"
           interval == IF key \in DOMAIN args THEN args[key] ELSE feature.refreshInterval
           file == IF path \in DOMAIN args THEN args[path] ELSE feature.file
<1>1. ParseFlags(feature, args) = [feature EXCEPT !.refreshInterval = interval, !.file = file]
  BY Zenon DEF ParseFlags
<1>2. interval \in {flag, feature.refreshInterval}
  BY Zenon
<1>3. \E n, d, s, e : feature = [name |-> n, defaultInterval |-> d, specInterval |-> s,
                                 refreshInterval |-> d, file |-> e, x |-> x]
  BY Zenon DEF NewFeature
<1> HIDE DEF feature, interval, file
<1>4. [feature EXCEPT !.refreshInterval = interval, !.file = file].defaultInterval
        = feature.defaultInterval
  BY <1>3
<1>5. [feature EXCEPT !.refreshInterval = interval, !.file = file].refreshInterval = interval
  BY <1>3
<1> QED
  BY <1>1, <1>2, <1>4, <1>5, Zenon DEF feature

\* Both together, for a feature with its flags parsed or not.
LEMMA FeatureIntervals ==
  ASSUME NEW options, NEW x, NEW args, NEW flag \in Int, NEW disk, NEW namespace,
         options.interval \in Int, options.fallback \in Int, x.interval \in Int,
         \A key \in DOMAIN args : args[key] = flag,
         NEW f \in {NewFeature(options, x), ParseFlags(NewFeature(options, x), args)}
  PROVE  /\ RuntimeConfig(f, disk).refresh_interval = Collector(f, namespace).interval
         /\ Collector(f, namespace).interval > 0
         /\ f.refreshInterval > 0 => Collector(f, namespace).interval = f.refreshInterval
<1>1. /\ NewFeature(options, x).defaultInterval \in Int
      /\ NewFeature(options, x).defaultInterval > 0
      /\ NewFeature(options, x).refreshInterval \in Int
  BY DefaultPositive
<1>2. f.refreshInterval \in Int /\ f.defaultInterval \in Int /\ f.defaultInterval > 0
  <2>1. /\ f.defaultInterval = NewFeature(options, x).defaultInterval
        /\ f.refreshInterval \in {flag, NewFeature(options, x).refreshInterval}
    BY ParsedInterval, Zenon
  <2> QED
    BY <1>1, <2>1
<1> QED
  BY <1>2, SameInterval

\* For any durations of hooks, options and flags, the reported interval is the one the
\* collector has, and positive.
THEOREM IntervalsAgree == TestsSpec => []OneInterval
<1>1. TestsInit => build \in Builds
  BY DEF TestsInit
<1>2. [TestsNext]_allVars => build' = build
  BY BuildKept
<1>3. build \in Builds => OneInterval
  <2> DEFINE Options_(default, fallback) ==
               [name |-> "", interval |-> default, fallback |-> fallback]
             Args(flag) == [name \in {"exporter.refresh-interval"} |-> flag]
             Agree(f) == /\ RuntimeConfig(f, build.disk).refresh_interval
                              = Collector(f, "exporter").interval
                         /\ Collector(f, "exporter").interval > 0
                         /\ f.refreshInterval > 0 =>
                              Collector(f, "exporter").interval = f.refreshInterval
             Both(options, args) == {NewFeature(options, build.x),
                                     ParseFlags(NewFeature(options, build.x), args)}
  <2>1. \A default, fallback : /\ Options_(default, fallback).interval = default
                               /\ Options_(default, fallback).fallback = fallback
    BY Zenon
  <2>2. \A flag : \A key \in DOMAIN Args(flag) : Args(flag)[key] = flag
    BY Zenon
  <2>3. (\A default, fallback, flag \in Intervals :
           \A f \in Both(Options_(default, fallback), Args(flag)) : Agree(f)) => OneInterval
    BY Zenon DEF OneInterval
  <2> HIDE DEF Options_, Args
  <2>4. ASSUME build \in Builds,
               NEW default \in Intervals, NEW fallback \in Intervals, NEW flag \in Intervals,
               NEW f \in Both(Options_(default, fallback), Args(flag))
        PROVE  Agree(f)
    <3> DEFINE options == Options_(default, fallback)
               args == Args(flag)
    <3>1. /\ flag \in Int /\ build.x.interval \in Int
          /\ options.interval \in Int /\ options.fallback \in Int
      <4>1. Intervals \subseteq Int /\ build.x.interval \in Int
        BY <2>4, TestsAssumption, Zenon
      <4> HIDE DEF options
      <4> QED
        BY <2>1, <4>1 DEF options
    <3>2. \A key \in DOMAIN args : args[key] = flag
      BY <2>2
    <3>3. f \in {NewFeature(options, build.x), ParseFlags(NewFeature(options, build.x), args)}
      OBVIOUS
    <3> HIDE DEF options, args
    <3> QED
      BY <3>1, <3>2, <3>3, FeatureIntervals
  <2> QED
    BY <2>3, <2>4
<1>4. build \in Builds /\ [TestsNext]_allVars => (build \in Builds)'
  BY <1>2
<1> QED
  BY <1>1, <1>3, <1>4, PTL DEF TestsSpec

-----------------------------------------------------------------------------
(* Versions *)

LEMMA Trimmed ==
  ASSUME NEW text
  PROVE  /\ TrimSpace(TrimSpace(text)) = TrimSpace(text)
         /\ TrimSpace("") = "" /\ TrimSpace("dev") = "dev"
         /\ TrimSpace("namespace is empty") = "namespace is empty"
BY TextsAssumption DEF TrimSpace

\* Seven checks are the most that are made at once.
LEMMA LeastOfSeven ==
  ASSUME NEW T, T \subseteq 1 .. 7, T # {}
  PROVE  \E i \in T : \A j \in T : i <= j
<1>1. \A j \in T : j \in {1, 2, 3, 4, 5, 6, 7}
  OBVIOUS
<1>2. CASE 1 \in T
  BY <1>1, <1>2
<1>3. CASE 1 \notin T /\ 2 \in T
  BY <1>1, <1>3
<1>4. CASE 1 \notin T /\ 2 \notin T /\ 3 \in T
  BY <1>1, <1>4
<1>5. CASE 1 \notin T /\ 2 \notin T /\ 3 \notin T /\ 4 \in T
  BY <1>1, <1>5
<1>6. CASE 1 \notin T /\ 2 \notin T /\ 3 \notin T /\ 4 \notin T
  <2>1. \A j \in T : j \in {5, 6, 7}
    BY <1>1, <1>6
  <2>2. CASE 5 \in T
    BY <2>1, <2>2
  <2>3. CASE 5 \notin T /\ 6 \in T
    BY <2>1, <2>3
  <2>4. CASE 5 \notin T /\ 6 \notin T
    <3>1. \A j \in T : j = 7
      BY <2>1, <2>4
    <3>2. PICK i \in T : TRUE
      OBVIOUS
    <3> QED
      BY <3>1, <3>2
  <2> QED
    BY <2>2, <2>3, <2>4
<1> QED
  BY <1>2, <1>3, <1>4, <1>5, <1>6

\* firstNonEmpty trims one of its values, and "" stands for none.
LEMMA FirstNonEmpty ==
  ASSUME NEW n \in 1 .. 7, NEW values, DOMAIN values = 1 .. n
  PROVE  /\ TrimSpace(values[1]) # "" => firstNonEmpty(values) = TrimSpace(values[1])
         /\ firstNonEmpty(values) = "" <=> \A i \in 1 .. n : TrimSpace(values[i]) = ""
         /\ TrimSpace(firstNonEmpty(values)) = firstNonEmpty(values)
<1> DEFINE filled == {i \in 1 .. n : TrimSpace(values[i]) # ""}
<1>0. 1 \in 1 .. n /\ 1 .. n \subseteq 1 .. 7
  OBVIOUS
<1>1. CASE filled = {}
  <2>1. firstNonEmpty(values) = ""
    BY <1>1 DEF firstNonEmpty
  <2>2. \A i \in 1 .. n : TrimSpace(values[i]) = ""
    BY <1>1
  <2> QED
    BY <1>0, <2>1, <2>2, Trimmed
<1>2. CASE filled # {}
  <2>1. \E i \in filled : \A j \in filled : i <= j
    BY <1>0, <1>2, LeastOfSeven
  <2>2. Min(filled) \in filled /\ \A j \in filled : Min(filled) <= j
    BY <2>1 DEF Min
  <2>3. firstNonEmpty(values) = TrimSpace(values[Min(filled)])
    BY <1>2 DEF firstNonEmpty
  <2>4. 1 \in filled => Min(filled) = 1
    <3>1. filled \subseteq 1 .. n
      OBVIOUS
    <3> HIDE DEF filled
    <3>2. Min(filled) \in 1 .. n /\ (1 \in filled => Min(filled) <= 1)
      BY <2>2, <3>1
    <3> QED
      BY <3>2
  <2> HIDE DEF filled
  <2>5. TrimSpace(values[Min(filled)]) # ""
    BY <2>2 DEF filled
  <2>6. \E i \in 1 .. n : TrimSpace(values[i]) # ""
    BY <2>2, <2>5 DEF filled
  <2>7. TrimSpace(values[1]) # "" => 1 \in filled
    BY <1>0 DEF filled
  <2> QED
    BY <2>3, <2>4, <2>5, <2>6, <2>7, Trimmed
<1> QED
  BY <1>1, <1>2

\* The trimmed text w that stands for a: a itself, if there is something in it.
Settled(a, w) == TrimSpace(w) = w /\ w # "" /\ TrimSpace(a) \in {"", w}

\* With "dev" at the end there always is one, and what is put in front of any values
\* after that is the first of them.
LEMMA FirstOfVersions ==
  ASSUME NEW n \in {3, 4}, NEW values, DOMAIN values = 1 .. n, values[n] = "dev"
  PROVE  /\ Settled(values[1], firstNonEmpty(values))
         /\ Settled(values[1], values[1]) => firstNonEmpty(values) = values[1]
<1>1. n \in 1 .. 7 /\ n \in 1 .. n
  OBVIOUS
<1>2. TrimSpace(values[n]) # ""
  BY Trimmed
<1> QED
  BY <1>1, <1>2, FirstNonEmpty DEF Settled

LEMMA FirstOfThree ==
  ASSUME NEW a, NEW b
  PROVE  /\ Settled(a, firstNonEmpty(<<a, b, "dev">>))
         /\ Settled(a, a) => firstNonEmpty(<<a, b, "dev">>) = a
<1> DEFINE t == <<a, b, "dev">>
<1>1. DOMAIN t = 1 .. 3 /\ t[3] = "dev" /\ t[1] = a
  OBVIOUS
<1>2. 3 \in {3, 4}
  OBVIOUS
<1> HIDE DEF t
<1>3. /\ Settled(t[1], firstNonEmpty(t))
      /\ Settled(t[1], t[1]) => firstNonEmpty(t) = t[1]
  BY ONLY <1>1, <1>2, FirstOfVersions
<1> QED
  BY <1>1, <1>3, Zenon DEF t

LEMMA FirstOfFour ==
  ASSUME NEW a, NEW b, NEW c
  PROVE  /\ Settled(a, firstNonEmpty(<<a, b, c, "dev">>))
         /\ Settled(a, a) => firstNonEmpty(<<a, b, c, "dev">>) = a
<1> DEFINE t == <<a, b, c, "dev">>
<1>1. DOMAIN t = 1 .. 4 /\ t[4] = "dev" /\ t[1] = a
  OBVIOUS
<1>2. 4 \in {3, 4}
  OBVIOUS
<1> HIDE DEF t
<1>3. /\ Settled(t[1], firstNonEmpty(t))
      /\ Settled(t[1], t[1]) => firstNonEmpty(t) = t[1]
  BY ONLY <1>1, <1>2, FirstOfVersions
<1> QED
  BY <1>1, <1>3, Zenon DEF t

LEMMA VersionHydrated ==
  ASSUME NEW current, NEW vcs
  PROVE  LET v == HydrateVersionMetadata(current, vcs)
         IN /\ HydrateVersionMetadata(v, vcs) = v
            /\ DOMAIN v = {"version", "branch", "revision"}
            /\ \A field \in {"version", "branch", "revision"} : Settled(current[field], v[field])
<1> DEFINE built == normalizeBuildVersion(vcs.version)
           revised == normalizeComputedRevision(vcs.revision)
           computed(c) == normalizeComputedRevision(Or(c.revision, "unknown"))
           Version(c) == firstNonEmpty(<<c.version, built, "dev">>)
           Branch(c) == firstNonEmpty(<<c.branch, vcs.branch, "dev">>)
           Revision(c) == firstNonEmpty(<<c.revision, revised, computed(c), "dev">>)
           v == HydrateVersionMetadata(current, vcs)
<1>1. \A c : HydrateVersionMetadata(c, vcs) =
               [version |-> Version(c), branch |-> Branch(c), revision |-> Revision(c)]
  BY Zenon DEF HydrateVersionMetadata, ResolveVersionMetadata
<1>2. \A c : /\ Settled(c.version, Version(c)) /\ Settled(c.branch, Branch(c))
             /\ Settled(c.revision, Revision(c))
             /\ Settled(c.version, c.version) => Version(c) = c.version
             /\ Settled(c.branch, c.branch) => Branch(c) = c.branch
             /\ Settled(c.revision, c.revision) => Revision(c) = c.revision
  BY FirstOfThree, FirstOfFour, Zenon
<1>3. \A a, w : Settled(a, w) => Settled(w, w)
  BY DEF Settled
<1> HIDE DEF Version, Branch, Revision
<1>4. v = [version |-> Version(current), branch |-> Branch(current), revision |-> Revision(current)]
  BY <1>1
<1>5. HydrateVersionMetadata(v, vcs)
        = [version |-> Version(v), branch |-> Branch(v), revision |-> Revision(v)]
  BY <1>1, Zenon
<1> HIDE DEF v
<1>6. /\ v.version = Version(current) /\ v.branch = Branch(current)
      /\ v.revision = Revision(current) /\ DOMAIN v = {"version", "branch", "revision"}
  BY <1>4
<1>7. Version(v) = v.version /\ Branch(v) = v.branch /\ Revision(v) = v.revision
  BY <1>2, <1>3, <1>6
<1>8. HydrateVersionMetadata(v, vcs) = v
  BY <1>4, <1>5, <1>6, <1>7
<1>9. \A field \in {"version", "branch", "revision"} : Settled(current[field], v[field])
  BY <1>2, <1>6
<1> QED
  BY <1>6, <1>8, <1>9 DEF v

\* Whatever is stamped and recorded, hydrating twice is hydrating once, nothing is left
\* unset, and what was stamped stays.
THEOREM VersionsStable == TestsSpec => []VersionStable
<1>1. VersionStable
  <2> DEFINE v == HydrateVersionMetadata(build.stamp, build.vcs)
  <2>1. /\ HydrateVersionMetadata(v, build.vcs) = v
        /\ DOMAIN v = {"version", "branch", "revision"}
        /\ \A field \in {"version", "branch", "revision"} : Settled(build.stamp[field], v[field])
    BY VersionHydrated
  <2> HIDE DEF v
  <2>2. \A field \in DOMAIN v : /\ TrimSpace(v[field]) # ""
                                /\ TrimSpace(build.stamp[field]) \in {"", v[field]}
    BY <2>1 DEF Settled
  <2> QED
    BY <2>1, <2>2, Zenon DEF VersionStable, v
<1> QED
  BY <1>1, PTL

-----------------------------------------------------------------------------
(* Names *)

\* No error, then none of the checks has one.
LEMMA NoErrors ==
  ASSUME NEW n \in 1 .. 7, NEW errors, DOMAIN errors = 1 .. n, TrimSpace(FirstError(errors)) = ""
  PROVE  \A i \in 1 .. n : TrimSpace(errors[i]) = ""
BY FirstNonEmpty, Zenon DEF FirstError

LEMMA ThreeChecks ==
  ASSUME NEW a, NEW b, NEW c, TrimSpace(FirstError(<<a, b, c>>)) = ""
  PROVE  TrimSpace(a) = ""
<1> DEFINE t == <<a, b, c>>
<1>1. DOMAIN t = 1 .. 3 /\ t[1] = a
  BY ONLY TRUE
<1>2. 3 \in 1 .. 7 /\ 1 \in 1 .. 3
  BY ONLY TRUE
<1> HIDE DEF t
<1>3. TrimSpace(FirstError(t)) = ""
  BY Zenon DEF t
<1>4. TrimSpace(t[1]) = ""
  BY <1>1, <1>2, <1>3, NoErrors, Zenon
<1> QED
  BY <1>1, <1>4, Zenon

\* Metadata that pass the checks have a namespace.
LEMMA NamespaceGiven ==
  ASSUME NEW m, TrimSpace(InjectedProjectMetadataErr(m)) = ""
  PROVE  m.namespace # ""
<1>1. TrimSpace(Validate(m)) = ""
  <2> DEFINE a == InjectedDefault("name", m.name)
             b == InjectedDefault("description", m.description)
             c == InjectedDefault("feature", m.feature)
             d == InjectedDefault("namespace", m.namespace)
             e == InjectedDefault("listen", m.listen)
             f == Validate(m)
  <2>1. TrimSpace(FirstError(<<a, b, c, d, e, f>>)) = ""
    BY Zenon DEF InjectedProjectMetadataErr
  <2> HIDE DEF a, b, c, d, e, f
  <2>2. TrimSpace(f) = ""
    <3> DEFINE t == <<a, b, c, d, e, f>>
    <3>1. DOMAIN t = 1 .. 6 /\ t[6] = f
      BY ONLY TRUE
    <3>2. 6 \in 1 .. 7 /\ 6 \in 1 .. 6
      BY ONLY TRUE
    <3> HIDE DEF t
    <3>3. TrimSpace(FirstError(t)) = ""
      BY <2>1, Zenon DEF t
    <3>4. TrimSpace(t[6]) = ""
      BY <3>1, <3>2, <3>3, NoErrors, Zenon
    <3> QED
      BY <3>1, <3>4, Zenon
  <2> QED
    BY <2>2 DEF f
<1>2. TrimSpace(validateMetricNamespace(m.namespace)) = ""
  <2> DEFINE a == InjectedDefault("name", m.name)
             b == InjectedDefault("description", m.description)
             c == InjectedDefault("feature", m.feature)
             d == InjectedDefault("namespace", m.namespace)
             e == validateMetricNamespace(m.namespace)
             f == InjectedDefault("listen", m.listen)
             g == ValidateListenAddress(m.listen)
  <2>1. TrimSpace(FirstError(<<a, b, c, d, e, f, g>>)) = ""
    BY <1>1, Zenon DEF Validate
  <2> HIDE DEF a, b, c, d, e, f, g
  <2>2. TrimSpace(e) = ""
    <3> DEFINE t == <<a, b, c, d, e, f, g>>
    <3>1. DOMAIN t = 1 .. 7 /\ t[5] = e
      BY ONLY TRUE
    <3>2. 7 \in 1 .. 7 /\ 5 \in 1 .. 7
      BY ONLY TRUE
    <3> HIDE DEF t
    <3>3. TrimSpace(FirstError(t)) = ""
      BY <2>1, Zenon DEF t
    <3>4. TrimSpace(t[5]) = ""
      BY <3>1, <3>2, <3>3, NoErrors, Zenon
    <3> QED
      BY <3>1, <3>4, Zenon
  <2> QED
    BY <2>2 DEF e
<1>3. TrimSpace(Check(TrimSpace(m.namespace) # "", "namespace is empty")) = ""
  <2> DEFINE text == m.namespace
             a == Check(TrimSpace(text) # "", "namespace is empty")
             b == Check(TrimSpace(text) = text, "namespace has white space around it")
             c == Check(text \in Identifiers, "namespace is no identifier")
  <2>1. TrimSpace(FirstError(<<a, b, c>>)) = ""
    BY <1>2, Zenon DEF validateMetricNamespace
  <2> HIDE DEF a, b, c
  <2>2. TrimSpace(a) = ""
    BY <2>1, ThreeChecks, Zenon
  <2> QED
    BY <2>2 DEF a
<1>4. TrimSpace(m.namespace) # ""
  BY <1>3, Trimmed DEF Check
<1> QED
  BY <1>4, Trimmed

\* A configuration with another name.
LEMMA Renamed ==
  ASSUME NEW n, NEW s, NEW d, NEW l, NEW t, NEW e
  PROVE  LET c == [name |-> n, namespace |-> s, description |-> d, listen |-> l, path |-> t]
         IN /\ c.name = n
            /\ [c EXCEPT !.name = e].name = e
            /\ [c EXCEPT !.name = e].namespace = s /\ [c EXCEPT !.name = e].listen = l
BY ONLY TRUE

\* What the command line makes of the metadata linked and the file's name: the namespace,
\* and the name to go by.
LEMMA CommandNames ==
  ASSUME NEW m, NEW base, NEW flags, NEW action, NEW path
  PROVE  /\ RunCLI(base, ConfigFromInjectedProject(m), flags, action, path).namespace
              = Or(m.namespace, Or(ExecutableName(base, m.name), "exporter_framework"))
         /\ RunCLI(base, ConfigFromInjectedProject(m), flags, action, path).usage
              = Or(ExecutableName(base, m.name), "exporter_framework")
<1> DEFINE cli == RunCLI(base, ConfigFromInjectedProject(m), flags, action, path)
           c == ConfigFromInjectedProject(m)
           cfg == normalized([c EXCEPT !.name = ExecutableName(base, c.name)])
<1>1. c = [name |-> m.name, namespace |-> m.namespace, description |-> m.description,
           listen |-> m.listen, path |-> ""]
  BY DEF ConfigFromInjectedProject
<1>2. cli.namespace = cfg.namespace /\ cli.usage = cfg.name
  BY DEF RunCLI
<1> HIDE DEF c, cli
<1> DEFINE d == [c EXCEPT !.name = ExecutableName(base, c.name)]
<1>3. d.name = ExecutableName(base, m.name) /\ d.namespace = m.namespace
  BY <1>1, Renamed, Zenon
<1>4. /\ cfg.name = Or(ExecutableName(base, m.name), "exporter_framework")
      /\ cfg.namespace = Or(m.namespace, Or(ExecutableName(base, m.name), "exporter_framework"))
  BY <1>3 DEF normalized
<1> QED
  BY <1>2, <1>4, Zenon DEF cli

\* What a process of build b under the name base shows of itself.
Presents(p, b, base) == p.error = "" =>
  /\ p.namespace = testBinary(b).metadata.namespace
  /\ testBinary(b).metadata.namespace # ""
  /\ base # "." /\ TrimSpace(base) # "" => p.usage = base

\* A process that gets through its checks serves the namespace of its metadata, whatever
\* its file is called, and goes by the file's name if it has one.
LEMMA NamedProcess ==
  ASSUME NEW b, NEW base, NEW action, NEW args, NEW path
  PROVE  Presents(Process(b, base, action, args, path), b, base)
<1> DEFINE m == testBinary(b).metadata
           feature == NewNamedFeature(b, m.feature)
           parsed == ParseError(feature, args)
           cli == RunCLI(base, ConfigFromInjectedProject(m), parsed, action, path)
           taken == {StandardMetricInfo(cli.namespace).BuildInfo}
           collectors == RegisterCollectors(ParseFlags(feature, args), cli.namespace, b.disk, taken)
           errors == <<InjectedProjectMetadataErr(m), cli.error,
                       IF action = "serve" THEN collectors ELSE "">>
           version == HydrateVersionMetadata(testBinary(b).stamp, testBinary(b).vcs)
           collector == Collector(ParseFlags(feature, args), cli.namespace)
           p == Process(b, base, action, args, path)
<1>1. p = [usage |-> cli.usage, namespace |-> cli.namespace, error |-> FirstError(errors),
           version |-> version, collector |-> collector]
  BY Zenon DEF Process
<1>3. cli.namespace = Or(m.namespace, Or(ExecutableName(base, m.name), "exporter_framework"))
      /\ cli.usage = Or(ExecutableName(base, m.name), "exporter_framework")
  <2> HIDE DEF m, parsed
  <2> QED
    BY CommandNames, Zenon
<1> HIDE DEF p, cli, errors, collectors, version, collector
<1> SUFFICES ASSUME p.error = ""
             PROVE  /\ p.namespace = m.namespace
                    /\ m.namespace # ""
                    /\ base # "." /\ TrimSpace(base) # "" => p.usage = base
  BY DEF Presents, p
<1>4. p.usage = cli.usage /\ p.namespace = cli.namespace /\ p.error = FirstError(errors)
  BY <1>1
<1>5. TrimSpace(InjectedProjectMetadataErr(m)) = ""
  <2>1. TrimSpace(FirstError(errors)) = ""
    BY <1>4, Trimmed
  <2> QED
    BY <2>1, ThreeChecks, Zenon DEF errors
<1>6. m.namespace # ""
  BY <1>5, NamespaceGiven
<1>7. p.namespace = m.namespace
  BY <1>3, <1>4, <1>6, Zenon DEF Or
<1>8. ASSUME base # ".", TrimSpace(base) # "" PROVE p.usage = base
  <2>1. ExecutableName(base, m.name) = base
    BY <1>8 DEF ExecutableName
  <2>2. base # ""
    BY <1>8, Trimmed
  <2> QED
    BY <1>3, <1>4, <2>1, <2>2, Zenon DEF Or
<1> QED
  BY <1>6, <1>7, <1>8

\* A file has a name.
NamedBinaries == \A b \in Builds :
  b.binary # "none" => b.base # "." /\ TrimSpace(b.base) # ""

\* A test that builds its binary links no metadata, and none of its processes gets far.
LEMMA NoneLinked ==
  ASSUME NEW b, b.binary = "none"
  PROVE  testBinary(b).metadata.namespace = ""
BY DEF testBinary, NoMetadata

\* A renamed binary serves the namespace that was linked into it, and goes by its new name
\* whenever that is one.
THEOREM RenamedSameMetrics ==
  ASSUME NamedBinaries
  PROVE  TestsSpec => []RenamedKeepsMetrics
<1> DEFINE Fine(base) ==
             LET p == Process(build, base, "help", <<>>, "")
             IN p.error = "" => /\ p.namespace = testBinary(build).metadata.namespace
                                /\ base \in Identifiers \/ base = BinaryName(build) => p.usage = base
           p(base) == Process(build, base, "help", <<>>, "")
<1>1. TestsInit => build \in Builds
  BY DEF TestsInit
<1>2. [TestsNext]_allVars => build' = build
  BY BuildKept
<1>3. build \in Builds => RenamedKeepsMetrics
  <2> SUFFICES ASSUME build \in Builds PROVE \A base : Fine(base)
    BY Zenon DEF RenamedKeepsMetrics
  <2> TAKE base
  <2> SUFFICES ASSUME p(base).error = ""
               PROVE  /\ p(base).namespace = testBinary(build).metadata.namespace
                      /\ base \in Identifiers \/ base = BinaryName(build) => p(base).usage = base
    BY Zenon
  <2>1. /\ p(base).namespace = testBinary(build).metadata.namespace
        /\ testBinary(build).metadata.namespace # ""
        /\ base # "." /\ TrimSpace(base) # "" => p(base).usage = base
    <3>1. Presents(p(base), build, base)
      BY NamedProcess, Zenon
    <3> QED
      BY <3>1, Zenon DEF Presents
  <2>2. ASSUME base \in Identifiers \/ base = BinaryName(build) PROVE base # "." /\ TrimSpace(base) # ""
    <3>1. CASE base \in Identifiers
      BY <3>1, TextsAssumption DEF TrimSpace
    <3>2. CASE base = BinaryName(build)
      <4>1. build.binary # "none"
        BY <2>1, NoneLinked, Zenon
      <4> QED
        BY <3>2, <4>1, NamedBinaries DEF NamedBinaries, BinaryName
    <3> QED
      BY <2>2, <3>1, <3>2
  <2>3. ASSUME base \in Identifiers \/ base = BinaryName(build) PROVE p(base).usage = base
    BY <2>1, <2>2, <2>3
  <2> QED
    BY <2>1, <2>3
<1>4. build \in Builds /\ [TestsNext]_allVars => (build \in Builds)'
  BY <1>2
<1> QED
  BY <1>1, <1>3, <1>4, PTL DEF TestsSpec

-----------------------------------------------------------------------------
(* Vouching *)

\* A test that has passed on a port of its own has seen the metrics of this build.
Passed == verdict = "pass" => /\ pc \in {"cleanup", "await", "awaitKilled", "done"}
                              /\ ~lost => outcome.complete
PassInv == outcome = Outcome(build) /\ Passed

LEMMA PassInit == TestsInit => PassInv
BY Zenon DEF TestsInit, Init, PassInv, Passed

\* The steps of the server part: they give no verdict but the one that is asked for, and
\* the port is one's own again only at a start.
LEMMA PassServer == PassInv /\ TestServer => Passed'
<1> SUFFICES ASSUME PassInv, TestServer PROVE Passed'
  OBVIOUS
<1>1. Next /\ (verdict' = "pass" /\ ~lost => outcome.complete) /\ outcome' = outcome
  BY DEF TestServer, AsBuilt, testVars
<1>2. Passed
  BY DEF PassInv
<1>3. CASE MetricsComplete
  BY <1>1, <1>2, <1>3 DEF MetricsComplete, Finish, Passed
<1>4. CASE StartServer \/ StartFails \/ ExitInWindow \/ WindowEnds \/ TimesOut \/ FailIfExited \/ Ask
  BY <1>1, <1>2, <1>4
  DEF StartServer, StartFails, ExitInWindow, WindowEnds, TimesOut, FailIfExited, Ask, Finish, Passed
<1>5. CASE HealthUp \/ HealthNotYet \/ HealthOK \/ GetFails \/ MetricsNotYet
  BY <1>1, <1>2, <1>5 DEF HealthUp, HealthNotYet, HealthOK, GetFails, MetricsNotYet, Finish, Passed
<1>6. CASE NothingToClean \/ CancelServer \/ KillServer \/ ServerGone
  BY <1>1, <1>2, <1>6 DEF NothingToClean, CancelServer, KillServer, ServerGone, Passed
<1>7. CASE \E n \in Tries : WaiterStep(n) \/ Bind(n) \/ ServerExits(n)
  BY <1>1, <1>2, <1>7 DEF WaiterStep, WaitReturns, CloseChannel, Bind, ServerExits, test, Passed
<1>8. CASE LosePort \/ DeadlinePasses \/ Done
  BY <1>1, <1>2, <1>8 DEF LosePort, DeadlinePasses, Done, vars, test, Passed
<1> QED
  BY <1>1, <1>3, <1>4, <1>5, <1>6, <1>7, <1>8 DEF Next, TestStep

LEMMA PassStep == PassInv /\ [TestsNext]_allVars => PassInv'
<1> SUFFICES ASSUME PassInv, [TestsNext]_allVars PROVE PassInv'
  OBVIOUS
<1>1. build' = build /\ outcome' = outcome
  BY BuildKept
<1>2. CASE TestServer
  BY <1>1, <1>2, PassServer DEF PassInv
<1>3. CASE ~TestServer
  <2>1. UNCHANGED vars
    BY <1>3, Zenon
    DEF TestsNext, StageStep, LoopStep, ScrapeStep, TestAdapter, TestSuite, BackgroundOver,
        SmokeSkipped, TestBinary, TestsOver, LoopRefreshes, LoopStores, ScrapeRefreshes,
        ScrapeStores, ScrapeReads, WaitDeadline, TestsDone, allVars
  <2> QED
    BY <1>1, <2>1 DEF PassInv, Passed, vars, test
<1> QED
  BY <1>2, <1>3

\* Texts with one end: if the one ends in the other, so it does before that end.
LEMMA EndCut ==
  ASSUME NEW C, NEW s \in Seq(C), NEW t \in Seq(C), NEW end \in Seq(C),
         EndsWith(s \o end, t \o end)
  PROVE  EndsWith(s, t)
<1> DEFINE long == s \o end
           d == Len(s) - Len(t)
<1>1. /\ Len(long) = Len(s) + Len(end) /\ Len(t \o end) = Len(t) + Len(end)
      /\ Len(s) \in Nat /\ Len(t) \in Nat /\ Len(end) \in Nat /\ long \in Seq(C)
  OBVIOUS
<1>2. Len(t) <= Len(s) /\ d \in Nat
  BY <1>1 DEF EndsWith
<1>3. SubSeq(long, d + 1, Len(s) + Len(end)) = t \o end
  <2>1. Len(long) - Len(t \o end) = d
    BY <1>1
  <2> QED
    BY <1>1, <2>1 DEF EndsWith
<1>4. \A i \in 1 .. Len(t) : s[d + i] = t[i]
  <2> TAKE i \in 1 .. Len(t)
  <2>1. (t \o end)[i] = t[i]
    OBVIOUS
  <2>2. SubSeq(long, d + 1, Len(s) + Len(end))[i] = long[d + i]
    BY <1>1, <1>2
  <2>3. long[d + i] = s[d + i]
    BY <1>1, <1>2
  <2> QED
    BY <1>3, <2>1, <2>2, <2>3
<1>5. SubSeq(s, d + 1, Len(s)) = t
  <2>1. SubSeq(s, d + 1, Len(s)) \in Seq(C) /\ Len(SubSeq(s, d + 1, Len(s))) = Len(t)
    BY <1>1, <1>2
  <2>2. \A i \in 1 .. Len(t) : SubSeq(s, d + 1, Len(s))[i] = s[d + i]
    BY <1>1, <1>2
  <2> QED
    BY <1>4, <2>1, <2>2
<1> QED
  BY <1>2, <1>5 DEF EndsWith

\* Strings are sequences of characters.  That a literal is a string is nothing the provers
\* know, so the literals are named.
Spelled(Char) ==
  STRING \cup {"", "exporter_framework", "_last_collection_success"} \subseteq Seq(Char)

\* The namespace that a binary serves is a text.
LEMMA NamespaceText ==
  ASSUME NEW Char, Spelled(Char), NEW b \in Builds
  PROVE  Server(b).namespace \in Seq(Char) /\ b.tested.namespace \in Seq(Char)
<1> DEFINE m == testBinary(b).metadata
           base == BinaryName(b)
           name == Or(ExecutableName(base, m.name), "exporter_framework")
           Text == STRING \cup {"", "exporter_framework"}
<1>1. /\ b.tested.name \in STRING /\ b.tested.namespace \in STRING /\ b.base \in STRING
      /\ b.linked.name \in STRING /\ b.linked.namespace \in STRING
  BY TestsAssumption
<1>2. m.name \in Text /\ m.namespace \in Text
  <2>1. NoMetadata.name \in Text /\ NoMetadata.namespace \in Text
    BY DEF NoMetadata
  <2>2. m = NoMetadata \/ m = b.linked
    BY DEF testBinary
  <2> QED
    BY <1>1, <2>1, <2>2
<1>3. base \in Text
  BY <1>1 DEF BinaryName
<1>4. Server(b).namespace = Or(m.namespace, name)
  <2> DEFINE parsed == ParseError(NewNamedFeature(b, m.feature), ServerArgs(b))
             cli == RunCLI(base, ConfigFromInjectedProject(m), parsed, "serve", "/metrics")
  <2>1. Server(b).namespace = cli.namespace
    BY DEF Server, Process
  <2> HIDE DEF m, base, parsed
  <2> QED
    BY <2>1, CommandNames, Zenon
<1> HIDE DEF m, base
<1>5. name \in Text
  <2>1. "exporter_framework" \in Text
    OBVIOUS
  <2>2. ExecutableName(base, m.name) \in Text
    BY <1>2, <1>3 DEF ExecutableName
  <2> QED
    BY <2>1, <2>2, Zenon DEF Or
<1>6. Server(b).namespace \in Text
  BY <1>2, <1>4, <1>5 DEF Or
<1> QED
  BY <1>1, <1>6 DEF Spelled

\* No metric of a feature's own ends in the name of the success metric that is tested.
OwnNames ==
  \A b \in Builds : \A spec \in ToSet(b.x.helpers.own) :
    ~EndsWith(MetricName(spec, Server(b).collector.name, Server(b).namespace),
              StandardMetricInfo(b.tested.namespace).LastCollectionSuccess)

\* What a search finds.  Only the build info has labels of a version, and only the success
\* metric, by its value or with the end of its name, is what the test takes for its own.
LEMMA Complete ==
  ASSUME NEW Char, Spelled(Char), OwnNames,
         NEW b \in Builds, containsAll(Served(b), metricWants(b))
  PROVE  /\ EndsWith(Server(b).namespace, b.tested.namespace)
         /\ Server(b).version = SmokeVersion
         /\ Server(b).collector.snapshotter = "good"
<1> DEFINE p == Server(b)
           v == p.version
           success == IF p.collector.snapshotter = "good" THEN 1 ELSE 0
           stamps == {<<field, v[field]>> : field \in DOMAIN v}
           built == Sample(StandardMetricInfo(p.namespace).BuildInfo, stamps, 1)
           status == Sample(StandardMetricInfo(p.namespace).LastCollectionSuccess, {}, success)
           Own(s) == \E spec \in ToSet(b.x.helpers.own) :
             s = Sample(MetricName(spec, p.collector.name, p.namespace),
                        IF spec.labels = 0 THEN {} ELSE {<<"label", "">>}, 1)
           wanted == StandardMetricInfo(b.tested.namespace).LastCollectionSuccess
<1>1. \A s \in Served(b) : s = built \/ s = status \/ Own(s)
  BY Zenon DEF Served
<1>2. v = [version |-> v.version, branch |-> v.branch, revision |-> v.revision]
  BY DEF Server, Process, HydrateVersionMetadata, ResolveVersionMetadata
<1>3. /\ metricWants(b).labels = {<<field, SmokeVersion[field]>> : field \in DOMAIN SmokeVersion}
      /\ <<wanted, 1>> \in metricWants(b).samples
  BY DEF metricWants, Info, ExporterInfoFromProjectMetadata
<1> HIDE DEF p, v, success, wanted
<1>4. PICK s \in Served(b) : EndsWith(s.metric, wanted) /\ s.labels = {} /\ s.value = 1
  <2>1. ContainsSample(Served(b), <<wanted, 1>>)
    BY <1>3, Zenon DEF containsAll
  <2> QED
    BY <2>1 DEF ContainsSample
<1>5. s = status
  <2>1. s # built
    <3>1. stamps # {}
      BY <1>2
    <3> QED
      BY <1>4, <3>1 DEF Sample
  <2>2. ASSUME Own(s) PROVE FALSE
    <3>1. PICK spec \in ToSet(b.x.helpers.own) :
            s = Sample(MetricName(spec, p.collector.name, p.namespace),
                       IF spec.labels = 0 THEN {} ELSE {<<"label", "">>}, 1)
      BY <2>2
    <3>2. s.metric = MetricName(spec, p.collector.name, p.namespace)
      BY <3>1 DEF Sample
    <3> QED
      BY <1>4, <3>2, Zenon DEF OwnNames, p, wanted
  <2> QED
    BY <1>1, <2>1, <2>2, Zenon
<1>6. p.collector.snapshotter = "good"
  BY <1>4, <1>5 DEF Sample, success
<1>7. EndsWith(p.namespace, b.tested.namespace)
  <2> DEFINE end == "_last_collection_success"
  <2>1. EndsWith(p.namespace \o end, b.tested.namespace \o end)
    BY <1>4, <1>5 DEF Sample, StandardMetricInfo, wanted
  <2>2. p.namespace \in Seq(Char) /\ b.tested.namespace \in Seq(Char)
    BY NamespaceText, Zenon DEF p
  <2>3. end \in Seq(Char)
    BY DEF Spelled
  <2> HIDE DEF end
  <2> QED
    BY <2>1, <2>2, <2>3, EndCut, Zenon
<1>8. v = SmokeVersion
  <2> SUFFICES ASSUME NEW field \in {"version", "branch", "revision"}
               PROVE  v[field] = SmokeVersion[field]
    BY <1>2 DEF SmokeVersion
  <2>1. <<field, SmokeVersion[field]>> \in metricWants(b).labels
    BY <1>3 DEF SmokeVersion
  <2>2. PICK t \in Served(b) : <<field, SmokeVersion[field]>> \in t.labels
    BY <2>1, Zenon DEF containsAll
  <2>3. t = built
    <3>1. t # status
      BY <2>2 DEF Sample
    <3>2. ASSUME Own(t) PROVE FALSE
      <4>1. t.labels \subseteq {<<"label", "">>}
        <5>1. PICK spec \in ToSet(b.x.helpers.own) :
                t = Sample(MetricName(spec, p.collector.name, p.namespace),
                           IF spec.labels = 0 THEN {} ELSE {<<"label", "">>}, 1)
          BY <3>2
        <5>2. t.labels = IF spec.labels = 0 THEN {} ELSE {<<"label", "">>}
          BY <5>1 DEF Sample
        <5> QED
          BY <5>2
      <4>2. <<field, SmokeVersion[field]>> # <<"label", "">>
        OBVIOUS
      <4> QED
        BY <2>2, <4>1, <4>2
    <3> QED
      BY <1>1, <3>1, <3>2, Zenon
  <2>4. <<field, SmokeVersion[field]>> \in stamps
    BY <2>2, <2>3 DEF Sample
  <2> QED
    BY <2>4
<1> QED
  BY <1>6, <1>7, <1>8, Zenon DEF p, v

\* Whatever is built: a smoke test that passes vouches for the exporter, as far as a search
\* of the text can.
THEOREM SmokeVouched ==
  ASSUME NEW Char, Spelled(Char), OwnNames
  PROVE  TestsSpec => []SmokeVouches
<1>1. build \in Builds /\ PassInv => SmokeVouches
  <2> SUFFICES ASSUME build \in Builds, PassInv, verdict = "pass", ~lost
               PROVE  /\ EndsWith(Server(build).namespace, build.tested.namespace)
                      /\ Server(build).version = SmokeVersion
                      /\ Server(build).collector.snapshotter = "good"
    BY Zenon DEF SmokeVouches
  <2>1. outcome.complete /\ outcome = Outcome(build)
    BY DEF PassInv, Passed
  <2>2. Outcome(build).complete => containsAll(Served(build), metricWants(build))
    BY Zenon DEF Outcome
  <2> QED
    BY <2>1, <2>2, Complete, Zenon
<1>2. TestsInit => build \in Builds
  BY DEF TestsInit
<1>3. build \in Builds /\ [TestsNext]_allVars => (build \in Builds)'
  BY BuildKept
<1> QED
  BY <1>1, <1>2, <1>3, PassInit, PassStep, PTL DEF TestsSpec

-----------------------------------------------------------------------------
(* The report *)

\* A build of which every test but the two that wait has a good outcome.
Sound == /\ ~outcome.panics /\ outcome.info = "info" /\ build.binary # "missing"
         /\ outcome.adapter = {} /\ outcome.suite = {} /\ outcome.binary = {}
Clocked == {"collector_background_refresh", "server"}
SoundInv == Sound => failed \subseteq Clocked

\* The stages report the outcomes and nothing else: only the tests that wait, for a
\* background refresh and for the server, can fail a build whose outcomes are good.
THEOREM OnlyTheClock == TestsSpec => []SoundInv
<1>1. TestsInit => SoundInv
  BY DEF TestsInit, SoundInv
<1>2. ASSUME SoundInv, [TestsNext]_allVars PROVE SoundInv'
  <2> SUFFICES ASSUME Sound' PROVE (failed \subseteq Clocked)'
    BY DEF SoundInv
  <2>1. Sound /\ failed \subseteq Clocked
    BY <1>2, BuildKept DEF Sound, SoundInv
  <2>2. CASE TestAdapter \/ TestSuite \/ TestBinary
    BY <2>1, <2>2 DEF TestAdapter, TestSuite, TestBinary, Sound
  <2>3. CASE SmokeSkipped
    BY <2>1, <2>3 DEF SmokeSkipped, Sound
  <2>4. CASE BackgroundOver \/ TestsOver
    BY <2>1, <2>4 DEF BackgroundOver, TestsOver, Clocked
  <2>5. CASE UNCHANGED failed
    BY <2>1, <2>5
  <2>6. CASE LoopStep \/ ScrapeStep \/ WaitDeadline \/ TestServer \/ TestsDone \/ UNCHANGED allVars
    <3>1. UNCHANGED failed
      BY <2>6, Zenon
      DEF LoopStep, ScrapeStep, LoopRefreshes, LoopStores, ScrapeRefreshes, ScrapeStores,
          ScrapeReads, WaitDeadline, TestServer, AsBuilt, TestsDone, allVars, testVars
    <3> QED
      BY <2>5, <3>1
  <2> QED
    BY <1>2, <2>2, <2>3, <2>4, <2>6, Zenon DEF TestsNext, StageStep
<1> QED
  BY <1>1, <1>2, PTL DEF TestsSpec

-----------------------------------------------------------------------------
(* Tables: no two specifications of a feature share an identifier or a name. *)

StandardSuffixes ==
  {"_build_info", "_last_collection_success", "_last_collection_timestamp_seconds",
   "_last_successful_collection_timestamp_seconds", "_collection_duration_seconds"}
MetricSuffixes ==
  {TTLCacheMetrics[i] : i \in 1 .. 7} \cup {FileScrapeMetrics[i] : i \in 1 .. 6}
    \cup {LastKnownGoodMetrics[i] : i \in 1 .. 4} \cup StandardSuffixes

\* The strings: that a literal is one of them is nothing the provers know.
Texts ==
  STRING \cup MetricSuffixes
    \cup {"", ".", "_", "cache", "exporter", "refresh-interval", "config-file"}

\* What is true of strings: joining them is associative and can be undone on the left, ...
Joins ==
  /\ \A s, t \in Texts : s \o t \in Texts
  /\ \A s, t, u \in Texts : s \o (t \o u) = (s \o t) \o u
  /\ \A s, t, u \in Texts : s \o t = s \o u => t = u
Fills == \A s, t \in Texts : s \o t = "" => s = "" /\ t = ""

\* ... and none of the suffixes of metrics is the end of another one, so that a name
\* tells its suffix and what is in front of it.
Splits == \A s, t \in Texts, a, b \in MetricSuffixes : s \o a = t \o b => s = t /\ a = b

MetricSpec ==
  [id : Texts, scope : {"feature", "namespace", "absolute"}, name : Texts, labels : Nat]

Apart(p, q, f, n) == p.id # q.id /\ MetricName(p, f, n) # MetricName(q, f, n)
AllApart(specs, f, n) ==
  \A i, j \in DOMAIN specs : i # j => Apart(specs[i], specs[j], f, n)

LEMMA ApartAppended ==
  ASSUME NEW f, NEW n, NEW s \in Seq(MetricSpec), NEW t \in Seq(MetricSpec),
         AllApart(s, f, n), AllApart(t, f, n),
         \A i \in DOMAIN s, j \in DOMAIN t : Apart(s[i], t[j], f, n)
  PROVE  s \o t \in Seq(MetricSpec) /\ AllApart(s \o t, f, n)
<1>1. \A p, q : Apart(p, q, f, n) => Apart(q, p, f, n)
  BY DEF Apart
<1>2. /\ Len(s) \in Nat /\ Len(t) \in Nat /\ DOMAIN s = 1 .. Len(s) /\ DOMAIN t = 1 .. Len(t)
      /\ DOMAIN (s \o t) = 1 .. Len(s) + Len(t)
      /\ \A i \in 1 .. Len(s) + Len(t) :
           (s \o t)[i] = IF i <= Len(s) THEN s[i] ELSE t[i - Len(s)]
  OBVIOUS
<1>3. ASSUME NEW i \in DOMAIN (s \o t), NEW j \in DOMAIN (s \o t), i # j
      PROVE  Apart((s \o t)[i], (s \o t)[j], f, n)
  <2>1. CASE i <= Len(s) /\ j <= Len(s)
    BY <1>2, <1>3, <2>1 DEF AllApart
  <2>2. CASE i <= Len(s) /\ j > Len(s)
    BY <1>2, <1>3, <2>2
  <2>3. CASE i > Len(s) /\ j <= Len(s)
    BY <1>1, <1>2, <1>3, <2>3
  <2>4. CASE i > Len(s) /\ j > Len(s)
    BY <1>2, <1>3, <2>4 DEF AllApart
  <2> QED
    BY <1>2, <2>1, <2>2, <2>3, <2>4
<1> QED
  BY <1>3 DEF AllApart

\* The specification that a table has for a suffix.
Row(source, suffix, labels) ==
  [id |-> source \o suffix, scope |-> "feature", name |-> "_" \o source \o suffix,
   labels |-> labels]

\* The lists of suffixes have none twice, nor one of another list.
LEMMA SuffixLists ==
  /\ DOMAIN TTLCacheMetrics = 1 .. 7 /\ DOMAIN FileScrapeMetrics = 1 .. 6
  /\ DOMAIN LastKnownGoodMetrics = 1 .. 4
  /\ \A i, j \in 1 .. 7 : TTLCacheMetrics[i] = TTLCacheMetrics[j] => i = j
  /\ \A i, j \in 1 .. 6 : FileScrapeMetrics[i] = FileScrapeMetrics[j] => i = j
  /\ \A i, j \in 1 .. 4 : LastKnownGoodMetrics[i] = LastKnownGoodMetrics[j] => i = j
  /\ \A i \in 1 .. 7, j \in 1 .. 6 : TTLCacheMetrics[i] # FileScrapeMetrics[j]
  /\ \A i \in 1 .. 7, j \in 1 .. 4 : TTLCacheMetrics[i] # LastKnownGoodMetrics[j]
  /\ \A i \in 1 .. 6, j \in 1 .. 4 : FileScrapeMetrics[i] # LastKnownGoodMetrics[j]
  /\ \A i \in 1 .. 7 : TTLCacheMetrics[i] \notin StandardSuffixes
  /\ \A i \in 1 .. 6 : FileScrapeMetrics[i] \notin StandardSuffixes
  /\ \A i \in 1 .. 4 : LastKnownGoodMetrics[i] \notin StandardSuffixes
<1> USE DEF TTLCacheMetrics, FileScrapeMetrics, LastKnownGoodMetrics
<1>1. /\ DOMAIN TTLCacheMetrics = 1 .. 7 /\ DOMAIN FileScrapeMetrics = 1 .. 6
      /\ DOMAIN LastKnownGoodMetrics = 1 .. 4
  OBVIOUS
<1>2. \A i, j \in 1 .. 7 : TTLCacheMetrics[i] = TTLCacheMetrics[j] => i = j
  OBVIOUS
<1>3. \A i, j \in 1 .. 6 : FileScrapeMetrics[i] = FileScrapeMetrics[j] => i = j
  OBVIOUS
<1>4. \A i, j \in 1 .. 4 : LastKnownGoodMetrics[i] = LastKnownGoodMetrics[j] => i = j
  OBVIOUS
<1>5. \A i \in 1 .. 7, j \in 1 .. 6 : TTLCacheMetrics[i] # FileScrapeMetrics[j]
  OBVIOUS
<1>6. \A i \in 1 .. 7, j \in 1 .. 4 : TTLCacheMetrics[i] # LastKnownGoodMetrics[j]
  OBVIOUS
<1>7. \A i \in 1 .. 6, j \in 1 .. 4 : FileScrapeMetrics[i] # LastKnownGoodMetrics[j]
  OBVIOUS
<1>8. \A i \in 1 .. 7 : TTLCacheMetrics[i] \notin StandardSuffixes
  BY DEF StandardSuffixes
<1>9. \A i \in 1 .. 6 : FileScrapeMetrics[i] \notin StandardSuffixes
  BY DEF StandardSuffixes
<1>10. \A i \in 1 .. 4 : LastKnownGoodMetrics[i] \notin StandardSuffixes
  BY DEF StandardSuffixes
<1> HIDE DEF TTLCacheMetrics, FileScrapeMetrics, LastKnownGoodMetrics
<1> QED
  BY <1>1, <1>2, <1>3, <1>4, <1>5, <1>6, <1>7, <1>8, <1>9, <1>10

LEMMA Joined ==
  ASSUME Joins, NEW s \in Texts, NEW t \in Texts
  PROVE  s \o t \in Texts
BY Zenon DEF Joins

Regrouped(s, t, u) == s \o (t \o u) = (s \o t) \o u

LEMMA Associated ==
  ASSUME Joins, NEW s \in Texts, NEW t \in Texts, NEW u \in Texts
  PROVE  Regrouped(s, t, u)
<1>1. \A x, y, z \in Texts : Regrouped(x, y, z)
  BY Zenon DEF Joins, Regrouped
<1> QED
  BY <1>1, Zenon

LEMMA Cancelled ==
  ASSUME Joins, NEW s \in Texts, NEW t \in Texts, NEW u \in Texts, s \o t = s \o u
  PROVE  t = u
BY DEF Joins

\* Two names that are put together are one name.
Same(s, a, t, b) == s \o a = t \o b

LEMMA Split ==
  ASSUME Splits, NEW s \in Texts, NEW t \in Texts, NEW a \in MetricSuffixes,
         NEW b \in MetricSuffixes, Same(s, a, t, b)
  PROVE  s = t /\ a = b
<1>1. \A x, y \in Texts, c, d \in MetricSuffixes : Same(x, c, y, d) => x = y /\ c = d
  BY Zenon DEF Splits, Same
<1> QED
  BY <1>1, Zenon

LEMMA RowsApart ==
  ASSUME Joins, Splits, NEW s \in Texts, NEW t \in Texts, NEW a \in MetricSuffixes,
         NEW b \in MetricSuffixes, ~(s = t /\ a = b), NEW k, NEW l, NEW f \in Texts, NEW n
  PROVE  Apart(Row(s, a, k), Row(t, b, l), f, n)
<1>1. a \in Texts /\ b \in Texts /\ "_" \in Texts
  BY DEF Texts
<1>2. ~Same(s, a, t, b)
  BY Split, Zenon
<1>3. f \o (("_" \o s) \o a) # f \o (("_" \o t) \o b)
  <2> DEFINE v == "_" \o s
             w == "_" \o t
  <2>1. v \in Texts /\ w \in Texts
    BY <1>1, Joined, Zenon
  <2>2. v = w => s = t
    BY <1>1, Cancelled
  <2> HIDE DEF v, w
  <2>3. ~Same(v, a, w, b)
    BY <2>1, <2>2, Split, Zenon
  <2>4. v \o a \in Texts /\ w \o b \in Texts
    BY <1>1, <2>1, Joined, Zenon
  <2>5. f \o (v \o a) # f \o (w \o b)
    BY <2>3, <2>4, Cancelled DEF Same
  <2> QED
    BY <2>5, Zenon DEF v, w
<1> QED
  BY <1>2, <1>3 DEF Apart, Row, MetricName, Same

\* Where the rows of tables of n rows are, when they are put one after the other.
TableOf(i, n) == ((i - 1) \div n) + 1
LineOf(i, n) == ((i - 1) % n) + 1

LEMMA Places ==
  ASSUME NEW n \in {4, 6}, NEW m \in Nat
  PROVE  /\ n * m \in Nat
         /\ \A i \in 1 .. n * m : TableOf(i, n) \in 1 .. m /\ LineOf(i, n) \in 1 .. n
         /\ \A i, j \in 1 .. n * m :
              TableOf(i, n) = TableOf(j, n) /\ LineOf(i, n) = LineOf(j, n) => i = j
<1> USE DEF TableOf, LineOf
<1>1. CASE n = 4
  <2>1. \A i \in 1 .. 4 * m : TableOf(i, 4) \in 1 .. m /\ LineOf(i, 4) \in 1 .. 4
    OBVIOUS
  <2>2. \A i, j \in 1 .. 4 * m : TableOf(i, 4) = TableOf(j, 4) /\ LineOf(i, 4) = LineOf(j, 4) => i = j
    OBVIOUS
  <2>3. 4 * m \in Nat
    OBVIOUS
  <2> HIDE DEF TableOf, LineOf
  <2> QED
    BY <1>1, <2>1, <2>2, <2>3
<1>2. CASE n = 6
  <2>1. \A i \in 1 .. 6 * m : TableOf(i, 6) \in 1 .. m /\ LineOf(i, 6) \in 1 .. 6
    OBVIOUS
  <2>2. \A i, j \in 1 .. 6 * m : TableOf(i, 6) = TableOf(j, 6) /\ LineOf(i, 6) = LineOf(j, 6) => i = j
    OBVIOUS
  <2>3. 6 * m \in Nat
    OBVIOUS
  <2> HIDE DEF TableOf, LineOf
  <2> QED
    BY <1>2, <2>1, <2>2, <2>3
<1> QED
  BY <1>1, <1>2

HasPlace(n, m, k, j) == \E i \in 1 .. n * m : TableOf(i, n) = k /\ LineOf(i, n) = j

LEMMA Placed ==
  ASSUME NEW n \in {4, 6}, NEW m \in Nat, NEW k \in 1 .. m, NEW j \in 1 .. n
  PROVE  HasPlace(n, m, k, j)
<1> USE DEF HasPlace
<1>1. CASE n = 4
  <2>1. LET i == (k - 1) * 4 + j IN i \in 1 .. 4 * m /\ TableOf(i, 4) = k /\ LineOf(i, 4) = j
    BY <1>1 DEF TableOf, LineOf
  <2> QED
    BY <1>1, <2>1
<1>2. CASE n = 6
  <2>1. LET i == (k - 1) * 6 + j IN i \in 1 .. 6 * m /\ TableOf(i, 6) = k /\ LineOf(i, 6) = j
    BY <1>2 DEF TableOf, LineOf
  <2> QED
    BY <1>2, <2>1
<1> QED
  BY <1>1, <1>2

\* The tables of sources, and their rows one after the other.
TablesOf(sources, suffixes, labels) ==
  [i \in DOMAIN sources |-> Table(sources[i], suffixes, labels)]
RowsOf(sources, suffixes, labels, n) ==
  [i \in 1 .. n * Len(sources) |->
    Row(sources[TableOf(i, n)], suffixes[LineOf(i, n)], labels)]

LEMMA SourceRows ==
  ASSUME NEW n \in {4, 6}, NEW suffixes, DOMAIN suffixes = 1 .. n,
         NEW sources \in Seq(Texts), NEW labels
  PROVE  Appended(TablesOf(sources, suffixes, labels), n) = RowsOf(sources, suffixes, labels, n)
<1> DEFINE tables == TablesOf(sources, suffixes, labels)
           t == Appended(tables, n)
<1>1. Len(sources) \in Nat /\ DOMAIN sources = 1 .. Len(sources)
  OBVIOUS
<1>2. tables \in Seq({Table(sources[i], suffixes, labels) : i \in DOMAIN sources}) /\ Len(tables) = Len(sources)
  BY <1>1 DEF TablesOf
<1>3. t = [i \in 1 .. n * Len(sources) |-> tables[TableOf(i, n)][LineOf(i, n)]]
  BY <1>2 DEF Appended, TableOf, LineOf
<1>4. ASSUME NEW i \in 1 .. n * Len(sources)
      PROVE  t[i] = Row(sources[TableOf(i, n)], suffixes[LineOf(i, n)], labels)
  <2>1. TableOf(i, n) \in DOMAIN sources /\ LineOf(i, n) \in 1 .. n
    BY <1>1, Places
  <2>2. tables[TableOf(i, n)] = Table(sources[TableOf(i, n)], suffixes, labels)
    BY <2>1 DEF TablesOf
  <2> QED
    BY <1>3, <2>1, <2>2 DEF Table, Row
<1> QED
  BY <1>3, <1>4 DEF RowsOf

\* What a feature says of the helpers it uses, well typed and with no source twice.
WellMade(h) ==
  /\ h.caches \in BOOLEAN /\ h.labels \in Nat /\ h.files \in Seq(Texts) /\ h.values \in Seq(Texts)
  /\ \A i, j \in DOMAIN h.files : i # j => h.files[i] # h.files[j]
  /\ \A i, j \in DOMAIN h.values : i # j => h.values[i] # h.values[j]

CacheRows(h) == IF h.caches THEN TTLCacheMetricSpecs(h.labels) ELSE <<>>

\* Every specification is the row of a source and one of the suffixes.
RowsWith(t, suffixes) == \A i \in DOMAIN t :
  \E s \in Texts, a \in suffixes, l \in Nat : t[i] = Row(s, a, l)

LEMMA RowTyped ==
  ASSUME Joins, NEW s \in Texts, NEW a \in MetricSuffixes, NEW l \in Nat
  PROVE  Row(s, a, l) \in MetricSpec
<1>1. a \in Texts /\ "_" \in Texts
  BY DEF Texts
<1>2. "_" \o s \in Texts /\ s \o a \in Texts
  BY <1>1, Joined, Zenon
<1>3. ("_" \o s) \o a \in Texts
  BY <1>1, <1>2, Joined, Zenon
<1> QED
  BY <1>2, <1>3 DEF Row, MetricSpec

LEMMA RowsWithApart ==
  ASSUME Joins, Splits, NEW f \in Texts, NEW n, NEW s, NEW t,
         NEW S \in SUBSET MetricSuffixes, NEW T \in SUBSET MetricSuffixes, S \cap T = {},
         RowsWith(s, S), RowsWith(t, T), NEW i \in DOMAIN s, NEW j \in DOMAIN t
  PROVE  Apart(s[i], t[j], f, n)
<1>1. PICK p \in Texts, a \in S, k \in Nat : s[i] = Row(p, a, k)
  BY Zenon DEF RowsWith
<1>2. PICK q \in Texts, b \in T, l \in Nat : t[j] = Row(q, b, l)
  BY Zenon DEF RowsWith
<1>3. a \in MetricSuffixes /\ b \in MetricSuffixes /\ a # b
  OBVIOUS
<1>4. Apart(Row(p, a, k), Row(q, b, l), f, n)
  BY <1>3, RowsApart, Zenon
<1> QED
  BY <1>1, <1>2, <1>4

\* A group of tables.
Group(t, suffixes, f, n) ==
  t \in Seq(MetricSpec) /\ AllApart(t, f, n) /\ RowsWith(t, suffixes)

SuffixesOf(suffixes, n) == {suffixes[i] : i \in 1 .. n}

LEMMA RowsOfApart ==
  ASSUME Joins, Splits, NEW f \in Texts, NEW ns, NEW n \in {4, 6}, NEW sources \in Seq(Texts),
         NEW suffixes, \A i \in 1 .. n : suffixes[i] \in MetricSuffixes, NEW labels \in Nat,
         \A i, j \in DOMAIN sources : i # j => sources[i] # sources[j],
         \A i, j \in 1 .. n : suffixes[i] = suffixes[j] => i = j
  PROVE  Group(RowsOf(sources, suffixes, labels, n), SuffixesOf(suffixes, n), f, ns)
<1> DEFINE t == RowsOf(sources, suffixes, labels, n)
           place == 1 .. n * Len(sources)
<1>1. Len(sources) \in Nat /\ DOMAIN sources = 1 .. Len(sources)
  OBVIOUS
<1>2. n * Len(sources) \in Nat
  BY <1>1
<1>3. DOMAIN t = place
  BY DEF RowsOf
<1>4. \A i \in place : /\ TableOf(i, n) \in DOMAIN sources /\ LineOf(i, n) \in 1 .. n
                      /\ t[i] = Row(sources[TableOf(i, n)], suffixes[LineOf(i, n)], labels)
  BY <1>1, Places DEF RowsOf
<1>5. \A i \in DOMAIN sources : sources[i] \in Texts
  OBVIOUS
<1>6. t \in Seq(MetricSpec)
  <2>1. \A i \in place : t[i] \in MetricSpec
    BY <1>4, <1>5, RowTyped
  <2> QED
    BY <1>2, <2>1 DEF RowsOf
<1>7. AllApart(t, f, ns)
  <2> SUFFICES ASSUME NEW i \in place, NEW j \in place, i # j PROVE Apart(t[i], t[j], f, ns)
    BY <1>3 DEF AllApart
  <2> DEFINE p == TableOf(i, n)
             q == TableOf(j, n)
             a == LineOf(i, n)
             b == LineOf(j, n)
  <2>1. ~(p = q /\ a = b)
    BY <1>1, Places
  <2>2. p \in DOMAIN sources /\ q \in DOMAIN sources /\ a \in 1 .. n /\ b \in 1 .. n
    BY <1>4
  <2>3. t[i] = Row(sources[p], suffixes[a], labels) /\ t[j] = Row(sources[q], suffixes[b], labels)
    BY <1>4
  <2> HIDE DEF p, q, a, b, t
  <2>4. sources[p] \in Texts /\ sources[q] \in Texts /\ suffixes[a] \in MetricSuffixes
        /\ suffixes[b] \in MetricSuffixes /\ ~(sources[p] = sources[q] /\ suffixes[a] = suffixes[b])
    BY <1>5, <2>1, <2>2
  <2>5. Apart(Row(sources[p], suffixes[a], labels), Row(sources[q], suffixes[b], labels), f, ns)
    BY <2>4, RowsApart, Zenon
  <2> QED
    BY <2>3, <2>5
<1>8. RowsWith(t, SuffixesOf(suffixes, n))
  BY <1>3, <1>4, <1>5 DEF RowsWith, SuffixesOf
<1> QED
  BY <1>6, <1>7, <1>8 DEF Group

LEMMA CacheRowsAre ==
  ASSUME NEW h, WellMade(h)
  PROVE  CacheRows(h) = [i \in 1 .. (IF h.caches THEN 7 ELSE 0) |->
                           Row("cache", TTLCacheMetrics[i], 1 + h.labels)]
<1>1. CASE h.caches
  BY <1>1, SuffixLists DEF CacheRows, TTLCacheMetricSpecs, Table, Row
<1>2. CASE ~h.caches
  BY <1>2 DEF CacheRows
<1> QED
  BY <1>1, <1>2 DEF WellMade

LEMMA FileRowsAre ==
  ASSUME NEW h, WellMade(h)
  PROVE  /\ FileSpecs(h) = RowsOf(h.files, FileScrapeMetrics, h.labels, 6)
         /\ 6 * Len(h.files) \in Nat
<1>1. FileSpecs(h) = Appended(TablesOf(h.files, FileScrapeMetrics, h.labels), 6)
  BY Zenon DEF FileSpecs, FileScrapeMetricSpecs, TablesOf
<1>2. h.files \in Seq(Texts)
  BY DEF WellMade
<1>3. DOMAIN FileScrapeMetrics = 1 .. 6 /\ 6 \in {4, 6}
  BY SuffixLists
<1>4. 6 * Len(h.files) \in Nat
  BY <1>2
<1> QED
  BY <1>1, <1>2, <1>3, <1>4, SourceRows, Zenon

LEMMA ValueRowsAre ==
  ASSUME NEW h, WellMade(h)
  PROVE  /\ ValueSpecs(h) = RowsOf(h.values, LastKnownGoodMetrics, h.labels, 4)
         /\ 4 * Len(h.values) \in Nat
<1>1. ValueSpecs(h) = Appended(TablesOf(h.values, LastKnownGoodMetrics, h.labels), 4)
  BY Zenon DEF ValueSpecs, LastKnownGoodMetricSpecs, TablesOf
<1>2. h.values \in Seq(Texts)
  BY DEF WellMade
<1>3. DOMAIN LastKnownGoodMetrics = 1 .. 4 /\ 4 \in {4, 6}
  BY SuffixLists
<1>4. 4 * Len(h.values) \in Nat
  BY <1>2
<1> QED
  BY <1>1, <1>2, <1>3, <1>4, SourceRows, Zenon

CacheSuffixes == SuffixesOf(TTLCacheMetrics, 7)
FileSuffixes == SuffixesOf(FileScrapeMetrics, 6)
ValueSuffixes == SuffixesOf(LastKnownGoodMetrics, 4)
TableSuffixes == (CacheSuffixes \cup FileSuffixes) \cup ValueSuffixes

LEMMA SuffixSets ==
  /\ CacheSuffixes \subseteq MetricSuffixes /\ FileSuffixes \subseteq MetricSuffixes
  /\ ValueSuffixes \subseteq MetricSuffixes /\ TableSuffixes \subseteq MetricSuffixes
  /\ StandardSuffixes \subseteq MetricSuffixes /\ TableSuffixes \cap StandardSuffixes = {}
  /\ CacheSuffixes \cap FileSuffixes = {} /\ (CacheSuffixes \cup FileSuffixes) \cap ValueSuffixes = {}
BY SuffixLists
DEF CacheSuffixes, FileSuffixes, ValueSuffixes, TableSuffixes, MetricSuffixes, SuffixesOf

LEMMA Grouped ==
  ASSUME Joins, Splits, NEW f \in Texts, NEW n, NEW s, NEW t,
         NEW S \in SUBSET MetricSuffixes, NEW T \in SUBSET MetricSuffixes, S \cap T = {},
         Group(s, S, f, n), Group(t, T, f, n)
  PROVE  Group(s \o t, S \cup T, f, n)
<1>1. s \in Seq(MetricSpec) /\ t \in Seq(MetricSpec)
  BY DEF Group
<1>2. s \o t \in Seq(MetricSpec) /\ AllApart(s \o t, f, n)
  <2>1. AllApart(s, f, n) /\ AllApart(t, f, n) /\ RowsWith(s, S) /\ RowsWith(t, T)
    BY DEF Group
  <2>2. \A i \in DOMAIN s, j \in DOMAIN t : Apart(s[i], t[j], f, n)
    BY <2>1, RowsWithApart, Zenon
  <2> QED
    BY <1>1, <2>1, <2>2, ApartAppended, Zenon
<1>3. RowsWith(s \o t, S \cup T)
  <2>1. /\ Len(s) \in Nat /\ Len(t) \in Nat /\ DOMAIN s = 1 .. Len(s) /\ DOMAIN t = 1 .. Len(t)
        /\ DOMAIN (s \o t) = 1 .. Len(s) + Len(t)
        /\ \A i \in 1 .. Len(s) + Len(t) :
             (s \o t)[i] = IF i <= Len(s) THEN s[i] ELSE t[i - Len(s)]
    BY <1>1
  <2>2. RowsWith(s, S) /\ RowsWith(t, T)
    BY DEF Group
  <2> SUFFICES ASSUME NEW i \in 1 .. Len(s) + Len(t)
               PROVE  \E p \in Texts, a \in S \cup T, l \in Nat : (s \o t)[i] = Row(p, a, l)
    BY <2>1 DEF RowsWith
  <2>3. CASE i <= Len(s)
    <3>1. i \in DOMAIN s /\ (s \o t)[i] = s[i]
      BY <2>1, <2>3
    <3>2. \E p \in Texts, a \in S, l \in Nat : s[i] = Row(p, a, l)
      BY <2>2, <3>1, Zenon DEF RowsWith
    <3> QED
      BY <3>1, <3>2
  <2>4. CASE i > Len(s)
    <3>1. i - Len(s) \in DOMAIN t /\ (s \o t)[i] = t[i - Len(s)]
      BY <2>1, <2>4
    <3>2. \E p \in Texts, a \in T, l \in Nat : t[i - Len(s)] = Row(p, a, l)
      BY <2>2, <3>1, Zenon DEF RowsWith
    <3> QED
      BY <3>1, <3>2
  <2> QED
    BY <2>1, <2>3, <2>4
<1> QED
  BY <1>2, <1>3 DEF Group

LEMMA CacheGroup ==
  ASSUME Joins, Splits, NEW h, WellMade(h), NEW f \in Texts, NEW n
  PROVE  Group(CacheRows(h), CacheSuffixes, f, n)
<1> DEFINE t == CacheRows(h)
           k == IF h.caches THEN 7 ELSE 0
           l == 1 + h.labels
<1>1. t = [i \in 1 .. k |-> Row("cache", TTLCacheMetrics[i], l)]
  BY CacheRowsAre
<1>2. k \in Nat /\ l \in Nat /\ 1 .. k \subseteq 1 .. 7 /\ "cache" \in Texts
  <2>1. h.labels \in Nat /\ k \in {0, 7}
    BY DEF WellMade
  <2>2. "cache" \in Texts
    BY DEF Texts
  <2> HIDE DEF k
  <2> QED
    BY <2>1, <2>2
<1> HIDE DEF t, k, l
<1>3. \A i \in 1 .. k : TTLCacheMetrics[i] \in MetricSuffixes /\ TTLCacheMetrics[i] \in CacheSuffixes
  BY <1>2 DEF CacheSuffixes, MetricSuffixes, SuffixesOf
<1>4. t \in Seq(MetricSpec)
  <2>1. \A i \in 1 .. k : Row("cache", TTLCacheMetrics[i], l) \in MetricSpec
    BY <1>2, <1>3, RowTyped, Zenon
  <2> QED
    BY <1>1, <1>2, <2>1
<1>5. AllApart(t, f, n)
  <2> SUFFICES ASSUME NEW i \in 1 .. k, NEW j \in 1 .. k, i # j PROVE Apart(t[i], t[j], f, n)
    BY <1>1 DEF AllApart
  <2>1. TTLCacheMetrics[i] # TTLCacheMetrics[j]
    BY <1>2, SuffixLists
  <2>2. Apart(Row("cache", TTLCacheMetrics[i], l), Row("cache", TTLCacheMetrics[j], l), f, n)
    BY <1>2, <1>3, <2>1, RowsApart, Zenon
  <2> QED
    BY <1>1, <2>2
<1>6. RowsWith(t, CacheSuffixes)
  BY <1>1, <1>2, <1>3 DEF RowsWith
<1> QED
  BY <1>4, <1>5, <1>6 DEF Group, t

LEMMA FileGroup ==
  ASSUME Joins, Splits, NEW h, WellMade(h), NEW f \in Texts, NEW n
  PROVE  Group(FileSpecs(h), FileSuffixes, f, n)
<1>1. h.files \in Seq(Texts) /\ h.labels \in Nat /\ 6 \in {4, 6}
      /\ \A i, j \in DOMAIN h.files : i # j => h.files[i] # h.files[j]
  BY DEF WellMade
<1>2. /\ \A i \in 1 .. 6 : FileScrapeMetrics[i] \in MetricSuffixes
      /\ \A i, j \in 1 .. 6 : FileScrapeMetrics[i] = FileScrapeMetrics[j] => i = j
  BY SuffixLists DEF MetricSuffixes
<1>3. Group(RowsOf(h.files, FileScrapeMetrics, h.labels, 6), SuffixesOf(FileScrapeMetrics, 6), f, n)
  BY <1>1, <1>2, RowsOfApart, Zenon
<1> QED
  BY <1>3, FileRowsAre, Zenon DEF FileSuffixes

LEMMA ValueGroup ==
  ASSUME Joins, Splits, NEW h, WellMade(h), NEW f \in Texts, NEW n
  PROVE  Group(ValueSpecs(h), ValueSuffixes, f, n)
<1>1. h.values \in Seq(Texts) /\ h.labels \in Nat /\ 4 \in {4, 6}
      /\ \A i, j \in DOMAIN h.values : i # j => h.values[i] # h.values[j]
  BY DEF WellMade
<1>2. /\ \A i \in 1 .. 4 : LastKnownGoodMetrics[i] \in MetricSuffixes
      /\ \A i, j \in 1 .. 4 : LastKnownGoodMetrics[i] = LastKnownGoodMetrics[j] => i = j
  BY SuffixLists DEF MetricSuffixes
<1>3. Group(RowsOf(h.values, LastKnownGoodMetrics, h.labels, 4), SuffixesOf(LastKnownGoodMetrics, 4), f, n)
  BY <1>1, <1>2, RowsOfApart, Zenon
<1> QED
  BY <1>3, ValueRowsAre, Zenon DEF ValueSuffixes

\* The tables of a feature.
LEMMA TablesGroup ==
  ASSUME Joins, Splits, NEW h, WellMade(h), NEW f \in Texts, NEW n
  PROVE  Group(HelperTables(h), TableSuffixes, f, n)
<1>1. Group(CacheRows(h), CacheSuffixes, f, n)
  BY CacheGroup, Zenon
<1>2. Group(FileSpecs(h), FileSuffixes, f, n)
  BY FileGroup, Zenon
<1>3. Group(ValueSpecs(h), ValueSuffixes, f, n)
  BY ValueGroup, Zenon
<1>4. Group(CacheRows(h) \o FileSpecs(h), CacheSuffixes \cup FileSuffixes, f, n)
  BY <1>1, <1>2, SuffixSets, Grouped, Zenon
<1>5. Group((CacheRows(h) \o FileSpecs(h)) \o ValueSpecs(h), TableSuffixes, f, n)
  <2>1. CacheSuffixes \cup FileSuffixes \in SUBSET MetricSuffixes
    BY SuffixSets
  <2> QED
    BY <1>3, <1>4, <2>1, SuffixSets, Grouped, Zenon DEF TableSuffixes
<1> QED
  BY <1>5 DEF HelperTables, CacheRows

\* None is empty, or the identifier that the suite looks for in vain.
NoneMissing == \A s \in Texts, a \in MetricSuffixes : s \o a \notin {"", "missing_metric"}

\* The names of flags, with the name of the feature in front.
Dotted ==
  "." \o "refresh-interval" = ".refresh-interval" /\ "." \o "config-file" = ".config-file"

StringFacts == Joins /\ Fills /\ Splits /\ NoneMissing /\ Dotted

\* A feature whose own specifications and sources keep the contract.
Distinct(seq) == \A i, j \in DOMAIN seq : i # j => seq[i] # seq[j]
Fit(h, f, n) ==
  /\ WellMade(h) /\ h.own \in Seq(MetricSpec) /\ h.own # <<>>
  /\ \A i \in DOMAIN h.own : h.own[i].id # "" /\ h.own[i].scope = "feature"
  /\ \A i, j \in DOMAIN h.own : i # j => h.own[i].id # h.own[j].id
  /\ \A i, j \in DOMAIN h.own : i # j => h.own[i].name # h.own[j].name
  /\ Unclaimed(h, f, n)
  /\ f \in Texts /\ n \in Texts /\ f # ""

StandardNames(n) == {n \o a : a \in StandardSuffixes}

LEMMA StandardNamesAre ==
  ASSUME NEW n
  PROVE  LET info == StandardMetricInfo(n)
         IN StandardNames(n) \subseteq {info[k] : k \in DOMAIN info}
<1> DEFINE info == StandardMetricInfo(n)
<1>1. DOMAIN info = {"BuildInfo", "CollectionDurationSeconds", "LastCollectionSuccess",
        "LastCollectionTimestampSeconds", "LastSuccessfulCollectionTimestampSeconds"}
  BY DEF StandardMetricInfo
<1>2. /\ info["BuildInfo"] = n \o "_build_info"
      /\ info["CollectionDurationSeconds"] = n \o "_collection_duration_seconds"
      /\ info["LastCollectionSuccess"] = n \o "_last_collection_success"
      /\ info["LastCollectionTimestampSeconds"] = n \o "_last_collection_timestamp_seconds"
      /\ info["LastSuccessfulCollectionTimestampSeconds"] =
           n \o "_last_successful_collection_timestamp_seconds"
  BY DEF StandardMetricInfo
<1> HIDE DEF info
<1>3. StandardNames(n) \subseteq {info[k] : k \in DOMAIN info}
  BY <1>1, <1>2, Zenon DEF StandardNames, StandardSuffixes
<1> QED
  BY <1>3 DEF info

LEMMA OwnApart ==
  ASSUME Joins, NEW h, NEW f, NEW n, Fit(h, f, n)
  PROVE  /\ AllApart(h.own, f, n)
         /\ \A i \in DOMAIN h.own : MetricName(h.own[i], f, n) = f \o h.own[i].name
                                    /\ h.own[i].name \in Texts
<1>1. /\ h.own \in Seq(MetricSpec) /\ f \in Texts
      /\ \A i \in DOMAIN h.own : h.own[i].scope = "feature"
      /\ \A i, j \in DOMAIN h.own : i # j => h.own[i].id # h.own[j].id
      /\ \A i, j \in DOMAIN h.own : i # j => h.own[i].name # h.own[j].name
  BY Zenon DEF Fit
<1>2. \A i \in DOMAIN h.own : h.own[i].name \in Texts
  <2>1. \A i \in DOMAIN h.own : h.own[i] \in MetricSpec
    BY <1>1
  <2> QED
    BY <2>1 DEF MetricSpec
<1>3. \A i \in DOMAIN h.own : MetricName(h.own[i], f, n) = f \o h.own[i].name
  BY <1>1 DEF MetricName
<1>4. ASSUME NEW i \in DOMAIN h.own, NEW j \in DOMAIN h.own, i # j
      PROVE  Apart(h.own[i], h.own[j], f, n)
  <2>1. f \o h.own[i].name # f \o h.own[j].name
    BY <1>1, <1>2, <1>4, Cancelled, Zenon
  <2> QED
    BY <1>1, <1>3, <1>4, <2>1, Zenon DEF Apart
<1> QED
  BY <1>2, <1>3, <1>4 DEF AllApart

\* A name that no other specification has, the framework has not, and that is none of "".
Named(p, f, n) ==
  /\ p.id \notin {"", "missing_metric"}
  /\ MetricName(p, f, n) # "" /\ MetricName(p, f, n) \notin StandardNames(n)

LEMMA RowNamed ==
  ASSUME StringFacts, NEW s \in Texts, NEW a \in TableSuffixes, NEW l, NEW f \in Texts, f # "",
         NEW n \in Texts
  PROVE  Named(Row(s, a, l), f, n)
<1>1. a \in MetricSuffixes /\ a \in Texts /\ "_" \in Texts /\ "" \in Texts
  BY SuffixSets DEF Texts
<1>2. Joins /\ Fills /\ Splits /\ NoneMissing
  BY DEF StringFacts
<1>3. s \o a \notin {"", "missing_metric"}
  BY <1>1, <1>2, Zenon DEF NoneMissing
<1>4. MetricName(Row(s, a, l), f, n) = f \o (("_" \o s) \o a)
  BY DEF MetricName, Row
<1> DEFINE v == "_" \o s
<1>5. v \in Texts /\ v \o a \in Texts
  <2>1. v \in Texts
    BY <1>1, <1>2, Joined, Zenon
  <2> QED
    BY <1>1, <1>2, <2>1, Joined, Zenon
<1> HIDE DEF v
<1>6. f \o (v \o a) # ""
  BY <1>2, <1>5, Zenon DEF Fills
<1>7. ASSUME NEW c \in StandardSuffixes PROVE f \o (v \o a) # n \o c
  <2> DEFINE w == f \o v
  <2>1. a # c /\ c \in MetricSuffixes
    BY SuffixSets
  <2>2. w \in Texts
    BY <1>2, <1>5, Joined, Zenon
  <2>3. Regrouped(f, v, a)
    BY <1>1, <1>2, <1>5, Associated, Zenon
  <2> HIDE DEF w
  <2>4. ~Same(w, a, n, c)
    BY <1>1, <1>2, <2>1, <2>2, Split, Zenon
  <2> QED
    BY <2>3, <2>4, Zenon DEF Same, Regrouped, w
<1>8. f \o (v \o a) \notin StandardNames(n)
  BY <1>7, Zenon DEF StandardNames
<1>9. Row(s, a, l).id = s \o a
  BY DEF Row
<1> QED
  BY <1>3, <1>4, <1>6, <1>8, <1>9, Zenon DEF Named, v

\* The identifiers and names of some specifications.
IDs(specs) == {specs[i].id : i \in DOMAIN specs}
Names(specs, f, n) == {MetricName(specs[i], f, n) : i \in DOMAIN specs}

\* All specifications of a feature that keeps the contract: none shares an identifier or a
\* name with another one, nor with the framework.
LEMMA SpecsApart ==
  ASSUME StringFacts, NEW h, NEW f, NEW n, Fit(h, f, n)
  PROVE  /\ HelperSpecs(h) \in Seq(MetricSpec) /\ AllApart(HelperSpecs(h), f, n)
         /\ \A i \in DOMAIN HelperSpecs(h) : Named(HelperSpecs(h)[i], f, n)
<1> DEFINE t == HelperTables(h)
           o == h.own
<1>1. Joins /\ Fills /\ Splits /\ NoneMissing
  BY DEF StringFacts
<1>2. /\ WellMade(h) /\ o \in Seq(MetricSpec) /\ f \in Texts /\ n \in Texts /\ f # ""
      /\ \A i \in DOMAIN o : o[i].id # "" /\ o[i].scope = "feature"
      /\ Unclaimed(h, f, n)
  BY Zenon DEF Fit
<1>3. t \in Seq(MetricSpec) /\ AllApart(t, f, n) /\ RowsWith(t, TableSuffixes)
  BY <1>1, <1>2, TablesGroup, Zenon DEF Group
<1>4. AllApart(o, f, n) /\ \A i \in DOMAIN o : MetricName(o[i], f, n) = f \o o[i].name
                                               /\ o[i].name \in Texts
  BY <1>1, OwnApart, Zenon
<1>5. /\ IDs(o) \cap ({"missing_metric"} \cup IDs(t)) = {}
      /\ Names(o, f, n) \cap (StandardNames(n) \cup Names(t, f, n)) = {}
  <2>1. LET info == StandardMetricInfo(n)
        IN /\ IDs(o) \cap ({"missing_metric"} \cup IDs(t)) = {}
           /\ Names(o, f, n) \cap ({info[k] : k \in DOMAIN info} \cup Names(t, f, n)) = {}
    BY <1>2, Zenon DEF Unclaimed, IDs, Names
  <2> HIDE DEF t, o
  <2> QED
    BY <2>1, StandardNamesAre
<1> HIDE DEF t, o
<1>6. \A i \in DOMAIN t : Named(t[i], f, n)
  <2> TAKE i \in DOMAIN t
  <2>1. PICK s \in Texts, a \in TableSuffixes, l \in Nat : t[i] = Row(s, a, l)
    BY <1>3, Zenon DEF RowsWith
  <2>2. Named(Row(s, a, l), f, n)
    BY <1>2, RowNamed, Zenon
  <2> QED
    BY <2>1, <2>2
<1>7. \A i \in DOMAIN o : Named(o[i], f, n)
  <2> TAKE i \in DOMAIN o
  <2>1. o[i].id \in IDs(o) /\ MetricName(o[i], f, n) \in Names(o, f, n)
    BY Zenon DEF IDs, Names
  <2>2. o[i].id # "missing_metric" /\ MetricName(o[i], f, n) \notin StandardNames(n)
    BY <1>5, <2>1, Zenon
  <2>3. MetricName(o[i], f, n) # ""
    BY <1>1, <1>2, <1>4, Zenon DEF Fills
  <2> QED
    BY <1>2, <2>2, <2>3, Zenon DEF Named
<1>8. \A i \in DOMAIN o, j \in DOMAIN t : Apart(o[i], t[j], f, n)
  <2> TAKE i \in DOMAIN o, j \in DOMAIN t
  <2>1. /\ o[i].id \in IDs(o) /\ MetricName(o[i], f, n) \in Names(o, f, n)
        /\ t[j].id \in IDs(t) /\ MetricName(t[j], f, n) \in Names(t, f, n)
    BY Zenon DEF IDs, Names
  <2> QED
    BY <1>5, <2>1 DEF Apart
<1>9. o \o t \in Seq(MetricSpec) /\ AllApart(o \o t, f, n)
  BY <1>2, <1>3, <1>4, <1>8, ApartAppended, Zenon
<1>10. \A i \in DOMAIN (o \o t) : Named((o \o t)[i], f, n)
  <2>1. /\ Len(o) \in Nat /\ Len(t) \in Nat /\ DOMAIN o = 1 .. Len(o) /\ DOMAIN t = 1 .. Len(t)
        /\ DOMAIN (o \o t) = 1 .. Len(o) + Len(t)
        /\ \A i \in 1 .. Len(o) + Len(t) :
             (o \o t)[i] = IF i <= Len(o) THEN o[i] ELSE t[i - Len(o)]
    <3>1. o \in Seq(MetricSpec) /\ t \in Seq(MetricSpec)
      BY <1>2, <1>3, Zenon
    <3> QED
      BY <3>1
  <2> QED
    BY <1>6, <1>7, <2>1
<1>11. HelperSpecs(h) = o \o t
  BY DEF HelperSpecs, o, t
<1> QED
  BY <1>9, <1>10, <1>11

-----------------------------------------------------------------------------
(* Registration and scrapes *)

\* Checks that all hold give no error.
LEMMA AllFine ==
  ASSUME NEW errors, \A i \in DOMAIN errors : errors[i] = ""
  PROVE  FirstError(errors) = ""
<1>1. TrimSpace("") = ""
  BY Trimmed
<1>2. {i \in DOMAIN errors : TrimSpace(errors[i]) # ""} = {}
  BY <1>1, Zenon
<1> QED
  BY <1>2, Zenon DEF FirstError, firstNonEmpty

LEMMA TwoFine ==
  ASSUME NEW a, NEW b, a = "", b = ""
  PROVE  FirstError(<<a, b>>) = ""
<1> DEFINE t == <<a, b>>
<1>1. DOMAIN t = 1 .. 2 /\ t[1] = a /\ t[2] = b
  BY ONLY TRUE
<1>2. \A i \in 1 .. 2 : i = 1 \/ i = 2
  BY ONLY TRUE
<1> HIDE DEF t
<1>3. \A i \in DOMAIN t : t[i] = ""
  BY <1>1, <1>2, Zenon
<1> QED
  BY <1>3, AllFine, Zenon DEF t

LEMMA ThreeFine ==
  ASSUME NEW a, NEW b, NEW c, a = "", b = "", c = ""
  PROVE  FirstError(<<a, b, c>>) = ""
<1> DEFINE t == <<a, b, c>>
<1>1. DOMAIN t = 1 .. 3 /\ t[1] = a /\ t[2] = b /\ t[3] = c
  BY ONLY TRUE
<1>2. \A i \in 1 .. 3 : i = 1 \/ i = 2 \/ i = 3
  BY ONLY TRUE
<1> HIDE DEF t
<1>3. \A i \in DOMAIN t : t[i] = ""
  BY <1>1, <1>2, Zenon
<1> QED
  BY <1>3, AllFine, Zenon DEF t

\* The tables of a feature load, for any names that keep the contract.
LEMMA Loads ==
  ASSUME StringFacts, NEW h, NEW f, NEW n, Fit(h, f, n)
  PROVE  LoadPanic(h, f, n) = ""
<1> DEFINE specs == HelperSpecs(h)
           names == [i \in DOMAIN specs |-> MetricName(specs[i], f, n)]
           ids == [i \in DOMAIN specs |-> specs[i].id]
           v == validateFeatureMetricSpecs(specs)
           a == Check("" \notin ToSet(names), "empty name")
           b == Check(~Repeats(names), "duplicate name")
<1>1. AllApart(specs, f, n) /\ \A i \in DOMAIN specs : Named(specs[i], f, n)
  BY SpecsApart, Zenon
<1>2. LoadPanic(h, f, n) = FirstError(<<v, a, b>>)
  BY Zenon DEF LoadPanic, LoadFeatureMetricDescriptors
<1> HIDE DEF specs
<1>3. ~Repeats(ids) /\ ~Repeats(names)
  BY <1>1, Zenon DEF AllApart, Apart, Repeats
<1>4. \A i \in DOMAIN specs : specs[i].id # "" /\ names[i] # ""
  BY <1>1, Zenon DEF Named
<1>5. v = ""
  <2> DEFINE x == Check(\A i \in DOMAIN specs : specs[i].id # "", "empty ID")
             y == Check(~Repeats(ids), "duplicate ID")
  <2>1. x = "" /\ y = ""
    BY <1>3, <1>4, Zenon DEF Check
  <2>2. v = FirstError(<<x, y>>)
    BY Zenon DEF validateFeatureMetricSpecs
  <2> HIDE DEF x, y, v
  <2> QED
    BY <2>1, <2>2, TwoFine, Zenon
<1>6. "" \notin ToSet(names)
  BY <1>4, Zenon DEF ToSet
<1>7. a = "" /\ b = ""
  BY <1>3, <1>6, Zenon DEF Check
<1> HIDE DEF v, a, b
<1> QED
  BY <1>2, <1>5, <1>7, ThreeFine, Zenon

LEMMA SetAppended ==
  ASSUME NEW S, NEW s \in Seq(S), NEW t \in Seq(S)
  PROVE  ToSet(s \o t) = ToSet(s) \cup ToSet(t)
<1>1. /\ Len(s) \in Nat /\ Len(t) \in Nat /\ DOMAIN s = 1 .. Len(s) /\ DOMAIN t = 1 .. Len(t)
      /\ DOMAIN (s \o t) = 1 .. Len(s) + Len(t)
      /\ \A i \in 1 .. Len(s) + Len(t) :
           (s \o t)[i] = IF i <= Len(s) THEN s[i] ELSE t[i - Len(s)]
  OBVIOUS
<1>2. \A i \in 1 .. Len(s) + Len(t) : (s \o t)[i] \in ToSet(s) \cup ToSet(t)
  BY <1>1 DEF ToSet
<1>3. \A i \in 1 .. Len(s) : s[i] \in ToSet(s \o t)
  <2>1. \A i \in 1 .. Len(s) : i \in 1 .. Len(s) + Len(t) /\ (s \o t)[i] = s[i]
    BY <1>1
  <2> QED
    BY <1>1, <2>1 DEF ToSet
<1>4. \A i \in 1 .. Len(t) : t[i] \in ToSet(s \o t)
  <2>1. \A i \in 1 .. Len(t) : Len(s) + i \in 1 .. Len(s) + Len(t) /\ (s \o t)[Len(s) + i] = t[i]
    BY <1>1
  <2> QED
    BY <1>1, <2>1 DEF ToSet
<1> QED
  BY <1>1, <1>2, <1>3, <1>4, Zenon DEF ToSet

\* Every row of every source is in its group.
LEMMA RowsOfAll ==
  ASSUME NEW n \in {4, 6}, NEW sources \in Seq(Texts), NEW suffixes, DOMAIN suffixes = 1 .. n,
         NEW labels, NEW s \in ToSet(sources), NEW a \in ToSet(suffixes)
  PROVE  Row(s, a, labels) \in ToSet(RowsOf(sources, suffixes, labels, n))
<1>1. PICK k \in DOMAIN sources : s = sources[k]
  BY Zenon DEF ToSet
<1>2. PICK j \in 1 .. n : a = suffixes[j]
  BY Zenon DEF ToSet
<1>3. Len(sources) \in Nat /\ DOMAIN sources = 1 .. Len(sources)
  OBVIOUS
<1>4. PICK i \in 1 .. n * Len(sources) : TableOf(i, n) = k /\ LineOf(i, n) = j
  <2> DEFINE m == Len(sources)
  <2>1. m \in Nat /\ k \in 1 .. m
    BY <1>3
  <2> HIDE DEF m
  <2>2. HasPlace(n, m, k, j)
    BY <2>1, Placed, Zenon
  <2> QED
    BY <2>2 DEF m, HasPlace
<1>5. RowsOf(sources, suffixes, labels, n)[i] = Row(s, a, labels)
  BY <1>1, <1>2, <1>4 DEF RowsOf
<1>6. i \in DOMAIN RowsOf(sources, suffixes, labels, n)
  BY <1>4 DEF RowsOf
<1> QED
  BY <1>5, <1>6, Zenon DEF ToSet

\* A sample that some specification is of.
SampleOf(specs, sample) == \E spec \in ToSet(specs) : sample = <<spec.id, spec.labels>>

LEMMA Sampled ==
  ASSUME StringFacts, NEW h, NEW f, NEW n, Fit(h, f, n)
  PROVE  \A sample \in HelperSamples(h) : SampleOf(HelperSpecs(h), sample)
<1> DEFINE c == CacheRows(h)
           p == FileSpecs(h)
           v == ValueSpecs(h)
           all == ToSet(HelperSpecs(h))
<1>1. WellMade(h) /\ h.own \in Seq(MetricSpec) /\ Joins /\ Splits /\ f \in Texts
  BY Zenon DEF Fit, StringFacts
<1>2. all = ToSet(h.own) \cup ((ToSet(c) \cup ToSet(p)) \cup ToSet(v))
  <2>1. /\ c \in Seq(MetricSpec)
        /\ p \in Seq(MetricSpec) /\ v \in Seq(MetricSpec) /\ c \o p \in Seq(MetricSpec)
        /\ (c \o p) \o v \in Seq(MetricSpec)
    <3>1. c \in Seq(MetricSpec)
      BY <1>1, CacheGroup, Zenon DEF Group
    <3>2. p \in Seq(MetricSpec)
      BY <1>1, FileGroup, Zenon DEF Group
    <3>3. v \in Seq(MetricSpec)
      BY <1>1, ValueGroup, Zenon DEF Group
    <3> HIDE DEF c, p, v
    <3> QED
      BY ONLY <3>1, <3>2, <3>3
  <2>2. HelperSpecs(h) = h.own \o ((c \o p) \o v)
    BY DEF HelperSpecs, HelperTables, CacheRows
  <2> HIDE DEF c, p, v
  <2> DEFINE q == c \o p
             r == q \o v
  <2>4. ToSet(q) = ToSet(c) \cup ToSet(p)
    BY <2>1, SetAppended
  <2>5. q \in Seq(MetricSpec) /\ r \in Seq(MetricSpec)
    BY <2>1
  <2> HIDE DEF q
  <2>6. ToSet(r) = ToSet(q) \cup ToSet(v)
    BY <2>1, <2>5, SetAppended
  <2> HIDE DEF r
  <2>7. ToSet(h.own \o r) = ToSet(h.own) \cup ToSet(r)
    BY <1>1, <2>5, SetAppended
  <2>8. HelperSpecs(h) = h.own \o r
    BY <2>2 DEF r, q
  <2> QED
    BY <2>4, <2>6, <2>7, <2>8
<1> SUFFICES ASSUME NEW sample \in HelperSamples(h)
             PROVE  \E spec \in all : sample = <<spec.id, spec.labels>>
  BY Zenon DEF SampleOf
<1> HIDE DEF c, p, v, all
<1>3. ASSUME NEW s, NEW a, NEW l, Row(s, a, l) \in all, sample = <<s \o a, l>>
      PROVE  \E spec \in all : sample = <<spec.id, spec.labels>>
  BY <1>3 DEF Row
<1>4. CASE sample \in {<<spec.id, spec.labels>> : spec \in ToSet(h.own)}
  BY <1>2, <1>4
<1>5. CASE h.caches /\ sample \in CollectTTLCacheMetrics(h.labels)
  <2>1. PICK a \in ToSet(TTLCacheMetrics) : sample = <<"cache" \o a, 1 + h.labels>>
    BY <1>5, Zenon DEF CollectTTLCacheMetrics
  <2>2. Row("cache", a, 1 + h.labels) \in ToSet(c)
    <3>1. c = [i \in 1 .. 7 |-> Row("cache", TTLCacheMetrics[i], 1 + h.labels)]
      BY <1>1, <1>5, CacheRowsAre DEF c
    <3>2. PICK i \in 1 .. 7 : a = TTLCacheMetrics[i]
      BY SuffixLists, Zenon DEF ToSet
    <3>3. c[i] = Row("cache", a, 1 + h.labels) /\ i \in DOMAIN c
      BY <3>1, <3>2
    <3> QED
      BY <3>3, Zenon DEF ToSet
  <2> QED
    BY <1>2, <1>3, <2>1, <2>2
<1>6. CASE sample \in UNION {CollectFileScrapeMetrics(source, h.labels) : source \in ToSet(h.files)}
  <2>1. PICK s \in ToSet(h.files), a \in ToSet(FileScrapeMetrics) : sample = <<s \o a, h.labels>>
    BY <1>6 DEF CollectFileScrapeMetrics
  <2>2. h.files \in Seq(Texts) /\ 6 \in {4, 6} /\ DOMAIN FileScrapeMetrics = 1 .. 6
    BY <1>1, SuffixLists DEF WellMade
  <2>3. Row(s, a, h.labels) \in ToSet(p)
    BY <1>1, <2>2, RowsOfAll, FileRowsAre, Zenon DEF p
  <2> QED
    BY <1>2, <1>3, <2>1, <2>3
<1>7. CASE sample \in UNION {CollectLastKnownGoodMetrics(source, h.labels) : source \in ToSet(h.values)}
  <2>1. PICK s \in ToSet(h.values), a \in ToSet(LastKnownGoodMetrics) : sample = <<s \o a, h.labels>>
    BY <1>7 DEF CollectLastKnownGoodMetrics
  <2>2. h.values \in Seq(Texts) /\ 4 \in {4, 6} /\ DOMAIN LastKnownGoodMetrics = 1 .. 4
    BY <1>1, SuffixLists DEF WellMade
  <2>3. Row(s, a, h.labels) \in ToSet(v)
    BY <1>1, <2>2, RowsOfAll, ValueRowsAre, Zenon DEF v
  <2> QED
    BY <1>2, <1>3, <2>1, <2>3
<1>8. \/ sample \in {<<spec.id, spec.labels>> : spec \in ToSet(h.own)}
      \/ h.caches /\ sample \in CollectTTLCacheMetrics(h.labels)
      \/ sample \in UNION {CollectFileScrapeMetrics(source, h.labels) : source \in ToSet(h.files)}
      \/ sample \in UNION {CollectLastKnownGoodMetrics(source, h.labels) : source \in ToSet(h.values)}
  <2> DEFINE a == {<<spec.id, spec.labels>> : spec \in ToSet(h.own)}
             b == IF h.caches THEN CollectTTLCacheMetrics(h.labels) ELSE {}
             d == UNION {CollectFileScrapeMetrics(source, h.labels) : source \in ToSet(h.files)}
             e == UNION {CollectLastKnownGoodMetrics(source, h.labels) : source \in ToSet(h.values)}
  <2>1. HelperSamples(h) = a \cup b \cup d \cup e
    BY Zenon DEF HelperSamples
  <2>2. sample \in b => h.caches /\ sample \in CollectTTLCacheMetrics(h.labels)
    BY Zenon
  <2> HIDE DEF a, b, d, e
  <2>3. sample \in a \/ sample \in b \/ sample \in d \/ sample \in e
    BY <2>1
  <2> QED
    BY <2>2, <2>3, Zenon DEF a, d, e
<1> QED
  BY <1>4, <1>5, <1>6, <1>7, <1>8

\* No sample of a scrape panics: each has a specification, found by its identifier, and as
\* many label values as that one has labels.
LEMMA Scrapes ==
  ASSUME StringFacts, NEW h, NEW f, NEW n, Fit(h, f, n)
  PROVE  ScrapePanic(h, f, n) = ""
<1> DEFINE specs == HelperSpecs(h)
           all == ToSet(specs)
           d == LoadFeatureMetricDescriptors(f, n, specs)
           samples == HelperSamples(h)
           a == Check(\A s \in samples : s[1] \in DOMAIN d.labels, "unknown ID")
           b == Check(\A s \in samples : d.labels[s[1]] = s[2], "wrong labels")
<1>1. ScrapePanic(h, f, n) = FirstError(<<a, b>>)
  BY Zenon DEF ScrapePanic, CollectPanic
<1>2. AllApart(specs, f, n)
  BY SpecsApart, Zenon
<1>3. \A s \in samples : \E spec \in all : s = <<spec.id, spec.labels>>
  BY Sampled, Zenon DEF SampleOf
<1> HIDE DEF specs, samples
<1>4. d.labels = [id \in {spec.id : spec \in all} |-> (CHOOSE spec \in all : spec.id = id).labels]
  BY Zenon DEF LoadFeatureMetricDescriptors
<1> HIDE DEF d
<1>5. \A p, q \in all : p.id = q.id => p = q
  <2> TAKE p \in all, q \in all
  <2>1. PICK i \in DOMAIN specs, j \in DOMAIN specs : p = specs[i] /\ q = specs[j]
    BY Zenon DEF ToSet
  <2> QED
    BY <1>2, <2>1, Zenon DEF AllApart, Apart
<1> HIDE DEF all
<1>6. \A spec \in all : spec.id \in DOMAIN d.labels /\ d.labels[spec.id] = spec.labels
  <2> TAKE spec \in all
  <2> DEFINE c == CHOOSE other \in all : other.id = spec.id
  <2>1. c \in all /\ c.id = spec.id
    BY Zenon
  <2>2. c = spec
    BY <1>5, <2>1, Zenon
  <2>3. d.labels[spec.id] = c.labels
    BY ONLY <1>4, spec \in all
  <2>4. spec.id \in DOMAIN d.labels
    BY ONLY <1>4, spec \in all
  <2> QED
    BY <2>2, <2>3, <2>4
<1>7. \A s \in samples : s[1] \in DOMAIN d.labels /\ d.labels[s[1]] = s[2]
  <2> TAKE s \in samples
  <2>1. PICK spec \in all : s = <<spec.id, spec.labels>>
    BY <1>3, Zenon
  <2>2. s[1] = spec.id /\ s[2] = spec.labels
    BY ONLY <2>1
  <2> QED
    BY <1>6, <2>2, Zenon
<1>8. a = "" /\ b = ""
  BY <1>7, Zenon DEF Check
<1> HIDE DEF a, b
<1> QED
  BY <1>1, <1>8, TwoFine, Zenon

\* Helper tables can be combined: whatever caches, files and values a feature reports, and
\* whatever it is called, its tables load and its scrapes find every specification, as long
\* as its own metrics keep clear of them.
THEOREM TablesCombine ==
  ASSUME StringFacts
  PROVE  \A h, f, n : Fit(h, f, n) => LoadPanic(h, f, n) = "" /\ ScrapePanic(h, f, n) = ""
BY Loads, Scrapes, Zenon

\* Nor does the making of the tables panic.
LEMMA TablesMade ==
  ASSUME NEW h, \A i \in DOMAIN (h.files \o h.values) : TrimSpace((h.files \o h.values)[i]) # ""
  PROVE  TablePanic(h) = ""
<1> DEFINE t == h.files \o h.values
           e == [i \in DOMAIN t |-> SourcePanic(t[i])]
<1>1. \A i \in DOMAIN t : e[i] = ""
  BY Zenon DEF SourcePanic, Check
<1>2. \A i \in DOMAIN e : e[i] = ""
  BY <1>1, Zenon
<1> HIDE DEF e
<1>3. FirstError(e) = ""
  BY <1>2, AllFine, Zenon
<1> QED
  BY <1>3, Zenon DEF TablePanic, e

\* What the items of s and then those of t are.
Follows(u, s, t) ==
  /\ DOMAIN u = 1 .. Len(s) + Len(t)
  /\ \A i \in 1 .. Len(s) + Len(t) : u[i] = IF i <= Len(s) THEN s[i] ELSE t[i - Len(s)]

LEMMA Concatenated ==
  ASSUME NEW S, NEW T, NEW s \in Seq(S), NEW t \in Seq(T)
  PROVE  Follows(s \o t, s, t)
BY DEF Follows

\* The names that a collector describes: each one once, and not the one that is taken.
LEMMA Described ==
  ASSUME StringFacts, NEW h, NEW f, NEW n, Fit(h, f, n)
  PROVE  LET names == LoadFeatureMetricDescriptors(f, n, HelperSpecs(h)).names
             info == StandardMetricInfo(n)
             all == names \o <<info.LastCollectionSuccess, info.LastCollectionTimestampSeconds,
                               info.LastSuccessfulCollectionTimestampSeconds,
                               info.CollectionDurationSeconds>>
         IN ~Repeats(all) /\ ToSet(all) \cap {info.BuildInfo} = {}
<1> DEFINE specs == HelperSpecs(h)
           names == LoadFeatureMetricDescriptors(f, n, specs).names
           info == StandardMetricInfo(n)
           rest == <<info.LastCollectionSuccess, info.LastCollectionTimestampSeconds,
                     info.LastSuccessfulCollectionTimestampSeconds,
                     info.CollectionDurationSeconds>>
           built == info.BuildInfo
<1>1. /\ specs \in Seq(MetricSpec) /\ AllApart(specs, f, n)
      /\ \A i \in DOMAIN specs : Named(specs[i], f, n)
  BY SpecsApart, Zenon
<1>2. names = [i \in DOMAIN specs |-> MetricName(specs[i], f, n)]
  BY Zenon DEF LoadFeatureMetricDescriptors
<1>3. /\ built = n \o "_build_info"
      /\ info.CollectionDurationSeconds = n \o "_collection_duration_seconds"
      /\ info.LastCollectionSuccess = n \o "_last_collection_success"
      /\ info.LastCollectionTimestampSeconds = n \o "_last_collection_timestamp_seconds"
      /\ info.LastSuccessfulCollectionTimestampSeconds =
           n \o "_last_successful_collection_timestamp_seconds"
  BY Zenon DEF StandardMetricInfo
<1> HIDE DEF names, specs, info
<1>4. \A i \in DOMAIN names : names[i] \notin StandardNames(n)
  BY <1>1, <1>2, Zenon DEF Named
<1>5. \A i, j \in DOMAIN names : i # j => names[i] # names[j]
  BY <1>1, <1>2, Zenon DEF AllApart, Apart
<1>6. Len(specs) \in Nat /\ DOMAIN names = 1 .. Len(specs)
      /\ names \in Seq({MetricName(specs[i], f, n) : i \in DOMAIN specs}) /\ Len(names) = Len(specs)
  <2>1. specs \in Seq(MetricSpec)
    BY <1>1
  <2> QED
    BY ONLY <1>2, <2>1
<1>7. \A a, b \in StandardSuffixes : n \o a = n \o b => a = b
  <2>1. n \in Texts /\ Joins /\ StandardSuffixes \subseteq Texts
    BY SuffixSets, Zenon DEF Fit, StringFacts, Texts
  <2> QED
    BY <2>1, Cancelled, Zenon
<1>8. /\ DOMAIN rest = 1 .. 4
      /\ \A i \in 1 .. 4 : rest[i] \in StandardNames(n) /\ rest[i] # built
      /\ \A i, j \in 1 .. 4 : i # j => rest[i] # rest[j]
      /\ built \in StandardNames(n)
  <2>1. /\ rest[1] = n \o "_last_collection_success"
        /\ rest[2] = n \o "_last_collection_timestamp_seconds"
        /\ rest[3] = n \o "_last_successful_collection_timestamp_seconds"
        /\ rest[4] = n \o "_collection_duration_seconds" /\ DOMAIN rest = 1 .. 4
    BY ONLY <1>3
  <2> HIDE DEF rest
  <2>2. /\ built # rest[1] /\ built # rest[2] /\ built # rest[3] /\ built # rest[4]
        /\ rest[1] # rest[2] /\ rest[1] # rest[3] /\ rest[1] # rest[4] /\ rest[2] # rest[3]
        /\ rest[2] # rest[4] /\ rest[3] # rest[4]
    BY <1>3, <1>7, <2>1, Zenon DEF StandardSuffixes
  <2>3. /\ rest[1] \in StandardNames(n) /\ rest[2] \in StandardNames(n)
        /\ rest[3] \in StandardNames(n) /\ rest[4] \in StandardNames(n)
        /\ built \in StandardNames(n)
    BY <1>3, <2>1, Zenon DEF StandardNames, StandardSuffixes
  <2>4. \A i \in 1 .. 4 : i = 1 \/ i = 2 \/ i = 3 \/ i = 4
    BY ONLY TRUE
  <2> QED
    BY <2>1, <2>2, <2>3, <2>4, Zenon
<1> HIDE DEF rest, built
<1> DEFINE all == names \o rest
<1>9. /\ DOMAIN all = 1 .. Len(specs) + 4
      /\ \A i \in 1 .. Len(specs) + 4 :
           all[i] = IF i <= Len(specs) THEN names[i] ELSE rest[i - Len(specs)]
  <2>1. rest \in Seq(StandardNames(n)) /\ Len(rest) = 4
    BY <1>8 DEF rest
  <2> DEFINE S == {MetricName(specs[i], f, n) : i \in DOMAIN specs}
             k == Len(specs)
  <2>2. names \in Seq(S) /\ Len(names) = k
    BY <1>6
  <2> HIDE DEF S, k
  <2>3. Follows(all, names, rest)
    BY <2>1, <2>2, Concatenated, Zenon
  <2> HIDE DEF all
  <2> QED
    BY <2>1, <2>2, <2>3 DEF Follows, k
<1> HIDE DEF all
<1>10. Len(specs) \in Nat /\ DOMAIN names = 1 .. Len(specs)
  BY <1>6
<1>11. \A i, j \in DOMAIN all : i # j => all[i] # all[j]
  <2> SUFFICES ASSUME NEW i \in 1 .. Len(specs) + 4, NEW j \in 1 .. Len(specs) + 4, i < j
               PROVE  all[i] # all[j]
    BY <1>10, <1>9
  <2>1. CASE j <= Len(specs)
    BY <1>5, <1>10, <1>9, <2>1
  <2>2. CASE i <= Len(specs) /\ j > Len(specs)
    <3>1. i \in DOMAIN names /\ all[i] = names[i]
      BY <1>10, <1>9, <2>2
    <3>2. j - Len(specs) \in 1 .. 4 /\ all[j] = rest[j - Len(specs)]
      BY <1>10, <1>9, <2>2
    <3> QED
      BY <1>4, <1>8, <3>1, <3>2, Zenon
  <2>3. CASE i > Len(specs)
    <3>1. /\ i - Len(specs) \in 1 .. 4 /\ j - Len(specs) \in 1 .. 4
          /\ i - Len(specs) # j - Len(specs)
          /\ all[i] = rest[i - Len(specs)] /\ all[j] = rest[j - Len(specs)]
      BY <1>10, <1>9, <2>3
    <3> QED
      BY <1>8, <3>1, Zenon
  <2> QED
    BY <1>10, <2>1, <2>2, <2>3
<1>12. \A i \in DOMAIN all : all[i] # built
  <2> TAKE i \in DOMAIN all
  <2>1. CASE i <= Len(specs)
    BY <1>4, <1>10, <1>8, <1>9, <2>1
  <2>2. CASE i > Len(specs)
    <3>1. i - Len(specs) \in 1 .. 4 /\ all[i] = rest[i - Len(specs)]
      BY <1>10, <1>9, <2>2
    <3> QED
      BY <1>8, <3>1, Zenon
  <2> QED
    BY <1>10, <1>9, <2>1, <2>2
<1>13. ~Repeats(all) /\ ToSet(all) \cap {built} = {}
  BY <1>11, <1>12, Zenon DEF Repeats, ToSet
<1> QED
  BY <1>13, Zenon DEF all, names, rest, built, info, specs

-----------------------------------------------------------------------------
(* An exporter that keeps the contract *)

LEMMA MetadataTyped ==
  ASSUME NEW b \in Builds
  PROVE  /\ b.project = [name |-> b.project.name, description |-> b.project.description,
                         feature |-> b.project.feature, namespace |-> b.project.namespace,
                         listen |-> b.project.listen]
         /\ b.project.feature \in Texts /\ b.project.namespace \in Texts
         /\ b.project.name \in Texts
<1>1. b.project \in [name : STRING, description : STRING, feature : STRING, namespace : STRING,
                     listen : STRING]
  BY TestsAssumption, Zenon
<1>2. STRING \subseteq Texts
  BY DEF Texts
<1> QED
  BY <1>1, <1>2

\* What the contract says of the metadata.
LEMMA MetadataGiven ==
  ASSUME NEW b, Contracted(b)
  PROVE  LET m == b.project
         IN /\ TrimSpace(m.name) # "" /\ TrimSpace(m.description) # "" /\ TrimSpace(m.feature) # ""
            /\ m.namespace \in Identifiers /\ m.namespace # m.name /\ m.listen \in Addresses
            /\ m = b.tested /\ m = b.linked /\ b.binary = "prebuilt" /\ b.stamp = SmokeVersion
            /\ b.base = m.name
<1>1. /\ "" \notin {TrimSpace(b.project.name), TrimSpace(b.project.description),
                    TrimSpace(b.project.feature)}
      /\ b.project.namespace \in Identifiers \ {b.project.name} /\ b.project.listen \in Addresses
      /\ b.project = b.tested /\ b.project = b.linked
      /\ b.binary = "prebuilt" /\ b.stamp = SmokeVersion /\ b.base = b.project.name
  BY Zenon DEF Contracted
<1> QED
  BY <1>1, Zenon

\* ... of the hooks ...
LEMMA HooksGiven ==
  ASSUME NEW b, Contracted(b)
  PROVE  LET x == b.x
         IN /\ x.configFile /\ x.resolve /\ x.valid
            /\ \A i \in DOMAIN x.flags : x.flags[i].bind
            /\ Distinct(<<"refresh-interval", "config-file">>
                          \o [i \in DOMAIN x.flags |-> x.flags[i].name])
            /\ x.newSnapshotter = "unset" /\ x.factory = "good"
            /\ x.defaultSnapshotter \in {"nil", "good"} /\ x.defaultEngine = "good"
            /\ x.metrics = "unset" /\ x.example # "" /\ ~SmokePanics(x)
BY Zenon DEF Contracted, Distinct

\* ... and of the helpers and the machine.
LEMMA HelpersGiven ==
  ASSUME NEW b, Contracted(b)
  PROVE  LET h == b.x.helpers
         IN /\ h.own # <<>> /\ \A i \in DOMAIN h.own : h.own[i].id # "" /\ h.own[i].scope = "feature"
            /\ Distinct([i \in DOMAIN h.own |-> h.own[i].id])
            /\ Distinct([i \in DOMAIN h.own |-> h.own[i].name])
            /\ Distinct(h.files) /\ Distinct(h.values)
            /\ \A i \in DOMAIN (h.files \o h.values) : TrimSpace((h.files \o h.values)[i]) # ""
            /\ Unclaimed(h, b.project.feature, b.project.namespace)
            /\ Unclaimed(h, "exporter", "exporter")
            /\ DefaultFeatureConfigFile(b.project.feature) \notin DOMAIN b.disk
            /\ DefaultFeatureConfigFile("") \notin DOMAIN b.disk
<1>1. {DefaultFeatureConfigFile(b.project.feature), DefaultFeatureConfigFile("")} \cap DOMAIN b.disk = {}
  BY Zenon DEF Contracted
<1>2. DefaultFeatureConfigFile(b.project.feature) \notin DOMAIN b.disk
      /\ DefaultFeatureConfigFile("") \notin DOMAIN b.disk
  BY <1>1, Zenon
<1> QED
  BY <1>2, Zenon DEF Contracted, Distinct

\* The features that the tests make: that of the project, and the nameless one.
LEMMA Fitting ==
  ASSUME NEW b \in Builds, Contracted(b)
  PROVE  /\ Fit(b.x.helpers, b.project.feature, b.project.namespace)
         /\ Fit(b.x.helpers, "exporter", "exporter")
<1> DEFINE h == b.x.helpers
           OwnSpec == [id : STRING, scope : {"feature", "namespace", "absolute"}, name : STRING,
                       labels : Nat]
<1>1. h \in [own : Seq(OwnSpec), caches : BOOLEAN, files : Seq(STRING), values : Seq(STRING),
             labels : Nat]
  BY TestsAssumption, Zenon
<1>2. STRING \subseteq Texts /\ "exporter" \in Texts
  BY DEF Texts
<1>3. /\ h.own \in Seq(OwnSpec) /\ h.caches \in BOOLEAN /\ h.files \in Seq(STRING)
      /\ h.values \in Seq(STRING) /\ h.labels \in Nat
  BY <1>1
<1> HIDE DEF h
<1>4. OwnSpec \subseteq MetricSpec
  BY <1>2 DEF MetricSpec
<1>5. \A S, T : S \subseteq T => Seq(S) \subseteq Seq(T)
  OBVIOUS
<1> HIDE DEF OwnSpec
<1>6. h.own \in Seq(MetricSpec) /\ h.files \in Seq(Texts) /\ h.values \in Seq(Texts)
  BY <1>2, <1>3, <1>4, <1>5, Zenon
<1>7. /\ h.own # <<>> /\ \A i \in DOMAIN h.own : h.own[i].id # "" /\ h.own[i].scope = "feature"
      /\ Distinct([i \in DOMAIN h.own |-> h.own[i].id])
      /\ Distinct([i \in DOMAIN h.own |-> h.own[i].name])
      /\ Distinct(h.files) /\ Distinct(h.values)
      /\ Unclaimed(h, b.project.feature, b.project.namespace)
      /\ Unclaimed(h, "exporter", "exporter")
  BY HelpersGiven, Zenon DEF h
<1>8. WellMade(h)
  BY <1>3, <1>6, <1>7, Zenon DEF WellMade, Distinct
<1>9. /\ \A i, j \in DOMAIN h.own : i # j => h.own[i].id # h.own[j].id
      /\ \A i, j \in DOMAIN h.own : i # j => h.own[i].name # h.own[j].name
  BY <1>7, Zenon DEF Distinct
<1>10. b.project.feature \in Texts /\ b.project.namespace \in Texts /\ b.project.feature # ""
       /\ "exporter" # ""
  BY <1>2, MetadataTyped, MetadataGiven, Trimmed, Zenon
<1>11. Fit(h, b.project.feature, b.project.namespace)
  BY <1>6, <1>7, <1>8, <1>9, <1>10, Zenon DEF Fit
<1>12. Fit(h, "exporter", "exporter")
  BY <1>2, <1>6, <1>7, <1>8, <1>9, <1>10, Zenon DEF Fit
<1> QED
  BY <1>11, <1>12 DEF h

\* A collector that describes and collects what it should, in namespace n.
Works(c, n, snapshotter) ==
  /\ c.panic = "" /\ c.snapshotter = snapshotter /\ c.namespace = n
  /\ ~Repeats(c.names) /\ ToSet(c.names) \cap {StandardMetricInfo(n).BuildInfo} = {}
  /\ ToSet(c.names) # {}

LEMMA CollectorMade ==
  ASSUME StringFacts, NEW o, NEW x, NEW f, NEW n, NEW s, x.metrics = "unset",
         f = Or(o.name, "exporter"), n = Or(o.namespace, "exporter"), Fit(x.helpers, f, n),
         s = (IF o.snapshotter = "nil" THEN o.defaultSnapshotter ELSE o.snapshotter), s # "nil"
  PROVE  Works(NewSnapshotMetricsCollector(o, x), n, s)
<1> DEFINE r == ResolveSnapshotCollectorOptions(o)
           h == x.helpers
           info == StandardMetricInfo(n)
           names == LoadFeatureMetricDescriptors(f, n, HelperSpecs(h)).names
           all == names \o <<info.LastCollectionSuccess, info.LastCollectionTimestampSeconds,
                             info.LastSuccessfulCollectionTimestampSeconds,
                             info.CollectionDurationSeconds>>
           c == NewSnapshotMetricsCollector(o, x)
<1>1. r.name = f /\ r.namespace = n /\ r.snapshotter = s
  BY Zenon DEF ResolveSnapshotCollectorOptions
<1> HIDE DEF r
<1>2. snapshotExtensionMetricsFunc(x) = "specs"
  <2>1. h.own \in Seq(MetricSpec) /\ h.own # <<>>
    BY Zenon DEF Fit
  <2>2. HelperTables(h) \in Seq(MetricSpec)
    BY TablesGroup, Zenon DEF Fit, StringFacts, Group
  <2>3. HelperSpecs(h) # <<>>
    <3> DEFINE t == HelperTables(h)
               p == h.own
    <3>1. p \in Seq(MetricSpec) /\ p # <<>> /\ t \in Seq(MetricSpec)
      BY <2>1, <2>2
    <3> HIDE DEF t, p
    <3>2. p \o t # <<>>
      BY ONLY <3>1
    <3> QED
      BY <3>2 DEF HelperSpecs, t, p
  <2> HIDE DEF h
  <2> QED
    BY <2>3, Zenon DEF snapshotExtensionMetricsFunc, h
<1>3. /\ c.panic = LoadPanic(h, f, n) /\ c.namespace = n /\ c.names = all
      /\ c.snapshotter = IF s = "nil" THEN "bad" ELSE s
  BY <1>1, <1>2, Zenon DEF NewSnapshotMetricsCollector, r
<1> HIDE DEF c
<1>4. LoadPanic(h, f, n) = ""
  BY Loads, Zenon
<1>5. ~Repeats(all) /\ ToSet(all) \cap {info.BuildInfo} = {}
  BY Described, Zenon
<1>6. ToSet(all) # {}
  <2> DEFINE specs == HelperSpecs(h)
             rest == <<info.LastCollectionSuccess, info.LastCollectionTimestampSeconds,
                       info.LastSuccessfulCollectionTimestampSeconds,
                       info.CollectionDurationSeconds>>
  <2>1. specs \in Seq(MetricSpec)
    BY SpecsApart, Zenon
  <2>2. names = [i \in DOMAIN specs |-> MetricName(specs[i], f, n)]
    BY Zenon DEF LoadFeatureMetricDescriptors
  <2> HIDE DEF names, specs
  <2>3. names \in Seq({MetricName(specs[i], f, n) : i \in DOMAIN specs})
    BY ONLY <2>1, <2>2
  <2>4. rest \in Seq({rest[i] : i \in 1 .. 4}) /\ Len(rest) = 4
    BY ONLY TRUE
  <2> HIDE DEF rest
  <2>5. Follows(names \o rest, names, rest)
    BY <2>3, <2>4, Concatenated, Zenon
  <2>6. 1 \in DOMAIN (names \o rest)
    <3>1. Len(names) \in Nat
      BY ONLY <2>3
    <3> DEFINE k == Len(names)
               u == names \o rest
    <3>2. DOMAIN u = 1 .. k + 4
      BY <2>4, <2>5, Zenon DEF Follows
    <3> HIDE DEF k, u
    <3>3. 1 \in DOMAIN u
      BY ONLY <3>1, <3>2 DEF k
    <3> QED
      BY <3>3 DEF u
  <2> QED
    BY <2>6, Zenon DEF ToSet, rest
<1> HIDE DEF all, info
<1> QED
  BY <1>3, <1>4, <1>5, <1>6, Zenon DEF Works, info, c

\* The features of the tests, with what the flags have set.
LEMMA FeatureMade ==
  ASSUME NEW b, NEW name
  PROVE  LET F == NewNamedFeature(b, name)
         IN F.name = Or(name, "exporter") /\ F.x = b.x /\ F.file = ""
BY Zenon DEF NewNamedFeature, NewFeature, Options

\* What parsing makes of a feature F.
Parsed(P, F, args) ==
  /\ P.name = F.name /\ P.x = F.x /\ P.defaultInterval = F.defaultInterval
  /\ P.refreshInterval = IF F.name \o ".refresh-interval" \in DOMAIN args
                         THEN args[F.name \o ".refresh-interval"] ELSE F.refreshInterval
  /\ P.file = IF F.name \o ".config-file" \in DOMAIN args
              THEN args[F.name \o ".config-file"] ELSE F.file

LEMMA FeatureParsed ==
  ASSUME NEW b, NEW name, NEW args
  PROVE  Parsed(ParseFlags(NewNamedFeature(b, name), args), NewNamedFeature(b, name), args)
<1> DEFINE F == NewNamedFeature(b, name)
           P == ParseFlags(F, args)
           r == IF F.name \o ".refresh-interval" \in DOMAIN args
                THEN args[F.name \o ".refresh-interval"] ELSE F.refreshInterval
           p == IF F.name \o ".config-file" \in DOMAIN args
                THEN args[F.name \o ".config-file"] ELSE F.file
<1>1. \E u, v, w, y, z, s : F = [name |-> u, defaultInterval |-> v, specInterval |-> w,
                                 refreshInterval |-> y, file |-> z, x |-> s]
  BY Zenon DEF NewNamedFeature, NewFeature
<1>2. P = [F EXCEPT !.refreshInterval = r, !.file = p]
  BY Zenon DEF ParseFlags
<1> HIDE DEF F, P, r, p
<1>3. /\ P.name = F.name /\ P.x = F.x /\ P.defaultInterval = F.defaultInterval
      /\ P.refreshInterval = r /\ P.file = p
  BY ONLY <1>1, <1>2
<1> QED
  BY <1>3, Zenon DEF Parsed, F, P, r, p

\* The collector of a feature, whatever its flags.
LEMMA FeatureCollects ==
  ASSUME StringFacts, NEW b, Contracted(b), NEW F, F.x = b.x, NEW n, F.name # "", n # "",
         Fit(b.x.helpers, F.name, n)
  PROVE  Works(Collector(F, n), n, "good")
<1> DEFINE o == CollectorOptions(F, n)
<1>1. /\ b.x.newSnapshotter = "unset" /\ b.x.factory = "good" /\ b.x.metrics = "unset"
  BY HooksGiven, Zenon
<1>2. o.name = F.name /\ o.namespace = n /\ o.snapshotter = "good"
  BY <1>1, Zenon DEF CollectorOptions, snapshotExtensionNewSnapshotter
<1>3. Collector(F, n) = NewSnapshotMetricsCollector(o, b.x)
  BY Zenon DEF Collector
<1> HIDE DEF o
<1>4. F.name = Or(o.name, "exporter") /\ n = Or(o.namespace, "exporter")
  BY <1>2, Zenon DEF Or
<1>5. "good" = (IF o.snapshotter = "nil" THEN o.defaultSnapshotter ELSE o.snapshotter)
      /\ "good" # "nil"
  BY <1>2, Zenon
<1> QED
  BY <1>1, <1>3, <1>4, <1>5, CollectorMade, Zenon

LEMMA Prefixed ==
  ASSUME Joins, NEW p \in Texts, NEW names \in Seq(Texts)
  PROVE  [i \in DOMAIN names |-> p \o names[i]] \in Seq(Texts)
<1> DEFINE rest == [i \in DOMAIN names |-> p \o names[i]]
           k == Len(names)
           g(i) == p \o names[i]
<1>1. k \in Nat /\ DOMAIN names = 1 .. k /\ \A i \in 1 .. k : names[i] \in Texts
  OBVIOUS
<1>2. \A i \in 1 .. k : g(i) \in Texts
  BY <1>1, Joined, Zenon
<1>3. rest = [i \in 1 .. k |-> g(i)]
  BY <1>1
<1> HIDE DEF g, rest, k
<1>4. rest \in Seq(Texts)
  BY ONLY <1>1, <1>2, <1>3
<1> QED
  BY <1>4 DEF rest

\* The names of two lists, the first of two names, do not repeat in front of a prefix.
LEMMA FlagsApart ==
  ASSUME Joins, NEW p \in Texts, NEW u \in Texts, NEW v \in Texts, NEW names \in Seq(Texts),
         Distinct(<<u, v>> \o names)
  PROVE  ~Repeats(<<p \o u>> \o <<p \o v>> \o [i \in DOMAIN names |-> p \o names[i]])
<1> DEFINE local == <<u, v>> \o names
           k == Len(names)
           rest == [i \in DOMAIN names |-> p \o names[i]]
           full == <<p \o u>> \o <<p \o v>> \o rest
<1>1. k \in Nat /\ DOMAIN names = 1 .. k /\ \A i \in 1 .. k : names[i] \in Texts
  OBVIOUS
<1>2. /\ DOMAIN local = 1 .. 2 + k /\ local[1] = u /\ local[2] = v
      /\ \A i \in 1 .. 2 + k : i > 2 => local[i] = names[i - 2]
  OBVIOUS
<1>3. rest \in Seq(Texts) /\ Len(rest) = k /\ DOMAIN rest = 1 .. k
      /\ \A i \in 1 .. k : rest[i] = p \o names[i]
  <2>1. rest \in Seq(Texts)
    BY Prefixed, Zenon
  <2>2. DOMAIN rest = 1 .. k /\ \A i \in 1 .. k : rest[i] = p \o names[i]
    BY <1>1
  <2> HIDE DEF rest
  <2> QED
    BY <1>1, <2>1, <2>2
<1> HIDE DEF local, rest, k
<1>4. /\ DOMAIN full = 1 .. 2 + k /\ full[1] = p \o u /\ full[2] = p \o v
      /\ \A i \in 1 .. 2 + k : i > 2 => full[i] = rest[i - 2]
  <2> DEFINE x == p \o u
             y == p \o v
  <2>1. full = <<x>> \o <<y>> \o rest
    BY Zenon
  <2> HIDE DEF x, y, full
  <2>2. /\ DOMAIN full = 1 .. 2 + k /\ full[1] = x /\ full[2] = y
        /\ \A i \in 1 .. 2 + k : i > 2 => full[i] = rest[i - 2]
    BY ONLY <1>1, <1>3, <2>1
  <2> QED
    BY <2>2, Zenon DEF x, y
<1> HIDE DEF full
<1>5. \A i \in 1 .. 2 + k : local[i] \in Texts /\ full[i] = p \o local[i]
  <2> TAKE i \in 1 .. 2 + k
  <2>1. CASE i = 1 \/ i = 2
    BY <1>2, <1>4, <2>1
  <2>2. CASE i > 2
    <3>1. i - 2 \in 1 .. k
      BY ONLY <1>1, <2>2
    <3> QED
      BY <1>1, <1>2, <1>3, <1>4, <2>2, <3>1
  <2> QED
    BY ONLY <1>1, <2>1, <2>2
<1>6. \A i, j \in 1 .. 2 + k : i # j => local[i] # local[j]
  BY <1>2 DEF Distinct, local
<1>7. \A i, j \in 1 .. 2 + k : i # j => full[i] # full[j]
  <2> TAKE i \in 1 .. 2 + k, j \in 1 .. 2 + k
  <2>1. local[i] \in Texts /\ local[j] \in Texts
        /\ full[i] = p \o local[i] /\ full[j] = p \o local[j]
    BY <1>5
  <2>2. p \o local[i] = p \o local[j] => local[i] = local[j]
    BY <2>1, Cancelled
  <2> QED
    BY <1>6, <2>1, <2>2, Zenon
<1>8. ~Repeats(full)
  BY <1>4, <1>7, Zenon DEF Repeats
<1> QED
  BY <1>8 DEF full, rest

\* A flag of the framework, with the name of a feature in front.
LEMMA FlagName ==
  ASSUME StringFacts, NEW n \in Texts
  PROVE  /\ n \o "." \in Texts
         /\ (n \o ".") \o "refresh-interval" = n \o ".refresh-interval"
         /\ (n \o ".") \o "config-file" = n \o ".config-file"
<1>1. "." \in Texts /\ "refresh-interval" \in Texts /\ "config-file" \in Texts
  BY DEF Texts
<1>2. Joins /\ Dotted
  BY DEF StringFacts
<1>3. n \o "." \in Texts
  BY <1>1, <1>2, Joined, Zenon
<1>4. n \o ("." \o "refresh-interval") = (n \o ".") \o "refresh-interval"
      /\ n \o ("." \o "config-file") = (n \o ".") \o "config-file"
  <2> DEFINE d == "."
             r == "refresh-interval"
             c == "config-file"
  <2>1. d \in Texts /\ r \in Texts /\ c \in Texts
    BY <1>1
  <2> HIDE DEF d, r, c
  <2>2. Regrouped(n, d, r) /\ Regrouped(n, d, c)
    BY <1>2, <2>1, Associated, Zenon
  <2> QED
    BY <2>2, Zenon DEF d, r, c, Regrouped
<1>5. "." \o "refresh-interval" = ".refresh-interval" /\ "." \o "config-file" = ".config-file"
  BY <1>2 DEF Dotted
<1> QED
  BY <1>3, <1>4, <1>5

LEMMA Items ==
  ASSUME NEW S, NEW s \in Seq(S)
  PROVE  \A i \in DOMAIN s : s[i] \in S
OBVIOUS

LEMMA FlagTyped ==
  ASSUME NEW x \in [name : STRING, bind : BOOLEAN]
  PROVE  x.name \in STRING
OBVIOUS

\* The flags of a feature register, ...
LEMMA FlagsRegistered ==
  ASSUME StringFacts, NEW b \in Builds, Contracted(b), NEW F, F.x = b.x, F.name \in Texts
  PROVE  /\ RegisterFlags(F) = ""
         /\ {F.name \o ".refresh-interval", F.name \o ".config-file"} \subseteq ToSet(FlagNames(F))
<1> DEFINE flags == b.x.flags
           names == [i \in DOMAIN flags |-> flags[i].name]
           p == F.name \o "."
           u == F.name \o ".refresh-interval"
           v == F.name \o ".config-file"
           rest == [i \in DOMAIN flags |-> p \o flags[i].name]
<1>1. /\ b.x.configFile /\ \A i \in DOMAIN flags : flags[i].bind
      /\ Distinct(<<"refresh-interval", "config-file">> \o names)
  BY HooksGiven, Zenon
<1>2. flags \in Seq([name : STRING, bind : BOOLEAN])
  BY TestsAssumption, Zenon
<1>3. names \in Seq(Texts) /\ DOMAIN names = DOMAIN flags
      /\ \A i \in DOMAIN flags : names[i] = flags[i].name
  <2>1. \A i \in DOMAIN flags : flags[i].name \in Texts
    <3> HIDE DEF flags
    <3>1. \A i \in DOMAIN flags : flags[i] \in [name : STRING, bind : BOOLEAN]
      BY <1>2, Items, Zenon
    <3>2. STRING \subseteq Texts
      BY DEF Texts
    <3> QED
      BY <3>1, <3>2, FlagTyped, Zenon
  <2> HIDE DEF flags
  <2> QED
    BY ONLY <1>2, <2>1
<1>4. FlagNames(F) = <<u>> \o <<v>> \o rest
  BY <1>1, Zenon DEF FlagNames
<1>5. p \in Texts /\ p \o "refresh-interval" = u /\ p \o "config-file" = v
  BY FlagName, Zenon
<1>6. rest = [i \in DOMAIN names |-> p \o names[i]]
  BY <1>3, Zenon
<1>7. "refresh-interval" \in Texts /\ "config-file" \in Texts /\ Joins
  BY DEF Texts, StringFacts
<1> HIDE DEF names, flags, p, u, v, rest
<1>8. ~Repeats(<<p \o "refresh-interval">> \o <<p \o "config-file">> \o [i \in DOMAIN names |-> p \o names[i]])
  BY <1>1, <1>3, <1>5, <1>7, FlagsApart, Zenon
<1>9. ~Repeats(FlagNames(F))
  BY <1>4, <1>5, <1>6, <1>8, Zenon
<1>10. RegisterFlags(F) = ""
  <2> DEFINE a == Check(\A i \in DOMAIN F.x.flags : F.x.flags[i].bind, "panic")
             c == Check(~Repeats(FlagNames(F)), "duplicate flag")
  <2>1. a = "" /\ c = ""
    BY <1>1, <1>9, Zenon DEF Check, flags
  <2>2. RegisterFlags(F) = FirstError(<<a, c>>)
    BY Zenon DEF RegisterFlags
  <2> HIDE DEF a, c
  <2> QED
    BY <2>1, <2>2, TwoFine, Zenon
<1>11. {u, v} \subseteq ToSet(FlagNames(F))
  <2> DEFINE w == <<u>> \o <<v>> \o rest
  <2>1. rest \in Seq(Texts)
    BY <1>3, <1>5, <1>6, <1>7, Prefixed, Zenon
  <2>2. 1 \in DOMAIN w /\ 2 \in DOMAIN w /\ w[1] = u /\ w[2] = v
    BY ONLY <2>1
  <2> HIDE DEF w
  <2>3. FlagNames(F) = w
    BY <1>4 DEF w
  <2> QED
    BY <2>2, <2>3, Zenon DEF ToSet
<1> QED
  BY <1>10, <1>11 DEF u, v

\* ... and the command lines of the tests parse.
LEMMA FlagsParsed ==
  ASSUME StringFacts, NEW b \in Builds, Contracted(b), NEW F, F.x = b.x, F.name \in Texts,
         NEW args,
         DOMAIN args \subseteq {F.name \o ".refresh-interval", F.name \o ".config-file"}
  PROVE  ParseError(F, args) = ""
<1> DEFINE a == RegisterFlags(F)
           c == Check(DOMAIN args \subseteq ToSet(FlagNames(F)), "unknown flag")
<1>1. a = "" /\ DOMAIN args \subseteq ToSet(FlagNames(F))
  BY FlagsRegistered, Zenon
<1>2. c = ""
  BY <1>1, Zenon DEF Check
<1>3. ParseError(F, args) = FirstError(<<a, c>>)
  BY Zenon DEF ParseError
<1> HIDE DEF a, c
<1> QED
  BY <1>1, <1>2, <1>3, TwoFine, Zenon

\* The first of two errors that is one, and that there is one of five.
LEMMA FirstOfTwo ==
  ASSUME NEW a, NEW b, TrimSpace(a) = a, a # ""
  PROVE  FirstError(<<a, b>>) = a
<1> DEFINE t == <<a, b>>
<1>1. DOMAIN t = 1 .. 2 /\ t[1] = a /\ 2 \in 1 .. 7
  BY ONLY TRUE
<1> HIDE DEF t
<1>2. FirstError(t) = a
  BY <1>1, FirstNonEmpty, Zenon DEF FirstError
<1> QED
  BY <1>2 DEF t

LEMMA SecondOfTwo ==
  ASSUME NEW a, NEW b, TrimSpace(b) # ""
  PROVE  FirstError(<<a, b>>) # ""
<1> DEFINE t == <<a, b>>
<1>1. DOMAIN t = 1 .. 2 /\ t[2] = b /\ 2 \in 1 .. 7 /\ 2 \in 1 .. 2
  BY ONLY TRUE
<1> HIDE DEF t
<1>2. FirstError(t) # ""
  BY <1>1, FirstNonEmpty, Zenon DEF FirstError
<1> QED
  BY <1>2 DEF t

LEMMA OneOfFive ==
  ASSUME NEW a, NEW b, NEW c, NEW d, NEW e, TrimSpace(a) # "" \/ TrimSpace(e) # ""
  PROVE  FirstError(<<a, b, c, d, e>>) # ""
<1> DEFINE t == <<a, b, c, d, e>>
<1>1. DOMAIN t = 1 .. 5 /\ t[1] = a /\ t[5] = e /\ 5 \in 1 .. 7 /\ 1 \in 1 .. 5 /\ 5 \in 1 .. 5
  BY ONLY TRUE
<1> HIDE DEF t
<1>2. FirstError(t) # ""
  BY <1>1, FirstNonEmpty, Zenon DEF FirstError
<1> QED
  BY <1>2 DEF t

\* No file is given, and there is none in the default place.
LEMMA NoFile ==
  ASSUME NEW name, NEW disk, DefaultFeatureConfigFile(name) \notin DOMAIN disk
  PROVE  LoadFeatureConfigFile(name, "", disk)
           = [path |-> DefaultFeatureConfigFile(name), loaded |-> FALSE, error |-> ""]
<1> DEFINE path == DefaultFeatureConfigFile(name)
           a == Check(FALSE \/ TrimSpace("") = "", "no such file")
           c == Check(FALSE => disk[path] # "bad", "cannot parse")
           d == Check(path \in DOMAIN disk \/ TrimSpace("") = "", "no such file")
           e == Check(path \in DOMAIN disk => disk[path] # "bad", "cannot parse")
<1>1. TrimSpace("") = "" /\ Or("", path) = path
  BY Trimmed, Zenon DEF Or
<1>2. d = "" /\ e = ""
  BY <1>1, Zenon DEF Check
<1>3. LoadFeatureConfigFile(name, "", disk) =
        [path |-> path, loaded |-> path \in DOMAIN disk /\ disk[path] \in {"ok", "empty"},
         error |-> FirstError(<<d, e>>)]
  BY <1>1, Zenon DEF LoadFeatureConfigFile
<1> HIDE DEF d, e, path
<1>4. FirstError(<<d, e>>) = ""
  BY <1>2, TwoFine, Zenon
<1>5. (path \in DOMAIN disk /\ disk[path] \in {"ok", "empty"}) = FALSE
  BY Zenon DEF path
<1> QED
  BY <1>3, <1>4, <1>5, Zenon DEF path

\* A file is given, which is there and has a meaning or not.
Found(file, path, disk) ==
  /\ path \notin DOMAIN disk =>
       file = [path |-> path, loaded |-> FALSE, error |-> "no such file"]
  /\ path \in DOMAIN disk /\ disk[path] = "ok" =>
       file = [path |-> path, loaded |-> TRUE, error |-> ""]
  /\ path \in DOMAIN disk /\ disk[path] = "bad" => file.error # "" /\ ~file.loaded

LEMMA SomeFile ==
  ASSUME NEW name, NEW given, NEW path, NEW disk, TrimSpace(given) = path, path # ""
  PROVE  Found(LoadFeatureConfigFile(name, given, disk), path, disk)
<1> DEFINE file == LoadFeatureConfigFile(name, given, disk)
           loaded == path \in DOMAIN disk /\ disk[path] \in {"ok", "empty"}
           d == Check(path \in DOMAIN disk \/ TrimSpace(given) = "", "no such file")
           e == Check(path \in DOMAIN disk => disk[path] # "bad", "cannot parse")
<1>1. Or(TrimSpace(given), DefaultFeatureConfigFile(name)) = path
  BY Zenon DEF Or
<1>2. file = [path |-> path, loaded |-> loaded, error |-> FirstError(<<d, e>>)]
  BY <1>1, Zenon DEF LoadFeatureConfigFile
<1> HIDE DEF file
<1>3. ASSUME path \notin DOMAIN disk
      PROVE  file = [path |-> path, loaded |-> FALSE, error |-> "no such file"]
  <2>1. d = "no such file" /\ loaded = FALSE
    BY <1>3, Zenon DEF Check
  <2>2. TrimSpace("no such file") = "no such file" /\ "no such file" # ""
    BY TextsAssumption, Zenon DEF TrimSpace
  <2> HIDE DEF d, e, loaded
  <2>3. FirstError(<<d, e>>) = "no such file"
    BY <2>1, <2>2, FirstOfTwo, Zenon
  <2> QED
    BY <1>2, <2>1, <2>3, Zenon
<1>4. ASSUME path \in DOMAIN disk, disk[path] = "ok"
      PROVE  file = [path |-> path, loaded |-> TRUE, error |-> ""]
  <2>1. d = "" /\ e = "" /\ loaded = TRUE
    BY <1>4, Zenon DEF Check
  <2> HIDE DEF d, e, loaded
  <2>2. FirstError(<<d, e>>) = ""
    BY <2>1, TwoFine, Zenon
  <2> QED
    BY <1>2, <2>1, <2>2, Zenon
<1>5. ASSUME path \in DOMAIN disk, disk[path] = "bad" PROVE file.error # "" /\ ~file.loaded
  <2>1. e = "cannot parse" /\ ~loaded
    BY <1>5, Zenon DEF Check
  <2>2. TrimSpace("cannot parse") # ""
    BY TextsAssumption, Zenon DEF TrimSpace
  <2>3. file.error = FirstError(<<d, e>>) /\ (file.loaded <=> loaded)
    BY <1>2, Zenon
  <2> HIDE DEF d, e, loaded
  <2>4. FirstError(<<d, e>>) # ""
    BY <2>1, <2>2, SecondOfTwo, Zenon
  <2> QED
    BY <2>1, <2>3, <2>4, Zenon
<1> QED
  BY <1>3, <1>4, <1>5, Zenon DEF Found, file

\* A feature registers its collector if nothing is wrong with its configuration, ...
LEMMA Registers ==
  ASSUME StringFacts, NEW b, Contracted(b), NEW F, F.x = b.x, NEW n, F.name # "", n # "",
         Fit(b.x.helpers, F.name, n), NEW disk, ResolveFeatureConfig(F, disk).error = "",
         NEW taken, taken \subseteq {StandardMetricInfo(n).BuildInfo}
  PROVE  RegisterCollectors(F, n, disk, taken) = ""
<1> DEFINE c == Collector(F, n)
           v == Check(F.x.valid, "invalid configuration")
           w == Check(snapshotExtensionNewSnapshotter(F.x) # "error", "no snapshotter")
           y == ResolveFeatureConfig(F, disk).error
           z == Check(~Repeats(c.names) /\ ToSet(c.names) \cap taken = {}, "already registered")
<1>1. b.x.valid /\ b.x.newSnapshotter = "unset" /\ b.x.factory = "good"
  BY HooksGiven, Zenon
<1>2. v = "" /\ w = ""
  BY <1>1, Zenon DEF Check, snapshotExtensionNewSnapshotter
<1>3. Works(c, n, "good")
  BY FeatureCollects, Zenon
<1>4. RegisterCollectors(F, n, disk, taken) = FirstError(<<y, v, w, c.panic, z>>)
  BY Zenon DEF RegisterCollectors
<1>5. c.panic = "" /\ ~Repeats(c.names)
      /\ ToSet(c.names) \cap {StandardMetricInfo(n).BuildInfo} = {}
  BY <1>3, Zenon DEF Works
<1> HIDE DEF c, v, w, y
<1>6. z = ""
  <2>1. ToSet(c.names) \cap taken = {}
    BY <1>5, Zenon
  <2> QED
    BY <1>5, <2>1, Zenon DEF Check
<1>7. y = ""
  BY Zenon DEF y
<1> DEFINE panic == c.panic
<1>8. panic = ""
  BY <1>5
<1>9. RegisterCollectors(F, n, disk, taken) = FirstError(<<y, v, w, panic, z>>)
  BY <1>4
<1> HIDE DEF z, panic
<1>10. FirstError(<<y, v, w, panic, z>>) = ""
  <2> DEFINE t == <<y, v, w, panic, z>>
  <2>1. DOMAIN t = 1 .. 5 /\ t[1] = y /\ t[2] = v /\ t[3] = w /\ t[4] = panic /\ t[5] = z
    BY ONLY TRUE
  <2>2. \A i \in 1 .. 5 : i = 1 \/ i = 2 \/ i = 3 \/ i = 4 \/ i = 5
    BY ONLY TRUE
  <2> HIDE DEF t
  <2>3. \A i \in DOMAIN t : t[i] = ""
    BY <1>2, <1>6, <1>7, <1>8, <2>1, <2>2, Zenon
  <2> QED
    BY <2>3, AllFine, Zenon DEF t
<1> QED
  BY <1>9, <1>10

\* ... and not a second time, nor with an error in its configuration.
LEMMA Refuses ==
  ASSUME NEW F, NEW n, NEW disk, NEW taken,
         \/ ToSet(Collector(F, n).names) \cap taken # {}
         \/ TrimSpace(ResolveFeatureConfig(F, disk).error) # ""
  PROVE  RegisterCollectors(F, n, disk, taken) # ""
<1> DEFINE c == Collector(F, n)
           v == Check(F.x.valid, "invalid configuration")
           w == Check(snapshotExtensionNewSnapshotter(F.x) # "error", "no snapshotter")
           y == ResolveFeatureConfig(F, disk).error
           z == Check(~Repeats(c.names) /\ ToSet(c.names) \cap taken = {}, "already registered")
<1>1. RegisterCollectors(F, n, disk, taken) = FirstError(<<y, v, w, c.panic, z>>)
  BY Zenon DEF RegisterCollectors
<1>2. TrimSpace("already registered") # ""
  BY TextsAssumption, Zenon DEF TrimSpace
<1>3. TrimSpace(y) # "" \/ TrimSpace(z) # ""
  BY <1>2, Zenon DEF Check
<1> HIDE DEF c, v, w, y, z
<1>4. FirstError(<<y, v, w, c.panic, z>>) # ""
  BY <1>3, OneOfFive, Zenon
<1> QED
  BY <1>1, <1>4, Zenon

-----------------------------------------------------------------------------
(* The tests of an exporter that keeps the contract *)

\* What its feature reports of its configuration, if the file is not in error.
HasFile(F, disk, p, l) ==
  LoadFeatureConfigFile(F.name, F.file, disk) = [path |-> p, loaded |-> l, error |-> ""]
Reported(F, disk, p, l) ==
  /\ ResolveFeatureConfig(F, disk).error = ""
  /\ RuntimeConfig(F, disk).config_file = p
  /\ RuntimeConfig(F, disk).config_file_loaded = l
  /\ RuntimeConfig(F, disk).refresh_interval
       = NormalizeDuration(F.refreshInterval, F.defaultInterval)

LEMMA Reports ==
  ASSUME NEW F, NEW disk, NEW p, NEW l \in BOOLEAN, F.x.configFile, F.x.resolve,
         HasFile(F, disk, p, l)
  PROVE  Reported(F, disk, p, l)
<1> DEFINE r == ResolveFeatureConfig(F, disk)
           c == RuntimeConfig(F, disk)
           i == NormalizeDuration(F.refreshInterval, F.defaultInterval)
<1>1. r = [path |-> p, loaded |-> l, error |-> ""]
  BY Zenon DEF ResolveFeatureConfig, HasFile
<1> DEFINE unset == ""
<1> HIDE DEF unset
<1>2. r.path = p /\ r.loaded = l /\ r.error = unset
  <2>1. r = [path |-> p, loaded |-> l, error |-> unset]
    BY <1>1, Zenon DEF unset
  <2> HIDE DEF r
  <2> QED
    BY ONLY <2>1
<1> HIDE DEF r
<1>3. /\ c.config_file = r.path /\ c.refresh_interval = i
      /\ c.config_file_loaded = (F.x.configFile /\ r.error = "" /\ r.loaded)
  BY Zenon DEF RuntimeConfig, r
<1> HIDE DEF c, i
<1>4. l = TRUE \/ l = FALSE
  OBVIOUS
<1>5. (F.x.configFile /\ r.error = "" /\ r.loaded) = l
  BY <1>2, <1>4, Zenon DEF unset
<1> QED
  BY <1>2, <1>3, <1>5, Zenon DEF r, c, i, unset, Reported

\* The feature of the project, and what its flags are called.
LEMMA ItsFeature ==
  ASSUME NEW b \in Builds, Contracted(b)
  PROVE  LET F == NamedFeature(b)
             n == b.project.namespace
         IN /\ F.name = b.project.feature /\ F.name \in Texts /\ F.name # ""
            /\ F.x = b.x /\ F.file = "" /\ n # "" /\ n \in Texts
            /\ Fit(b.x.helpers, F.name, n)
<1> DEFINE F == NamedFeature(b)
<1>1. F.name = Or(b.project.feature, "exporter") /\ F.x = b.x /\ F.file = ""
  BY FeatureMade, Zenon DEF NamedFeature
<1>2. b.project.feature # ""
  BY MetadataGiven, Trimmed, Zenon
<1>3. b.project.namespace # ""
  <2>1. b.project.namespace \in Identifiers
    BY MetadataGiven, Zenon
  <2>2. "" \notin Identifiers
    BY TextsAssumption, Zenon
  <2> QED
    BY <2>1, <2>2, Zenon
<1> HIDE DEF F
<1>4. F.name = b.project.feature
  BY <1>1, <1>2, Zenon DEF Or
<1> QED
  BY <1>1, <1>2, <1>3, <1>4, MetadataTyped, Fitting, Zenon DEF F

LEMMA FlagsDiffer ==
  ASSUME StringFacts, NEW n \in Texts
  PROVE  n \o ".config-file" # n \o ".refresh-interval"
<1>1. "." \in Texts /\ "refresh-interval" \in Texts /\ "config-file" \in Texts
  BY DEF Texts
<1>2. Joins /\ Dotted
  BY DEF StringFacts
<1>3. "." \o "refresh-interval" \in Texts /\ "." \o "config-file" \in Texts
  BY <1>1, <1>2, Joined, Zenon
<1>4. ".refresh-interval" \in Texts /\ ".config-file" \in Texts
  BY <1>2, <1>3, Zenon DEF Dotted
<1>5. n \o ".config-file" = n \o ".refresh-interval" => ".config-file" = ".refresh-interval"
  BY <1>2, <1>4, Cancelled, Zenon
<1> QED
  BY <1>5, Zenon

LEMMA FlagGiven ==
  ASSUME NEW flag, NEW value
  PROVE  DOMAIN Given(flag, value) = {flag} /\ Given(flag, value)[flag] = value
BY DEF Given

\* A named feature that no file is given for: it reports its default file, does not load
\* it, and collects well in its namespace.
LEMMA ItsCollector ==
  ASSUME StringFacts, NEW b \in Builds, Contracted(b), NEW P, P.x = b.x, P.file = "",
         P.name = b.project.feature
  PROVE  LET n == b.project.namespace
             report == RuntimeConfig(P, b.disk)
         IN /\ RegisterCollectors(P, n, b.disk, {}) = ""
            /\ Collects(Collector(P, n), "good")
            /\ RegisterCollectors(P, n, b.disk, ToSet(Collector(P, n).names)) # ""
            /\ RegisterCollectors(P, n, b.disk, {StandardMetricInfo(n).BuildInfo}) = ""
            /\ report.refresh_interval = NormalizeDuration(P.refreshInterval, P.defaultInterval)
            /\ report.config_file = DefaultFeatureConfigFile(b.project.feature)
            /\ report.config_file_loaded = FALSE
<1> DEFINE n == b.project.namespace
           c == Collector(P, n)
<1>1. /\ P.name \in Texts /\ P.name # "" /\ n # "" /\ n \in Texts /\ Fit(b.x.helpers, P.name, n)
  BY ItsFeature, Zenon
<1>2. b.x.configFile /\ b.x.resolve
  BY HooksGiven, Zenon
<1>3. DefaultFeatureConfigFile(b.project.feature) \notin DOMAIN b.disk
  BY HelpersGiven, Zenon
<1>4. LoadFeatureConfigFile(P.name, P.file, b.disk)
        = [path |-> DefaultFeatureConfigFile(b.project.feature), loaded |-> FALSE, error |-> ""]
  BY <1>3, NoFile, Zenon
<1>5. FALSE \in BOOLEAN
  OBVIOUS
<1>6. /\ ResolveFeatureConfig(P, b.disk).error = ""
      /\ RuntimeConfig(P, b.disk).config_file = DefaultFeatureConfigFile(b.project.feature)
      /\ RuntimeConfig(P, b.disk).config_file_loaded = FALSE
      /\ RuntimeConfig(P, b.disk).refresh_interval
           = NormalizeDuration(P.refreshInterval, P.defaultInterval)
  <2> DEFINE path == DefaultFeatureConfigFile(b.project.feature)
  <2>1. HasFile(P, b.disk, path, FALSE)
    BY <1>4, Zenon DEF HasFile
  <2>2. P.x.configFile /\ P.x.resolve
    BY <1>1, <1>2, Zenon
  <2>3. Reported(P, b.disk, path, FALSE)
    BY <1>5, <2>1, <2>2, Reports, Zenon
  <2> QED
    BY <2>3, Zenon DEF Reported
<1>7. \A taken \in SUBSET {StandardMetricInfo(n).BuildInfo} :
        RegisterCollectors(P, n, b.disk, taken) = ""
  BY <1>1, <1>6, Registers, Zenon
<1>8. Works(c, n, "good")
  BY <1>1, FeatureCollects, Zenon
<1>9. Collects(c, "good") /\ ToSet(c.names) \cap ToSet(c.names) # {}
  BY <1>8, Zenon DEF Works, Collects
<1>10. RegisterCollectors(P, n, b.disk, ToSet(c.names)) # ""
  BY <1>9, Refuses, Zenon
<1> QED
  BY <1>6, <1>7, <1>9, <1>10, Zenon

LEMMA ExporterContract ==
  ASSUME StringFacts, NEW b \in Builds, Contracted(b)
  PROVE  testExporterContract(b)
<1> DEFINE F == NamedFeature(b)
           key == b.project.feature \o ".refresh-interval"
           args == Given(key, 30)
           P == ParseFlags(F, args)
           want == [refresh_interval |-> 30, config_file_loaded |-> FALSE,
                    config_file |-> DefaultFeatureConfigFile(b.project.feature)]
           report == RuntimeConfig(P, b.disk)
           n == b.project.namespace
<1>1. /\ F.name = b.project.feature /\ F.name \in Texts /\ F.x = b.x /\ F.file = ""
  BY ItsFeature, Zenon
<1>2. DOMAIN args = {key} /\ args[key] = 30
  BY FlagGiven, Zenon
<1>3. b.project.feature \o ".config-file" # key
  BY <1>1, FlagsDiffer, Zenon
<1> HIDE DEF args
<1>4. Parsed(P, F, args)
  BY FeatureParsed, Zenon DEF NamedFeature
<1> HIDE DEF F, P
<1>5. P.refreshInterval = 30 /\ P.file = "" /\ P.name = F.name /\ P.x = F.x
  BY <1>1, <1>2, <1>3, <1>4, Zenon DEF Parsed
<1>6. /\ RegisterCollectors(P, n, b.disk, {}) = ""
      /\ Collects(Collector(P, n), "good")
      /\ report.refresh_interval = NormalizeDuration(P.refreshInterval, P.defaultInterval)
      /\ report.config_file = DefaultFeatureConfigFile(b.project.feature)
      /\ report.config_file_loaded = FALSE
  BY <1>1, <1>5, ItsCollector, Zenon
<1>7. /\ RegisterCollectors(F, n, b.disk, {}) = ""
      /\ RegisterCollectors(F, n, b.disk, ToSet(Collector(F, n).names)) # ""
  BY <1>1, ItsCollector, Zenon
<1>8. NormalizeDuration(30, P.defaultInterval) = 30
  BY ONLY TRUE DEF NormalizeDuration
<1>9. ParseError(F, args) = ""
  BY <1>1, <1>2, FlagsParsed, Zenon
<1> HIDE DEF report
<1>10. \A k \in DOMAIN want : report[k] = want[k]
  <2> DEFINE file == DefaultFeatureConfigFile(b.project.feature)
  <2>1. report.refresh_interval = 30 /\ report.config_file = file
        /\ report.config_file_loaded = FALSE
    BY <1>5, <1>6, <1>8, Zenon
  <2>2. /\ want.refresh_interval = 30 /\ want.config_file = file
        /\ want.config_file_loaded = FALSE
        /\ DOMAIN want = {"refresh_interval", "config_file_loaded", "config_file"}
    BY ONLY TRUE
  <2> HIDE DEF file, want
  <2> QED
    BY <2>1, <2>2, Zenon
<1> HIDE DEF want, key, n
<1>11. RunFeatureContract(b, args, want)
  BY <1>6, <1>7, <1>9, <1>10, Zenon DEF RunFeatureContract, F, P, n, report
<1> QED
  BY <1>11, Zenon DEF testExporterContract, args, want, key

LEMMA ExporterRegistersCollectors ==
  ASSUME StringFacts, NEW b \in Builds, Contracted(b)
  PROVE  testExporterRegistersCollectors(b)
<1> DEFINE F == NamedFeature(b)
           none == <<>>
<1>1. F.name = b.project.feature /\ F.name \in Texts /\ F.x = b.x /\ F.file = ""
  BY ItsFeature, Zenon
<1>2. DOMAIN none = {}
  BY ONLY TRUE
<1> HIDE DEF F, none
<1>3. ParseError(F, none) = ""
  BY <1>1, <1>2, FlagsParsed, Zenon
<1>4. RegisterCollectors(F, b.project.namespace, b.disk, {}) = ""
      /\ Collects(Collector(F, b.project.namespace), "good")
  BY <1>1, ItsCollector, Zenon
<1> QED
  BY <1>3, <1>4, Zenon DEF testExporterRegistersCollectors, F, none

\* Without a name, the feature is called exporter, and its file as that of no name.
LEMMA NamelessFeature ==
  ASSUME NEW b \in Builds, Contracted(b)
  PROVE  LET F == NewNamedFeature(b, "")
         IN /\ F.name = "exporter" /\ F.x = b.x /\ F.file = ""
            /\ DefaultFeatureConfigFile("exporter") = DefaultFeatureConfigFile("")
            /\ NormalizeDuration(F.refreshInterval, F.defaultInterval)
                 = NormalizeDuration(b.x.interval, DefaultSnapshotRefreshInterval)
<1> DEFINE F == NewNamedFeature(b, "")
           i == b.x.interval
           default == DefaultSnapshotRefreshInterval
           last == NormalizeDuration(NormalizeDuration(0, i), default)
           first == NormalizeDuration(0, i)
<1>1. F.name = "exporter" /\ F.x = b.x /\ F.file = ""
  BY FeatureMade, Zenon DEF Or
<1>2. DefaultFeatureConfigFile("exporter") = DefaultFeatureConfigFile("")
  <2>1. TrimSpace("exporter") = "exporter" /\ TrimSpace("") = ""
    BY TextsAssumption, Zenon DEF TrimSpace
  <2>2. Or("exporter", "exporter") = Or("", "exporter")
    BY Zenon DEF Or
  <2> QED
    BY <2>1, <2>2, Zenon DEF DefaultFeatureConfigFile
<1>3. F.defaultInterval = NormalizeDuration(first, last) /\ F.refreshInterval = F.defaultInterval
  BY Zenon DEF NewNamedFeature, NewFeature, Options
<1>4. i \in Int
  BY TestsAssumption, Zenon
<1> HIDE DEF F, i, default
<1>5. default = 30
  BY DEF default, DefaultSnapshotRefreshInterval
<1>6. NormalizeDuration(NormalizeDuration(first, last), NormalizeDuration(first, last))
        = NormalizeDuration(i, default)
  BY ONLY <1>4, <1>5 DEF NormalizeDuration
<1> QED
  BY <1>1, <1>2, <1>3, <1>6, Zenon DEF F, i, default

LEMMA ContractFeatureDefaults ==
  ASSUME StringFacts, NEW b \in Builds, Contracted(b)
  PROVE  testContractFeatureDefaults(b)
<1> DEFINE F == NewNamedFeature(b, "")
           none == <<>>
<1>1. /\ F.name = "exporter" /\ F.x = b.x /\ F.file = ""
      /\ DefaultFeatureConfigFile("exporter") = DefaultFeatureConfigFile("")
      /\ NormalizeDuration(F.refreshInterval, F.defaultInterval)
           = NormalizeDuration(b.x.interval, DefaultSnapshotRefreshInterval)
  BY NamelessFeature, Zenon
<1>2. DOMAIN none = {} /\ "exporter" \in Texts /\ FALSE \in BOOLEAN
  BY DEF Texts
<1> HIDE DEF F, none
<1>3. ParseError(F, none) = ""
  BY <1>1, <1>2, FlagsParsed, Zenon
<1>4. b.x.configFile /\ b.x.resolve
  BY HooksGiven, Zenon
<1>5. DefaultFeatureConfigFile("exporter") \notin DOMAIN b.disk
  BY <1>1, HelpersGiven, Zenon
<1>6. LoadFeatureConfigFile(F.name, F.file, b.disk)
        = [path |-> DefaultFeatureConfigFile("exporter"), loaded |-> FALSE, error |-> ""]
  BY <1>1, <1>5, NoFile, Zenon
<1>7. /\ RuntimeConfig(F, b.disk).config_file = DefaultFeatureConfigFile("exporter")
      /\ RuntimeConfig(F, b.disk).config_file_loaded = FALSE
      /\ RuntimeConfig(F, b.disk).refresh_interval
           = NormalizeDuration(F.refreshInterval, F.defaultInterval)
  <2> DEFINE path == DefaultFeatureConfigFile("exporter")
  <2>1. HasFile(F, b.disk, path, FALSE)
    BY <1>6, Zenon DEF HasFile
  <2>2. F.x.configFile /\ F.x.resolve
    BY <1>1, <1>4, Zenon
  <2>3. Reported(F, b.disk, path, FALSE)
    BY <1>2, <2>1, <2>2, Reports, Zenon
  <2> QED
    BY <2>3, Zenon DEF Reported
<1> QED
  BY <1>1, <1>3, <1>7, Zenon DEF testContractFeatureDefaults, F, none

\* The files that the tests write, and the one that they do not.
LEMMA ScratchFiles ==
  ASSUME NEW b \in Builds
  PROVE  /\ "/tmp/feature.yml" \in DOMAIN Scratch(b) /\ Scratch(b)["/tmp/feature.yml"] = "ok"
         /\ "/tmp/bad.yml" \in DOMAIN Scratch(b) /\ Scratch(b)["/tmp/bad.yml"] = "bad"
         /\ "/tmp/missing.yml" \notin DOMAIN Scratch(b)
         /\ TrimSpace("/tmp/feature.yml") = "/tmp/feature.yml"
         /\ TrimSpace("/tmp/bad.yml") = "/tmp/bad.yml"
         /\ TrimSpace("/tmp/missing.yml") = "/tmp/missing.yml"
         /\ TrimSpace(" /tmp/feature.yml ") = "/tmp/feature.yml"
<1>1. {"/tmp/feature.yml", "/tmp/bad.yml", "/tmp/missing.yml"} \cap DOMAIN b.disk = {}
  BY TestsAssumption, Zenon
<1>2. {"/tmp/feature.yml", "/tmp/bad.yml", "/tmp/missing.yml"} \cap DOMAIN Padded = {}
      /\ " /tmp/feature.yml " \in DOMAIN Padded
      /\ Padded[" /tmp/feature.yml "] = "/tmp/feature.yml"
  BY TestsAssumption, Zenon
<1> DEFINE disk == Scratch(b)
           files == DOMAIN b.disk \cup {"/tmp/feature.yml", "/tmp/bad.yml"}
           content(file) == CASE file = "/tmp/feature.yml" -> "ok" [] file = "/tmp/bad.yml" -> "bad"
                              [] OTHER -> b.disk[file]
<1>3. disk = [file \in files |-> content(file)]
  BY Zenon DEF Scratch
<1>4. content("/tmp/feature.yml") = "ok" /\ content("/tmp/bad.yml") = "bad"
  OBVIOUS
<1>5. "/tmp/feature.yml" \in files /\ "/tmp/bad.yml" \in files /\ "/tmp/missing.yml" \notin files
  BY <1>1, Zenon
<1> HIDE DEF disk, files, content
<1>6. /\ DOMAIN disk = files /\ disk["/tmp/feature.yml"] = content("/tmp/feature.yml")
      /\ disk["/tmp/bad.yml"] = content("/tmp/bad.yml")
  BY ONLY <1>3, <1>5
<1>7. /\ TrimSpace("/tmp/feature.yml") = "/tmp/feature.yml"
      /\ TrimSpace("/tmp/bad.yml") = "/tmp/bad.yml"
      /\ TrimSpace("/tmp/missing.yml") = "/tmp/missing.yml"
  BY <1>2, Zenon DEF TrimSpace
<1>8. TrimSpace(" /tmp/feature.yml ") = "/tmp/feature.yml"
  BY <1>2, Zenon DEF TrimSpace
<1> QED
  BY <1>4, <1>5, <1>6, <1>7, <1>8, Zenon DEF disk

\* A feature that is given a file on its command line.
LEMMA FileParsed ==
  ASSUME StringFacts, NEW b \in Builds, Contracted(b), NEW path
  PROVE  LET args == Given(ConfigFileFlag(b), path)
             P == ParseFlags(NamedFeature(b), args)
         IN /\ P.name = b.project.feature /\ P.x = b.x /\ P.file = path
            /\ ParseError(NamedFeature(b), args) = ""
<1> DEFINE F == NamedFeature(b)
           key == ConfigFileFlag(b)
           args == Given(key, path)
           P == ParseFlags(F, args)
<1>1. F.name = b.project.feature /\ F.name \in Texts /\ F.x = b.x
  BY ItsFeature, Zenon
<1>2. DOMAIN args = {key} /\ args[key] = path
  BY FlagGiven, Zenon
<1>3. key = F.name \o ".config-file"
  BY <1>1, Zenon DEF ConfigFileFlag
<1> HIDE DEF args, key
<1>4. Parsed(P, F, args)
  BY FeatureParsed, Zenon DEF NamedFeature
<1> HIDE DEF F, P
<1>5. P.name = F.name /\ P.x = F.x /\ P.file = path
  BY <1>2, <1>3, <1>4, Zenon DEF Parsed
<1>6. ParseError(F, args) = ""
  BY <1>1, <1>2, <1>3, FlagsParsed, Zenon
<1> QED
  BY <1>1, <1>5, <1>6, Zenon DEF F, P, args, key

LEMMA FeatureConfigFileHook ==
  ASSUME StringFacts, NEW b \in Builds, Contracted(b)
  PROVE  testFeatureConfigFileHook(b)
<1> DEFINE given(path) == ParseFlags(NamedFeature(b), Given(ConfigFileFlag(b), path))
           good == given("/tmp/feature.yml")
           bad == given("/tmp/missing.yml")
           disk == Scratch(b)
<1>1. b.x.configFile /\ b.x.resolve /\ TRUE \in BOOLEAN
  BY HooksGiven, Zenon
<1>2. /\ good.name = b.project.feature /\ good.x = b.x /\ good.file = "/tmp/feature.yml"
      /\ ParseError(NamedFeature(b), Given(ConfigFileFlag(b), "/tmp/feature.yml")) = ""
      /\ bad.name = b.project.feature /\ bad.x = b.x /\ bad.file = "/tmp/missing.yml"
  BY FileParsed, Zenon
<1> HIDE DEF good, bad
<1>3. LoadFeatureConfigFile(good.name, good.file, disk)
        = [path |-> "/tmp/feature.yml", loaded |-> TRUE, error |-> ""]
  <2>1. TrimSpace(good.file) = "/tmp/feature.yml"
    BY <1>2, ScratchFiles, Zenon
  <2>2. Found(LoadFeatureConfigFile(good.name, good.file, disk), "/tmp/feature.yml", disk)
    BY <2>1, SomeFile, Zenon
  <2> QED
    BY <2>2, ScratchFiles, Zenon DEF Found
<1>4. RuntimeConfig(good, disk).config_file = "/tmp/feature.yml"
      /\ RuntimeConfig(good, disk).config_file_loaded = TRUE
  <2>1. HasFile(good, disk, "/tmp/feature.yml", TRUE)
    BY <1>3, Zenon DEF HasFile
  <2>2. good.x.configFile /\ good.x.resolve
    BY <1>1, <1>2, Zenon
  <2>3. Reported(good, disk, "/tmp/feature.yml", TRUE)
    BY <1>1, <2>1, <2>2, Reports, Zenon
  <2> QED
    BY <2>3, Zenon DEF Reported
<1>5. LoadFeatureConfigFile(bad.name, bad.file, disk)
        = [path |-> "/tmp/missing.yml", loaded |-> FALSE, error |-> "no such file"]
  <2>1. TrimSpace(bad.file) = "/tmp/missing.yml"
    BY <1>2, ScratchFiles, Zenon
  <2>2. Found(LoadFeatureConfigFile(bad.name, bad.file, disk), "/tmp/missing.yml", disk)
    BY <2>1, SomeFile, Zenon
  <2> QED
    BY <2>2, ScratchFiles, Zenon DEF Found
<1>6. TrimSpace(ResolveFeatureConfig(bad, disk).error) # ""
  <2> DEFINE file == LoadFeatureConfigFile(bad.name, bad.file, disk)
  <2>1. bad.x.resolve
    BY <1>1, <1>2
  <2>2. ResolveFeatureConfig(bad, disk) = file
    BY <2>1, Zenon DEF ResolveFeatureConfig
  <2>3. file.error = "no such file"
    <3>1. file = [path |-> "/tmp/missing.yml", loaded |-> FALSE, error |-> "no such file"]
      BY <1>5
    <3> HIDE DEF file
    <3> QED
      BY ONLY <3>1
  <2> QED
    BY <2>2, <2>3, TextsAssumption, Zenon DEF TrimSpace
<1>7. RegisterCollectors(bad, b.project.namespace, disk, {}) # ""
  BY <1>6, Refuses, Zenon
<1> QED
  BY <1>1, <1>2, <1>4, <1>7, Zenon DEF testFeatureConfigFileHook, good, bad

LEMMA FeatureConfigFileLoader ==
  ASSUME NEW b \in Builds
  PROVE  testFeatureConfigFileLoader(b)
<1> DEFINE load(path) == LoadFeatureConfigFile(b.project.feature, path, Scratch(b))
           disk == Scratch(b)
<1>1. load("/tmp/missing.yml") =
        [path |-> "/tmp/missing.yml", loaded |-> FALSE, error |-> "no such file"]
  <2>1. Found(load("/tmp/missing.yml"), "/tmp/missing.yml", disk)
    BY ScratchFiles, SomeFile, Zenon
  <2> QED
    BY <2>1, ScratchFiles, Zenon DEF Found
<1>2. load("/tmp/bad.yml").error # "" /\ ~load("/tmp/bad.yml").loaded
  <2>1. Found(load("/tmp/bad.yml"), "/tmp/bad.yml", disk)
    BY ScratchFiles, SomeFile, Zenon
  <2> QED
    BY <2>1, ScratchFiles, Zenon DEF Found
<1>3. load(" /tmp/feature.yml ") = [path |-> "/tmp/feature.yml", loaded |-> TRUE, error |-> ""]
  <2>1. Found(load(" /tmp/feature.yml "), "/tmp/feature.yml", disk)
    BY ScratchFiles, SomeFile, Zenon
  <2> QED
    BY <2>1, ScratchFiles, Zenon DEF Found
<1> HIDE DEF load
<1> QED
  BY <1>1, <1>2, <1>3, Zenon DEF testFeatureConfigFileLoader, load

LEMMA SmokeSpecIncludesConfigFile ==
  ASSUME NEW b \in Builds, Contracted(b)
  PROVE  testSmokeSpecIncludesConfigFile(b)
<1> DEFINE F == NamedFeature(b)
<1>1. F.name = b.project.feature /\ F.x = b.x
  BY ItsFeature, Zenon
<1>2. b.x.example # ""
  BY HooksGiven, Zenon
<1> HIDE DEF F
<1>3. SmokeSpec(F).args = {<<F.name \o ".config-file", "../examples/" \o F.x.example>>}
  BY <1>1, <1>2, Zenon DEF SmokeSpec
<1> QED
  BY <1>1, <1>2, <1>3, Zenon DEF testSmokeSpecIncludesConfigFile, ConfigFileFlag, Or, F

\* The first specification is found by its identifier, and none by that of the test.
LEMMA MetricNameContract ==
  ASSUME StringFacts, NEW b \in Builds, Contracted(b)
  PROVE  testMetricNameContract(b)
<1> DEFINE h == b.x.helpers
           f == b.project.feature
           n == b.project.namespace
           specs == HelperSpecs(h)
           same == {i \in DOMAIN specs : specs[i].id = specs[1].id}
           missing == {i \in DOMAIN specs : specs[i].id = "missing_metric"}
<1>1. Fit(h, f, n)
  BY Fitting, Zenon
<1>2. h.own \in Seq(MetricSpec) /\ h.own # <<>>
  BY <1>1, Zenon DEF Fit
<1>3. /\ specs \in Seq(MetricSpec) /\ AllApart(specs, f, n)
      /\ \A i \in DOMAIN specs : Named(specs[i], f, n)
  BY <1>1, SpecsApart, Zenon
<1>4. HelperTables(h) \in Seq(MetricSpec)
  BY <1>1, TablesGroup, Zenon DEF Fit, StringFacts, Group
<1>5. specs # <<>> /\ 1 \in DOMAIN specs
  <2> DEFINE o == h.own
             t == HelperTables(h)
  <2>1. specs = o \o t
    BY Zenon DEF HelperSpecs
  <2> HIDE DEF o, t, specs
  <2>2. o \in Seq(MetricSpec) /\ o # <<>> /\ t \in Seq(MetricSpec)
    BY <1>2, <1>4 DEF o, t
  <2> QED
    BY ONLY <2>1, <2>2
<1>6. same = {1}
  <2>1. \A i \in DOMAIN specs : i # 1 => specs[i].id # specs[1].id
    BY <1>3, <1>5, Zenon DEF AllApart, Apart
  <2> HIDE DEF specs
  <2> QED
    BY <1>5, <2>1
<1>7. missing = {}
  BY <1>3, Zenon DEF Named
<1>8. Min({1}) = 1
  BY ONLY TRUE DEF Min
<1> HIDE DEF specs, h
<1>9. FeatureMetricName("feature", "namespace", specs[1].id, specs)
        = MetricName(specs[1], "feature", "namespace")
  <2>1. {1} # {}
    OBVIOUS
  <2>2. FeatureMetricName("feature", "namespace", specs[1].id, specs)
          = IF same = {} THEN "panic"
            ELSE MetricName(specs[Min(same)], "feature", "namespace")
    BY Zenon DEF FeatureMetricName
  <2> HIDE DEF same
  <2> QED
    BY <1>6, <1>8, <2>1, <2>2, Zenon
<1>10. FeatureMetricName("feature", "namespace", "missing_metric", specs) = "panic"
  <2>1. FeatureMetricName("feature", "namespace", "missing_metric", specs)
          = IF missing = {} THEN "panic"
            ELSE MetricName(specs[Min(missing)], "feature", "namespace")
    BY Zenon DEF FeatureMetricName
  <2> HIDE DEF missing
  <2> QED
    BY <1>7, <2>1, Zenon
<1> QED
  BY <1>5, <1>9, <1>10, Zenon DEF testMetricNameContract, specs, h

LEMMA CollectorDefaults ==
  ASSUME StringFacts, NEW b \in Builds, Contracted(b)
  PROVE  testCollectorDefaultsAndFailureMetrics(b)
<1> DEFINE o == [name |-> "", namespace |-> "", snapshotter |-> "bad",
                 defaultSnapshotter |-> snapshotExtensionDefaultSnapshotter(b.x), interval |-> 0,
                 defaultInterval |-> b.x.interval, syncTimeout |-> 0]
           e == "exporter"
<1>1. b.x.metrics = "unset"
  BY HooksGiven, Zenon
<1>2. Fit(b.x.helpers, e, e)
  BY Fitting, Zenon
<1>3. e = Or(o.name, "exporter") /\ e = Or(o.namespace, "exporter")
  BY Zenon DEF Or
<1>4. "bad" = (IF o.snapshotter = "nil" THEN o.defaultSnapshotter ELSE o.snapshotter)
      /\ "bad" # "nil"
  BY Zenon
<1>5. NewCollector(b, "", "", "bad", snapshotExtensionDefaultSnapshotter(b.x))
        = NewSnapshotMetricsCollector(o, b.x)
  BY Zenon DEF NewCollector
<1> HIDE DEF o, e
<1>6. Works(NewSnapshotMetricsCollector(o, b.x), e, "bad")
  BY <1>1, <1>2, <1>3, <1>4, CollectorMade, Zenon
<1> QED
  BY <1>5, <1>6, Zenon DEF testCollectorDefaultsAndFailureMetrics, Works, Collects, e

LEMMA CollectorUsesDefault ==
  ASSUME StringFacts, NEW b \in Builds, Contracted(b)
  PROVE  testCollectorUsesDefaultSnapshotter(b)
<1> DEFINE f == b.project.feature
           n == b.project.namespace
           d == snapshotExtensionDefaultSnapshotter(b.x)
           o == [name |-> f, namespace |-> n, snapshotter |-> "nil", defaultSnapshotter |-> d,
                 interval |-> 0, defaultInterval |-> b.x.interval, syncTimeout |-> 0]
<1>1. /\ b.x.metrics = "unset" /\ b.x.defaultSnapshotter \in {"nil", "good"}
      /\ b.x.defaultEngine = "good"
  BY HooksGiven, Zenon
<1>2. Fit(b.x.helpers, f, n) /\ f # "" /\ n # ""
  BY Fitting, ItsFeature, Zenon
<1>3. d = "good"
  BY <1>1, Zenon DEF snapshotExtensionDefaultSnapshotter
<1>4. o.name = f /\ o.namespace = n /\ o.snapshotter = "nil" /\ o.defaultSnapshotter = d
  BY Zenon
<1>5. NewCollector(b, f, n, "nil", d) = NewSnapshotMetricsCollector(o, b.x)
  BY Zenon DEF NewCollector
<1> HIDE DEF o, d, f, n
<1>6. f = Or(o.name, "exporter") /\ n = Or(o.namespace, "exporter")
  BY <1>2, <1>4, Zenon DEF Or
<1>7. "good" = (IF o.snapshotter = "nil" THEN o.defaultSnapshotter ELSE o.snapshotter)
      /\ "good" # "nil"
  BY <1>3, <1>4, Zenon
<1>8. Works(NewSnapshotMetricsCollector(o, b.x), n, "good")
  BY <1>1, <1>2, <1>6, <1>7, CollectorMade, Zenon
<1> QED
  BY <1>5, <1>8, Zenon DEF testCollectorUsesDefaultSnapshotter, Works, Collects, f, n, d

\* A suite in which every test passes has no failures.
LEMMA SuitePasses ==
  ASSUME StringFacts, NEW b \in Builds, Contracted(b)
  PROVE  Failures(RunTests(b)) = {}
<1> DEFINE tests == RunTests(b)
           keys == {"exporter_contract", "exporter_registers_collectors",
                    "contract_feature_defaults", "feature_config_file_hook",
                    "feature_config_file_loader", "smoke_spec_includes_config_file",
                    "metric_name_contract", "collector_defaults_and_failure_metrics",
                    "collector_uses_default_snapshotter"}
<1>1. DOMAIN tests = keys
  BY DEF RunTests
<1>2. /\ tests["exporter_contract"] <=> testExporterContract(b)
      /\ tests["exporter_registers_collectors"] <=> testExporterRegistersCollectors(b)
      /\ tests["contract_feature_defaults"] <=> testContractFeatureDefaults(b)
      /\ tests["feature_config_file_hook"] <=> testFeatureConfigFileHook(b)
      /\ tests["feature_config_file_loader"] <=> testFeatureConfigFileLoader(b)
      /\ tests["smoke_spec_includes_config_file"] <=> testSmokeSpecIncludesConfigFile(b)
      /\ tests["metric_name_contract"] <=> testMetricNameContract(b)
      /\ tests["collector_defaults_and_failure_metrics"]
           <=> testCollectorDefaultsAndFailureMetrics(b)
      /\ tests["collector_uses_default_snapshotter"] <=> testCollectorUsesDefaultSnapshotter(b)
  BY Zenon DEF RunTests
<1> HIDE DEF tests
<1>3. \A t \in keys : tests[t]
  BY <1>2, ExporterContract, ExporterRegistersCollectors, ContractFeatureDefaults,
     FeatureConfigFileHook, FeatureConfigFileLoader, SmokeSpecIncludesConfigFile,
     MetricNameContract, CollectorDefaults, CollectorUsesDefault, Zenon
<1> QED
  BY <1>1, <1>3, Zenon DEF Failures, tests

\* No table panics: not when it is made, nor when it is loaded, nor at a scrape.
LEMMA NothingPanics ==
  ASSUME StringFacts, NEW b \in Builds, Contracted(b)
  PROVE  /\ ~Panics(b) /\ TablePanic(b.x.helpers) = ""
         /\ ScrapePanic(b.x.helpers, b.project.feature, b.project.namespace) = ""
<1> DEFINE h == b.x.helpers
           f == b.project.feature
           n == b.project.namespace
<1>1. Fit(h, f, n) /\ Fit(h, "exporter", "exporter")
  BY Fitting, Zenon
<1>2. /\ LoadPanic(h, f, n) = "" /\ ScrapePanic(h, f, n) = ""
      /\ LoadPanic(h, "exporter", "exporter") = "" /\ ScrapePanic(h, "exporter", "exporter") = ""
  BY <1>1, Loads, Scrapes, Zenon
<1>3. TablePanic(h) = ""
  <2>1. \A i \in DOMAIN (h.files \o h.values) : TrimSpace((h.files \o h.values)[i]) # ""
    BY HelpersGiven, Zenon
  <2> HIDE DEF h
  <2> QED
    BY <2>1, TablesMade, Zenon
<1>4. ~SmokePanics(b.x)
  BY HooksGiven, Zenon
<1> QED
  BY <1>2, <1>3, <1>4, Zenon DEF Panics

\* Metadata that keep the contract pass every check.
LEMMA MetadataSound ==
  ASSUME NEW b, Contracted(b)
  PROVE  LET m == b.project
         IN /\ Validate(m) = "" /\ InjectedProjectMetadataErr(m) = "" /\ InjectedFeatureName(m) = ""
            /\ ValidateListenAddress(m.listen) = "" /\ m.listen # ""
<1> DEFINE m == b.project
           name == InjectedDefault("name", m.name)
           description == InjectedDefault("description", m.description)
           feature == InjectedDefault("feature", m.feature)
           namespace == InjectedDefault("namespace", m.namespace)
           valid == validateMetricNamespace(m.namespace)
           listen == InjectedDefault("listen", m.listen)
           address == ValidateListenAddress(m.listen)
<1>1. /\ TrimSpace(m.name) # "" /\ TrimSpace(m.description) # "" /\ TrimSpace(m.feature) # ""
      /\ m.namespace \in Identifiers /\ m.listen \in Addresses
  BY MetadataGiven, Zenon
<1>2. TrimSpace(m.namespace) = m.namespace /\ m.namespace # ""
  <2>1. Identifiers \cap ({"", "."} \cup DOMAIN Padded) = {}
    BY TextsAssumption, Zenon
  <2>2. m.namespace \notin DOMAIN Padded /\ m.namespace # ""
    BY <1>1, <2>1, Zenon
  <2> QED
    BY <2>2, Zenon DEF TrimSpace
<1>3. TrimSpace(m.listen) # "" /\ m.listen # ""
  <2>1. \A text \in Addresses : text # "" /\ (text \in DOMAIN Padded => Padded[text] # "")
    BY TextsAssumption, Zenon
  <2> QED
    BY <1>1, <2>1, Zenon DEF TrimSpace
<1>4. name = "" /\ description = "" /\ feature = "" /\ namespace = "" /\ listen = ""
  BY <1>1, <1>2, <1>3, Zenon DEF InjectedDefault, Check
<1>5. valid = ""
  <2> DEFINE x == Check(TrimSpace(m.namespace) # "", "namespace is empty")
             y == Check(TrimSpace(m.namespace) = m.namespace, "namespace has white space around it")
             z == Check(m.namespace \in Identifiers, "namespace is no identifier")
  <2>1. x = "" /\ y = "" /\ z = ""
    BY <1>1, <1>2, Zenon DEF Check
  <2>2. valid = FirstError(<<x, y, z>>)
    BY Zenon DEF validateMetricNamespace
  <2> HIDE DEF x, y, z, valid
  <2> QED
    BY <2>1, <2>2, ThreeFine, Zenon
<1>6. address = ""
  <2> DEFINE x == Check(TrimSpace(m.listen) # "", "listen address is empty")
             y == Check(m.listen \in Addresses, "listen address is malformed")
  <2>1. x = "" /\ y = ""
    BY <1>1, <1>3, Zenon DEF Check
  <2>2. address = FirstError(<<x, y>>)
    BY Zenon DEF ValidateListenAddress
  <2> HIDE DEF x, y, address
  <2> QED
    BY <2>1, <2>2, TwoFine, Zenon
<1>7. Validate(m) = FirstError(<<name, description, feature, namespace, valid, listen, address>>)
  BY Zenon DEF Validate
<1>8. InjectedProjectMetadataErr(m)
        = FirstError(<<name, description, feature, namespace, listen, Validate(m)>>)
  BY Zenon DEF InjectedProjectMetadataErr
<1>9. InjectedFeatureName(m) = feature
  BY Zenon DEF InjectedFeatureName
<1> HIDE DEF name, description, feature, namespace, valid, listen, address
<1>10. Validate(m) = ""
  <2> DEFINE t == <<name, description, feature, namespace, valid, listen, address>>
  <2>1. /\ DOMAIN t = 1 .. 7 /\ t[1] = name /\ t[2] = description /\ t[3] = feature
        /\ t[4] = namespace /\ t[5] = valid /\ t[6] = listen /\ t[7] = address
    BY ONLY TRUE
  <2>2. \A i \in 1 .. 7 : i = 1 \/ i = 2 \/ i = 3 \/ i = 4 \/ i = 5 \/ i = 6 \/ i = 7
    BY ONLY TRUE
  <2> HIDE DEF t
  <2>3. \A i \in DOMAIN t : t[i] = ""
    BY <1>4, <1>5, <1>6, <2>1, <2>2, Zenon
  <2> QED
    BY <1>7, <2>3, AllFine, Zenon DEF t
<1>11. InjectedProjectMetadataErr(m) = ""
  <2> DEFINE v == Validate(m)
             t == <<name, description, feature, namespace, listen, v>>
  <2>1. /\ DOMAIN t = 1 .. 6 /\ t[1] = name /\ t[2] = description /\ t[3] = feature
        /\ t[4] = namespace /\ t[5] = listen /\ t[6] = v
    BY ONLY TRUE
  <2>2. \A i \in 1 .. 6 : i = 1 \/ i = 2 \/ i = 3 \/ i = 4 \/ i = 5 \/ i = 6
    BY ONLY TRUE
  <2> HIDE DEF t
  <2>3. \A i \in DOMAIN t : t[i] = ""
    BY <1>4, <1>10, <2>1, <2>2, Zenon
  <2> QED
    BY <1>8, <2>3, AllFine, Zenon DEF t
<1> QED
  BY <1>3, <1>4, <1>6, <1>9, <1>10, <1>11, Zenon DEF address

LEMMA AdapterPasses ==
  ASSUME NEW b \in Builds, Contracted(b)
  PROVE  Failures(RunInjectedAdapterContract(b)) = {}
<1> DEFINE m == b.project
           F == NewNamedFeature(b, m.feature)
           spec == SmokeSpec(F)
           info == ExporterInfoFromProjectMetadata(m, spec)
           success == StandardMetricInfo(m.namespace).LastCollectionSuccess
           tests == RunInjectedAdapterContract(b)
<1>1. F.name = m.feature
  BY ItsFeature, Zenon DEF NamedFeature
<1>2. Validate(m) = "" /\ ~SmokePanics(b.x)
  BY MetadataSound, HooksGiven, Zenon
<1>3. m = [name |-> m.name, description |-> m.description, feature |-> m.feature,
           namespace |-> m.namespace, listen |-> m.listen]
  BY MetadataTyped, Zenon
<1> HIDE DEF F, spec
<1>4. /\ info.name = m.name /\ info.description = m.description /\ info.feature = m.feature
      /\ info.namespace = m.namespace /\ info.listen = m.listen
      /\ info.metrics = StandardMetricInfo(m.namespace)
      /\ info.smoke.forbidden = {m.namespace} /\ info.smoke.args = spec.args
      /\ info.smoke.want = spec.want \cup {<<success, 1>>}
      /\ info.smoke.reject = spec.reject \cup {<<success, 0>>}
  BY Zenon DEF ExporterInfoFromProjectMetadata
<1> HIDE DEF info
<1>5. [name |-> info.name, description |-> info.description, feature |-> info.feature,
       namespace |-> info.namespace, listen |-> info.listen] = m
  BY <1>3, <1>4, Zenon
<1>6. /\ m.namespace \in info.smoke.forbidden /\ spec.args \subseteq info.smoke.args
      /\ <<info.metrics.LastCollectionSuccess, 1>> \in info.smoke.want
      /\ <<info.metrics.LastCollectionSuccess, 0>> \in info.smoke.reject
  BY <1>4, Zenon
<1>7. DOMAIN tests = {"creates_feature", "main_delegates", "reports_info"}
  BY DEF RunInjectedAdapterContract
<1>8. /\ tests["creates_feature"] <=> F.name = m.feature
      /\ tests["main_delegates"] <=> F.name = m.feature
      /\ tests["reports_info"] <=>
           /\ Validate(m) = "" /\ ~SmokePanics(b.x)
           /\ [name |-> info.name, description |-> info.description, feature |-> info.feature,
               namespace |-> info.namespace, listen |-> info.listen] = m
           /\ info.metrics = StandardMetricInfo(m.namespace)
           /\ m.namespace \in info.smoke.forbidden
           /\ <<info.metrics.LastCollectionSuccess, 1>> \in info.smoke.want
           /\ <<info.metrics.LastCollectionSuccess, 0>> \in info.smoke.reject
           /\ spec.args \subseteq info.smoke.args
  BY Zenon DEF RunInjectedAdapterContract, F, spec, info
<1> HIDE DEF tests
<1>9. \A t \in DOMAIN tests : tests[t]
  BY <1>1, <1>2, <1>4, <1>5, <1>6, <1>7, <1>8, Zenon
<1> QED
  BY <1>9, Zenon DEF Failures, tests

LEMMA SecondOfThree ==
  ASSUME NEW a, NEW b, NEW c, a = "", TrimSpace(b) = b, b # ""
  PROVE  FirstError(<<a, b, c>>) = b
<1> DEFINE t == <<a, b, c>>
           filled == {i \in DOMAIN t : TrimSpace(t[i]) # ""}
<1>1. DOMAIN t = 1 .. 3 /\ t[1] = a /\ t[2] = b
  BY ONLY TRUE
<1>2. TrimSpace(a) = ""
  BY Trimmed, Zenon
<1> HIDE DEF t
<1>3. \A i \in filled : i \in 1 .. 3 /\ i # 1
  BY <1>1, <1>2, Zenon
<1>4. 2 \in filled
  <2>1. 2 \in 1 .. 3
    BY ONLY TRUE
  <2> QED
    BY <1>1, <2>1, Zenon
<1>5. FirstError(t) = IF filled = {} THEN "" ELSE TrimSpace(t[Min(filled)])
  BY Zenon DEF FirstError, firstNonEmpty
<1> HIDE DEF filled
<1>6. \A i \in filled : 2 <= i
  BY ONLY <1>3
<1>7. \A x, y : x \in filled /\ y \in filled /\ (\A i \in filled : x <= i) /\ (\A i \in filled : y <= i)
                => x = y
  BY ONLY <1>3
<1>8. Min(filled) = 2
  BY <1>4, <1>6, <1>7, Zenon DEF Min
<1> QED
  BY <1>1, <1>4, <1>5, <1>8, Zenon DEF t

\* What the command line makes of the metadata of a good exporter: the name of its file, and
\* an error only for the path of the test.
LEMMA CommandLine ==
  ASSUME NEW b, Contracted(b), NEW base, NEW action, NEW path
  PROVE  LET cli == RunCLI(base, ConfigFromInjectedProject(b.project), "", action, path)
         IN /\ cli.usage = Or(ExecutableName(base, b.project.name), "exporter_framework")
            /\ action # "serve" => cli.error = ""
            /\ action = "serve" /\ path = "metrics" => cli.error = "telemetry path is invalid"
<1> DEFINE m == b.project
           c == ConfigFromInjectedProject(m)
           d == [c EXCEPT !.name = ExecutableName(base, c.name)]
           cfg == normalized(d)
           address == ValidateListenAddress(cfg.listen)
           none == ""
           parse == FirstError(<<address, none>>)
           metricsPath == Or(path, cfg.path)
           invalid == Check(metricsPath \in Paths, "telemetry path is invalid")
           namespace == validateMetricNamespace(cfg.namespace)
           start == FirstError(<<invalid, namespace>>)
           cli == RunCLI(base, c, "", action, path)
<1>1. cli = [usage |-> cfg.name, namespace |-> cfg.namespace,
             error |-> IF parse # "" \/ action # "serve" THEN parse ELSE start]
  BY Zenon DEF RunCLI
<1>2. c = [name |-> m.name, namespace |-> m.namespace, description |-> m.description,
           listen |-> m.listen, path |-> ""]
  BY Zenon DEF ConfigFromInjectedProject
<1> HIDE DEF c, cli
<1>3. c.name = m.name
  BY <1>2, Renamed, Zenon
<1>4. d.name = ExecutableName(base, m.name) /\ d.listen = m.listen
  BY <1>2, <1>3, Renamed, Zenon
<1> HIDE DEF d
<1>5. /\ cfg.name = Or(ExecutableName(base, m.name), "exporter_framework")
      /\ cfg.listen = Or(m.listen, ":9900")
  BY <1>4, Zenon DEF normalized
<1> HIDE DEF cfg
<1>6. address = ""
  BY <1>5, MetadataSound, Zenon DEF Or
<1> HIDE DEF address
<1>7. parse = ""
  BY <1>6, TwoFine, Zenon
<1>8. ASSUME path = "metrics" PROVE start = "telemetry path is invalid"
  <2>1. metricsPath = "metrics"
    BY <1>8, Zenon DEF Or
  <2>2. "metrics" \notin Paths
    BY TestsAssumption, Zenon
  <2>3. invalid = "telemetry path is invalid"
    BY <2>1, <2>2, Zenon DEF Check
  <2>4. TrimSpace(invalid) = invalid /\ invalid # ""
    BY <2>3, TextsAssumption, Zenon DEF TrimSpace
  <2> HIDE DEF invalid, namespace
  <2> QED
    BY <2>3, <2>4, FirstOfTwo, Zenon
<1> HIDE DEF parse, start
<1>9. /\ cli.usage = cfg.name
      /\ cli.error = IF parse # "" \/ action # "serve" THEN parse ELSE start
  BY <1>1, Zenon
<1> QED
  BY <1>5, <1>7, <1>8, <1>9, Zenon DEF cli, c

\* What is stamped is what is reported.
LEMMA StampReported ==
  ASSUME NEW vcs
  PROVE  HydrateVersionMetadata(SmokeVersion, vcs) = SmokeVersion
<1> DEFINE v == "v9.8.7"
           h == "smoke-branch"
           r == "abc123def"
           x == normalizeBuildVersion(vcs.version)
           y == normalizeComputedRevision(vcs.revision)
           s == SmokeVersion
           z == normalizeComputedRevision(Or(s.revision, "unknown"))
<1>1. TrimSpace(v) = v /\ TrimSpace(h) = h /\ TrimSpace(r) = r
  BY TestsAssumption, Zenon DEF TrimSpace
<1>2. s = [version |-> v, branch |-> h, revision |-> r]
  BY Zenon DEF SmokeVersion
<1>3. s.version = v /\ s.branch = h /\ s.revision = r
  BY <1>2, Zenon
<1>4. HydrateVersionMetadata(s, vcs) =
        [version |-> firstNonEmpty(<<s.version, x, "dev">>),
         branch |-> firstNonEmpty(<<s.branch, vcs.branch, "dev">>),
         revision |-> firstNonEmpty(<<s.revision, y, z, "dev">>)]
  BY Zenon DEF HydrateVersionMetadata, ResolveVersionMetadata
<1>5. v # "" /\ h # "" /\ r # ""
  BY Zenon
<1> HIDE DEF x, y, z, s, v, h, r
<1>6. Settled(v, v) /\ Settled(h, h) /\ Settled(r, r)
  BY <1>1, <1>5, Zenon DEF Settled
<1>7. /\ firstNonEmpty(<<v, x, "dev">>) = v /\ firstNonEmpty(<<h, vcs.branch, "dev">>) = h
      /\ firstNonEmpty(<<r, y, z, "dev">>) = r
  BY <1>6, FirstOfThree, FirstOfFour, Zenon
<1>8. HydrateVersionMetadata(s, vcs) = s
  BY <1>2, <1>3, <1>4, <1>7, Zenon
<1> QED
  BY <1>8 DEF s

\* What a process p of a good exporter shows that is given no flag but a path.
Shows(p, b, base, action, path) ==
  /\ p.usage = Or(ExecutableName(base, b.project.name), "exporter_framework")
  /\ p.version = SmokeVersion
  /\ action # "serve" => p.error = ""
  /\ action = "serve" /\ path = "metrics" => p.error = "telemetry path is invalid"

LEMMA ProcessOf ==
  ASSUME StringFacts, NEW b \in Builds, Contracted(b), NEW base, NEW action, NEW path
  PROVE  Shows(Process(b, base, action, <<>>, path), b, base, action, path)
<1> DEFINE none == <<>>
           m == b.project
           F == NewNamedFeature(b, m.feature)
           cli == RunCLI(base, ConfigFromInjectedProject(m), "", action, path)
           collectors == RegisterCollectors(ParseFlags(F, none), cli.namespace, b.disk,
                                            {StandardMetricInfo(cli.namespace).BuildInfo})
           last == IF action = "serve" THEN collectors ELSE ""
           injected == InjectedProjectMetadataErr(m)
           error == cli.error
           p == Process(b, base, action, none, path)
<1>1. m = b.linked /\ b.binary # "none" /\ b.stamp = SmokeVersion
  BY MetadataGiven, Zenon
<1>2. testBinary(b) = [metadata |-> m, stamp |-> SmokeVersion, vcs |-> b.vcs]
  BY <1>1, Zenon DEF testBinary
<1>3. testBinary(b).metadata = m /\ testBinary(b).stamp = SmokeVersion
  BY ONLY <1>2
<1>4. ParseError(F, none) = ""
  <2>1. F.name \in Texts /\ F.x = b.x
    BY ItsFeature, Zenon DEF NamedFeature
  <2>2. DOMAIN none = {}
    BY ONLY TRUE
  <2> HIDE DEF F, none
  <2> QED
    BY <2>1, <2>2, FlagsParsed, Zenon
<1> HIDE DEF none
<1>5. p = [usage |-> cli.usage, namespace |-> cli.namespace,
           error |-> FirstError(<<injected, error, last>>),
           version |-> HydrateVersionMetadata(testBinary(b).stamp, testBinary(b).vcs),
           collector |-> Collector(ParseFlags(F, none), cli.namespace)]
  BY <1>3, <1>4, Zenon DEF Process
<1>6. /\ cli.usage = Or(ExecutableName(base, m.name), "exporter_framework")
      /\ action # "serve" => error = ""
      /\ action = "serve" /\ path = "metrics" => error = "telemetry path is invalid"
  BY CommandLine, Zenon
<1>7. injected = ""
  BY MetadataSound, Zenon
<1> HIDE DEF p, cli, F, collectors
<1>8. /\ p.usage = cli.usage /\ p.error = FirstError(<<injected, error, last>>)
      /\ p.version = HydrateVersionMetadata(testBinary(b).stamp, testBinary(b).vcs)
  BY <1>5, Zenon
<1>9. p.version = SmokeVersion
  BY <1>3, <1>8, StampReported, Zenon
<1>10. ASSUME action # "serve" PROVE p.error = ""
  <2>1. error = "" /\ last = ""
    BY <1>6, <1>10, Zenon
  <2> HIDE DEF injected, error, last
  <2> QED
    BY <1>7, <1>8, <2>1, ThreeFine, Zenon
<1>11. ASSUME action = "serve", path = "metrics" PROVE p.error = "telemetry path is invalid"
  <2>1. error = "telemetry path is invalid"
    BY <1>6, <1>11, Zenon
  <2>2. TrimSpace(error) = error /\ error # ""
    BY <2>1, TextsAssumption, Zenon DEF TrimSpace
  <2> HIDE DEF injected, error, last
  <2>3. FirstError(<<injected, error, last>>) = error
    BY ONLY <1>7, <2>2, SecondOfThree, Zenon
  <2> QED
    BY <1>8, <2>1, <2>3, Zenon
<1> QED
  BY <1>6, <1>8, <1>9, <1>10, <1>11, Zenon DEF Shows, p, none

LEMMA BinaryPasses ==
  ASSUME StringFacts, NEW b \in Builds, Contracted(b)
  PROVE  Failures(RunBinary(b)) = {}
<1> DEFINE m == b.project
           renamed == Info(b).smoke.renamed
           forbidden == Info(b).smoke.forbidden
           path == Process(b, m.name, "serve", <<>>, "metrics")
           version == Process(b, m.name, "version", <<>>, "")
           named == Process(b, m.name, "help", <<>>, "")
           other == Process(b, renamed, "help", <<>>, "")
           tests == RunBinary(b)
<1>1. /\ m = b.tested /\ b.binary # "none" /\ b.base = m.name /\ TrimSpace(m.name) # ""
      /\ m.namespace # m.name
  BY MetadataGiven, Zenon
<1>2. BinaryName(b) = m.name
  BY <1>1, Zenon DEF BinaryName
<1>3. m.name # "" /\ Or(ExecutableName(m.name, m.name), "exporter_framework") = m.name
  BY <1>1, Trimmed, Zenon DEF ExecutableName, Or
<1>4. renamed = "renamed-" \o m.feature \o "-exporter" /\ forbidden = {m.namespace}
  BY <1>1, Zenon DEF Info, ExporterInfoFromProjectMetadata
<1>5. Or(ExecutableName(renamed, m.name), "exporter_framework") = renamed
  <2>1. renamed \notin {"", "."} \cup DOMAIN Padded
    BY <1>4, TestsAssumption, Zenon
  <2> HIDE DEF renamed
  <2>2. renamed # "" /\ renamed # "." /\ TrimSpace(renamed) = renamed
    BY <2>1, Zenon DEF TrimSpace
  <2> QED
    BY <2>2, Zenon DEF ExecutableName, Or
<1>6. /\ version.error = "" /\ version.version = SmokeVersion
      /\ named.error = "" /\ named.usage = m.name
      /\ other.error = "" /\ other.usage = renamed
      /\ path.error = "telemetry path is invalid"
  <2>1. version.version = SmokeVersion /\ version.error = ""
    <3>1. Shows(version, b, m.name, "version", "")
      BY ProcessOf, Zenon
    <3> QED
      BY <3>1, Zenon DEF Shows
  <2>2. named.error = "" /\ named.usage = Or(ExecutableName(m.name, m.name), "exporter_framework")
    <3>1. Shows(named, b, m.name, "help", "")
      BY ProcessOf, Zenon
    <3> QED
      BY <3>1, Zenon DEF Shows
  <2>3. other.error = "" /\ other.usage = Or(ExecutableName(renamed, m.name), "exporter_framework")
    <3>1. Shows(other, b, renamed, "help", "")
      BY ProcessOf, Zenon
    <3> QED
      BY <3>1, Zenon DEF Shows
  <2>4. path.error = "telemetry path is invalid"
    <3>1. Shows(path, b, m.name, "serve", "metrics")
      BY ProcessOf, Zenon
    <3> QED
      BY <3>1, Zenon DEF Shows
  <2> HIDE DEF version, named, other, path, renamed
  <2> QED
    BY <1>3, <1>5, <2>1, <2>2, <2>3, <2>4, Zenon
<1>7. DOMAIN tests = {"injected_version", "concrete_name", "file_name", "invalid_path"}
  BY DEF RunBinary
<1>8. /\ tests["injected_version"] <=> version.error = "" /\ version.version = SmokeVersion
      /\ tests["concrete_name"] <=> /\ named.error = "" /\ named.usage = b.tested.name
                                    /\ b.tested.name \notin forbidden
      /\ tests["file_name"] <=> other.error = "" /\ other.usage = renamed
      /\ tests["invalid_path"] <=> path.error = "telemetry path is invalid"
  BY <1>2, Zenon DEF RunBinary
<1> HIDE DEF tests, version, named, other, path, renamed, forbidden
<1>9. \A t \in DOMAIN tests : tests[t]
  BY <1>1, <1>4, <1>6, <1>7, <1>8, Zenon
<1> QED
  BY <1>9, Zenon DEF Failures, tests

\* What becomes of an exporter that keeps the contract: whatever helpers its feature combines
\* and whatever its intervals are, no test fails, and nothing panics.
LEMMA GoodOutcome ==
  ASSUME StringFacts, NEW b \in Builds, Contracted(b)
  PROVE  /\ ~Outcome(b).panics /\ Outcome(b).info = "info" /\ b.binary # "missing"
         /\ Outcome(b).adapter = {} /\ Outcome(b).suite = {} /\ Outcome(b).binary = {}
<1> DEFINE o == Outcome(b)
<1>1. /\ o.panics <=> Panics(b)
      /\ o.info = InfoErr(b) /\ o.adapter = Failures(RunInjectedAdapterContract(b))
      /\ o.suite = Failures(RunTests(b)) /\ o.binary = Failures(RunBinary(b))
  BY Zenon DEF Outcome
<1> HIDE DEF o
<1>2. b.tested = b.project /\ b.binary # "missing"
  BY MetadataGiven, Zenon
<1>3. InfoErr(b) = "info"
  BY <1>2, MetadataSound, HooksGiven, Zenon DEF InfoErr
<1> QED
  BY <1>1, <1>2, <1>3, NothingPanics, AdapterPasses, SuitePasses, BinaryPasses, Zenon DEF o

\* An exporter that keeps the contract fails no test but by the clock.
THEOREM GoodPasses ==
  ASSUME StringFacts
  PROVE  TestsSpec => []GoodExporterPasses
<1>1. TestsInit => build \in Builds
  BY DEF TestsInit
<1>2. build \in Builds /\ [TestsNext]_allVars => (build \in Builds)'
  BY BuildKept
<1>3. ASSUME build \in Builds, PassInv, SoundInv PROVE GoodExporterPasses
  <2> SUFFICES ASSUME Contracted(build) PROVE failed \subseteq Clocked
    BY DEF GoodExporterPasses, Clocked
  <2>1. outcome = Outcome(build)
    BY <1>3 DEF PassInv
  <2>2. Sound
    BY <1>3, <2>1, GoodOutcome, Zenon DEF Sound
  <2> QED
    BY <1>3, <2>2 DEF SoundInv
<1>4. TestsSpec => []SoundInv
  BY OnlyTheClock
<1> QED
  BY <1>1, <1>2, <1>3, <1>4, PassInit, PassStep, PTL DEF TestsSpec

=============================================================================
