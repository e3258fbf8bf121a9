------------------------- MODULE ExporterLifecycle -------------------------
(***************************************************************************)
(* One run of an exporter, from RunContext to the end of the process:      *)
(* exporter/internal/app/{server,registry,cli}.go and the batches of       *)
(* exporter/internal/feature/feature.go.  Features register their          *)
(* collectors in turn, the loops of startable collectors start, the server *)
(* serves, and a watcher goroutine turns the cancellation of the caller's  *)
(* context into Server.Shutdown.                                           *)
(*                                                                         *)
(* A collector is represented by its identity in the registry: two         *)
(* collectors with the same descriptors are one element of Collectors.     *)
(***************************************************************************)
EXTENDS Naturals, Sequences, FiniteSets, Functions

CONSTANTS
  Collectors,  \* registry identities of the features' collectors
  Base,        \* the identity of the framework's own collectors
  Nil,         \* a nil entry of a batch
  Plans,       \* the sequences of features to try; a feature is a record
               \*   [startable |-> BOOLEAN, batch |-> Seq(Collectors, Base or Nil)]
  Requests     \* HTTP requests

ASSUME LifecycleAssumption ==
  /\ Base \notin Collectors /\ Nil \notin Collectors \cup {Base}
  /\ Plans \subseteq Seq([startable : BOOLEAN, batch : Seq(Collectors \cup {Base, Nil})])

VARIABLES
  plan,        \* opts.Features
  pc,          \* where RunContext is
  result,      \* what it returned: "none", "nil" or the kind of its error
  feature,     \* index of the feature whose RegisterCollectors runs
  position,    \* index in its batch
  mine,        \* `registered` of the batch function: what it registered itself
  registered,  \* the registry
  running,     \* collectors whose background loop is alive
  cancelled,   \* the caller's context is done
  done,        \* the channel that tells the watcher that serving is over
  watcher,     \* the goroutine of listenAndServeContext
  server,      \* "new", "serving" or "closed"
  requests

registryVars == <<feature, position, mine, registered>>
serverVars   == <<done, watcher, server, requests>>
vars == <<plan, pc, result, registryVars, running, cancelled, serverVars>>

-----------------------------------------------------------------------------
(* RunContext up to the registry, and NewRegistryContext *)

Init ==
  /\ plan \in Plans
  /\ pc = "validate"
  /\ result = "none"
  /\ feature = 1
  /\ position = 1
  /\ mine = <<>>
  /\ registered = {}
  /\ running = {}
  /\ cancelled = FALSE
  /\ done = FALSE
  /\ watcher = "off"
  /\ server = "new"
  /\ requests = [r \in Requests |-> "idle"]

Fail(kind) == pc' = "returned" /\ result' = kind

\* The metrics path or the namespace is refused.
RejectOptions ==
  /\ pc = "validate"
  /\ Fail("options")
  /\ UNCHANGED <<plan, registryVars, running, cancelled, serverVars>>

NewRegistry ==
  /\ pc = "validate"
  /\ pc' = "feature"
  /\ registered' = {Base}
  /\ UNCHANGED <<plan, result, feature, position, mine, running, cancelled, serverVars>>

Batch == plan[feature].batch

\* The feature fails before it registers anything: its configuration, its
\* snapshotter or its collector factory returned an error.
FeatureFails ==
  /\ pc = "feature"
  /\ feature <= Len(plan)
  /\ Fail("feature")
  /\ UNCHANGED <<plan, registryVars, running, cancelled, serverVars>>

EnterFeature ==
  /\ pc = "feature"
  /\ feature <= Len(plan)
  /\ pc' = "register"
  /\ position' = 1
  /\ mine' = <<>>
  /\ UNCHANGED <<plan, result, feature, registered, running, cancelled, serverVars>>

SkipNil ==
  /\ pc = "register"
  /\ position <= Len(Batch)
  /\ Batch[position] = Nil
  /\ position' = position + 1
  /\ UNCHANGED <<plan, pc, result, feature, mine, registered, running, cancelled, serverVars>>

\* Variant: a startable collector starts as soon as it is registered itself.
RegisterAndStartAtOnce ==
  /\ pc = "register"
  /\ position <= Len(Batch)
  /\ Batch[position] \notin registered \cup {Nil}
  /\ registered' = registered \cup {Batch[position]}
  /\ mine' = Append(mine, Batch[position])
  /\ running' = IF plan[feature].startable THEN running \cup {Batch[position]} ELSE running
  /\ position' = position + 1
  /\ UNCHANGED <<plan, pc, result, feature, cancelled, serverVars>>

RegisterCollector ==
  /\ pc = "register"
  /\ position <= Len(Batch)
  /\ Batch[position] \notin registered \cup {Nil}
  /\ registered' = registered \cup {Batch[position]}
  /\ mine' = Append(mine, Batch[position])
  /\ position' = position + 1
  /\ UNCHANGED <<plan, pc, result, feature, running, cancelled, serverVars>>

\* Variant: a failed batch leaves in the registry what it had registered.
RollBackNothing ==
  /\ pc = "register"
  /\ position <= Len(Batch)
  /\ Batch[position] \in registered
  /\ Fail("register")
  /\ UNCHANGED <<plan, registryVars, running, cancelled, serverVars>>

\* The registry knows the collector already: the batch is taken back.
RollBack ==
  /\ pc = "register"
  /\ position <= Len(Batch)
  /\ Batch[position] \in registered
  /\ registered' = registered \ Range(mine)
  /\ Fail("register")
  /\ UNCHANGED <<plan, feature, position, mine, running, cancelled, serverVars>>

\* Variant: the feature is counted before and after its batch is started.
BatchRegisteredCounted ==
  /\ pc = "register"
  /\ position > Len(Batch)
  /\ pc' = IF plan[feature].startable THEN "start" ELSE "feature"
  /\ feature' = feature + 1
  /\ UNCHANGED <<plan, result, position, mine, registered, running, cancelled, serverVars>>

BatchRegistered ==
  /\ pc = "register"
  /\ position > Len(Batch)
  /\ pc' = IF plan[feature].startable THEN "start" ELSE "feature"
  /\ feature' = IF plan[feature].startable THEN feature ELSE feature + 1
  /\ UNCHANGED <<plan, result, position, mine, registered, running, cancelled, serverVars>>

\* Start of each collector of the batch, one after the other.
StartCollector ==
  /\ pc = "start"
  /\ mine # <<>>
  /\ running' = running \cup {Head(mine)}
  /\ mine' = Tail(mine)
  /\ UNCHANGED <<plan, pc, result, feature, position, registered, cancelled, serverVars>>

BatchStarted ==
  /\ pc = "start"
  /\ mine = <<>>
  /\ pc' = "feature"
  /\ feature' = feature + 1
  /\ UNCHANGED <<plan, result, position, mine, registered, running, cancelled, serverVars>>

\* Variant: collectors are started with a context of their own.
LoopEndsWithProcess(c) ==
  /\ c \in running
  /\ pc = "exited"
  /\ running' = running \ {c}
  /\ UNCHANGED <<plan, pc, result, registryVars, cancelled, serverVars>>

\* A loop ends when its context, the caller's, is done.
LoopEnds(c) ==
  /\ c \in running
  /\ cancelled
  /\ running' = running \ {c}
  /\ UNCHANGED <<plan, pc, result, registryVars, cancelled, serverVars>>

-----------------------------------------------------------------------------
(* listenAndServeContext *)

RegistryDone ==
  /\ pc = "feature"
  /\ feature > Len(plan)
  /\ pc' = "listen"
  /\ watcher' = "select"
  /\ UNCHANGED <<plan, result, registryVars, running, cancelled, done, server, requests>>

\* listenAndServe has returned: close(done), and an orderly end is no error.
Return(err) ==
  /\ pc' = "returned"
  /\ done' = TRUE
  /\ result' = IF err = "closed" /\ cancelled THEN "nil" ELSE err

ListenFails ==
  /\ pc = "listen"
  /\ Return("listen")
  /\ UNCHANGED <<plan, registryVars, running, cancelled, watcher, server, requests>>

\* Serve refuses a server that was shut down before it started.
Listen ==
  /\ pc = "listen"
  /\ server = "new"
  /\ server' = "serving"
  /\ pc' = "serve"
  /\ UNCHANGED <<plan, result, registryVars, running, cancelled, done, watcher, requests>>

ServeFails ==
  /\ pc = "serve"
  /\ server = "serving"
  /\ Return("serve")
  /\ server' = "failed"
  /\ UNCHANGED <<plan, registryVars, running, cancelled, watcher, requests>>

\* Serve returns ErrServerClosed as soon as Shutdown has closed the listeners.
ServerClosed ==
  /\ pc \in {"listen", "serve"}
  /\ server = "closed"
  /\ Return("closed")
  /\ UNCHANGED <<plan, registryVars, running, cancelled, watcher, server, requests>>

\* Variant: a server that does not serve yet is not shut down.
WatcherShutsDownServing ==
  /\ watcher = "select"
  /\ cancelled
  /\ watcher' = "draining"
  /\ server' = IF server = "serving" THEN "closed" ELSE server
  /\ UNCHANGED <<plan, pc, result, registryVars, running, cancelled, done, requests>>

WatcherShutsDown ==
  /\ watcher = "select"
  /\ cancelled
  /\ watcher' = "draining"
  /\ server' = "closed"
  /\ UNCHANGED <<plan, pc, result, registryVars, running, cancelled, done, requests>>

WatcherEnds ==
  /\ watcher = "select"
  /\ done
  /\ watcher' = "ended"
  /\ UNCHANGED <<plan, pc, result, registryVars, running, cancelled, done, server, requests>>

\* Shutdown returns when no request is in flight, or gives up after its timeout;
\* it leaves the requests alone then.
Drained ==
  /\ watcher = "draining"
  /\ \A r \in Requests : requests[r] # "active"
  /\ watcher' = "ended"
  /\ UNCHANGED <<plan, pc, result, registryVars, running, cancelled, done, server, requests>>

DrainTimesOut ==
  /\ watcher = "draining"
  /\ \E r \in Requests : requests[r] = "active"
  /\ watcher' = "gaveUp"
  /\ UNCHANGED <<plan, pc, result, registryVars, running, cancelled, done, server, requests>>

-----------------------------------------------------------------------------
(* Clients, the caller and the process *)

Accept(r) ==
  /\ server = "serving" /\ pc # "exited"
  /\ requests[r] = "idle"
  /\ requests' = [requests EXCEPT ![r] = "active"]
  /\ UNCHANGED <<plan, pc, result, registryVars, running, cancelled, done, watcher, server>>

Respond(r) ==
  /\ pc # "exited"
  /\ requests[r] = "active"
  /\ requests' = [requests EXCEPT ![r] = "served"]
  /\ UNCHANGED <<plan, pc, result, registryVars, running, cancelled, done, watcher, server>>

\* A signal, or the embedding program.
Cancel ==
  /\ ~cancelled
  /\ pc # "exited"
  /\ cancelled' = TRUE
  /\ UNCHANGED <<plan, pc, result, registryVars, running, serverVars>>

WatcherRuns == watcher \in {"select", "draining"}

\* main returns, or exits with the error: every goroutine is gone.  An embedding
\* program need not end.
Exit ==
  /\ pc = "returned"
  /\ pc' = "exited"
  /\ running' = {}
  /\ watcher' = IF WatcherRuns THEN "cut" ELSE watcher
  /\ requests' = [r \in Requests |-> IF requests[r] = "active" THEN "cut" ELSE requests[r]]
  /\ UNCHANGED <<plan, result, registryVars, cancelled, done, server>>

\* Nothing is left to do: not a deadlock.
Ended == pc = "exited" /\ UNCHANGED vars

-----------------------------------------------------------------------------
Progress ==
  \/ RejectOptions \/ NewRegistry
  \/ FeatureFails \/ EnterFeature \/ SkipNil \/ RegisterCollector \/ RollBack
  \/ BatchRegistered \/ StartCollector \/ BatchStarted
  \/ RegistryDone \/ ListenFails \/ Listen \/ ServerClosed

WatcherStep == WatcherShutsDown \/ WatcherEnds \/ Drained \/ DrainTimesOut

Next ==
  \/ Progress
  \/ ServeFails
  \/ WatcherStep
  \/ \E c \in Collectors : LoopEnds(c)
  \/ \E r \in Requests : Accept(r) \/ Respond(r)
  \/ Cancel
  \/ Exit
  \/ Ended

Spec == Init /\ [][Next]_vars

\* Goroutines that can run do run; serving need not fail, and a request may take
\* for ever.
FairSpec ==
  /\ Spec
  /\ WF_vars(Progress)
  /\ WF_vars(WatcherStep)
  /\ \A c \in Collectors : WF_vars(LoopEnds(c))

-----------------------------------------------------------------------------
(* Properties *)

TypeOK ==
  /\ plan \in Plans
  /\ pc \in {"validate", "feature", "register", "start", "listen", "serve",
             "returned", "exited"}
  /\ result \in {"none", "nil", "options", "feature", "register", "listen",
                 "serve", "closed"}
  /\ feature \in 1 .. Len(plan) + 1
  /\ position \in Nat
  /\ mine \in Seq(Collectors)
  /\ registered \subseteq Collectors \cup {Base}
  /\ running \subseteq Collectors
  /\ cancelled \in BOOLEAN
  /\ done \in BOOLEAN
  /\ watcher \in {"off", "select", "draining", "gaveUp", "ended", "cut"}
  /\ server \in {"new", "serving", "closed", "failed"}
  /\ requests \in [Requests -> {"idle", "active", "served", "cut"}]

Entries(f) == {plan[f].batch[i] : i \in 1 .. Len(plan[f].batch)} \ {Nil}

\* What the registry holds when n - 1 features have come through.
Before(n) == {Base} \cup UNION {Entries(f) : f \in 1 .. n - 1}

\* A batch is registered as a whole or not at all: once registration has ended,
\* well or not, the registry holds the framework's collectors and exactly those
\* of the features that came through, also when two features share a collector.
WholeBatches ==
  pc \in {"feature", "start", "listen", "serve"} \/ result \in {"feature", "register"} =>
    registered = Before(feature) \cup (IF pc = "start" THEN Entries(feature) ELSE {})

\* No loop runs for a collector that the registry does not hold: a batch whose
\* registration fails has started nothing.  And every startable collector of an
\* exporter that serves runs, until the caller cancels the context.
LoopsMatchRegistry ==
  /\ running \subseteq registered
  /\ pc = "serve" /\ ~cancelled =>
       \A f \in 1 .. Len(plan) : plan[f].startable => Entries(f) \subseteq running

\* The context is enough to stop an exporter, whenever it is cancelled and
\* whatever its requests do: RunContext returns.
CancelReturns == cancelled ~> pc \in {"returned", "exited"}

\* Nothing that RunContext started outlives the context: neither the watcher nor
\* a loop, also when RunContext failed half way.  The watcher does not outlive a
\* RunContext that returned by itself either.
NothingLeaks ==
  /\ <>cancelled => <>[](running = {} /\ ~WatcherRuns)
  /\ pc = "returned" ~> ~WatcherRuns

\* RunContext "shuts the HTTP server down cleanly": a request accepted before the
\* cancellation is answered, unless Shutdown gave up waiting for it.
CleanShutdown ==
  \A r \in Requests : requests[r] = "cut" /\ result = "nil" => watcher = "gaveUp"

-----------------------------------------------------------------------------
(* Why the registry and the loops are right *)

\* Where registration is, and what it has registered.
Registration ==
  /\ pc \notin {"returned", "exited"} => result = "none"
  /\ pc = "validate" => registered = {} /\ feature = 1
  /\ pc = "register" =>
       /\ feature <= Len(plan)
       /\ position \in 1 .. Len(Batch) + 1
       /\ Range(mine) = {Batch[i] : i \in 1 .. position - 1} \ {Nil}
       /\ Range(mine) \cap Before(feature) = {}
       /\ registered = Before(feature) \cup Range(mine)
  /\ pc = "start" =>
       /\ feature <= Len(plan)
       /\ Range(mine) \subseteq registered
  /\ pc \in {"listen", "serve"} => feature = Len(plan) + 1
  /\ WholeBatches

\* Loops run for features that came through, and for the batch that is being started.
Loops ==
  /\ running \subseteq IF pc = "register" THEN Before(feature) ELSE registered
  /\ ~cancelled /\ pc \notin {"returned", "exited"} =>
       /\ \A f \in 1 .. feature - 1 : plan[f].startable => Entries(f) \subseteq running
       /\ pc = "start" => Entries(feature) \subseteq running \cup Range(mine)

LifecycleInv == TypeOK /\ Registration /\ Loops

=============================================================================
