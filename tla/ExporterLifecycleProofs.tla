----------------------- MODULE ExporterLifecycleProofs -----------------------
(***************************************************************************)
(* For any features, with any batches and however many collectors they     *)
(* share: batches are registered whole or not at all, and loops run for    *)
(* registered collectors only, and for all startable ones while the        *)
(* exporter serves.                                                        *)
(*                                                                         *)
(* The invariant says what the registry holds at every point: what the     *)
(* features that came through brought, and what the batch under way has    *)
(* registered itself, which is disjoint from it, so that taking the batch  *)
(* back restores the registry.  No loop of the batch runs before it is     *)
(* registered whole.                                                       *)
(***************************************************************************)
EXTENDS ExporterLifecycle, TLAPS

-----------------------------------------------------------------------------
(* Lemmas about features and batches *)

\* One more feature brings its entries.
LEMMA BeforeNext ==
  ASSUME NEW n \in Nat \ {0}
  PROVE  Before(n + 1) = Before(n) \cup Entries(n)
<1>1. 1 .. (n + 1) - 1 = (1 .. n - 1) \cup {n}
  OBVIOUS
<1> QED
  BY <1>1 DEF Before

\* What features bring depends on the plan only, which never changes.
LEMMA SameFeatures ==
  ASSUME plan' = plan
  PROVE  /\ \A n : Before(n)' = Before(n)
         /\ \A f : Entries(f)' = Entries(f)
BY DEF Before, Entries

\* The features and their batches.
LEMMA PlanType ==
  ASSUME plan \in Plans
  PROVE  /\ plan \in Seq([startable : BOOLEAN, batch : Seq(Collectors \cup {Base, Nil})])
         /\ Len(plan) \in Nat
         /\ \A f \in 1 .. Len(plan) :
              /\ plan[f].batch \in Seq(Collectors \cup {Base, Nil})
              /\ Len(plan[f].batch) \in Nat
              /\ Entries(f) \subseteq Collectors \cup {Base}
<1>1. plan \in Seq([startable : BOOLEAN, batch : Seq(Collectors \cup {Base, Nil})])
  BY LifecycleAssumption
<1>2. Len(plan) \in Nat
  BY <1>1
<1>3. ASSUME NEW f \in 1 .. Len(plan)
      PROVE  /\ plan[f].batch \in Seq(Collectors \cup {Base, Nil})
             /\ Len(plan[f].batch) \in Nat
             /\ Entries(f) \subseteq Collectors \cup {Base}
  <2> DEFINE Features == [startable : BOOLEAN, batch : Seq(Collectors \cup {Base, Nil})]
  <2>1. plan[f] \in Features
    <3>1. plan \in Seq(Features)
      BY <1>1
    <3> HIDE DEF Features
    <3> QED
      BY <3>1
  <2>2. plan[f].batch \in Seq(Collectors \cup {Base, Nil})
    BY <2>1
  <2>3. \A i \in 1 .. Len(plan[f].batch) : plan[f].batch[i] \in Collectors \cup {Base, Nil}
    BY <2>2
  <2> QED
    BY <2>2, <2>3 DEF Entries
<1> QED
  BY <1>1, <1>2, <1>3

\* The elements of a sequence that grows or loses its head.
LEMMA RangeAppend ==
  ASSUME NEW seq \in Seq(Collectors), NEW c \in Collectors
  PROVE  Append(seq, c) \in Seq(Collectors) /\ Range(Append(seq, c)) = Range(seq) \cup {c}
<1>1. DOMAIN Append(seq, c) = (DOMAIN seq) \cup {Len(seq) + 1}
  OBVIOUS
<1>2. \A i \in DOMAIN seq : Append(seq, c)[i] = seq[i]
  OBVIOUS
<1>3. Append(seq, c)[Len(seq) + 1] = c
  OBVIOUS
<1> QED
  BY <1>1, <1>2, <1>3 DEF Range

LEMMA RangeTail ==
  ASSUME NEW seq \in Seq(Collectors), seq # <<>>
  PROVE  /\ Head(seq) \in Collectors /\ Tail(seq) \in Seq(Collectors)
         /\ Range(seq) = {Head(seq)} \cup Range(Tail(seq))
<1>1. Head(seq) = seq[1] /\ 1 \in DOMAIN seq
  OBVIOUS
<1>2. \A i \in DOMAIN Tail(seq) : Tail(seq)[i] = seq[i + 1] /\ i + 1 \in DOMAIN seq
  OBVIOUS
<1>3. ASSUME NEW i \in DOMAIN seq, i # 1
      PROVE  i - 1 \in DOMAIN Tail(seq) /\ Tail(seq)[i - 1] = seq[i]
  <2>1. i - 1 \in 1 .. Len(seq) - 1 /\ (i - 1) + 1 = i
    <3>1. i \in 1 .. Len(seq) /\ Len(seq) \in Nat
      OBVIOUS
    <3> QED
      BY <1>3, <3>1
  <2>2. DOMAIN Tail(seq) = 1 .. Len(seq) - 1
    OBVIOUS
  <2>3. Tail(seq)[i - 1] = seq[(i - 1) + 1]
    BY <2>1
  <2> QED
    BY <2>1, <2>2, <2>3
<1>4. Range(seq) \subseteq {Head(seq)} \cup Range(Tail(seq))
  BY <1>1, <1>3 DEF Range
<1>5. {Head(seq)} \cup Range(Tail(seq)) \subseteq Range(seq)
  BY <1>1, <1>2 DEF Range
<1> QED
  BY <1>1, <1>4, <1>5

-----------------------------------------------------------------------------
(* Registration *)

\* Nothing is registered and nothing runs at first.
LEMMA InitInv == Init => LifecycleInv
<1> SUFFICES ASSUME Init PROVE LifecycleInv
  OBVIOUS
<1>1. TypeOK
  <2>1. feature \in 1 .. Len(plan) + 1
    BY PlanType DEF Init
  <2>2. mine \in Seq(Collectors) /\ requests \in [Requests -> {"idle", "active", "served", "cut"}]
    BY DEF Init
  <2> QED
    BY <2>1, <2>2 DEF Init, TypeOK
<1>2. Registration /\ Loops
  BY DEF Init, Registration, Loops, WholeBatches
<1> QED
  BY <1>1, <1>2 DEF LifecycleInv

\* The watcher, the clients and the caller change neither registry nor loops.
LEMMA QuietInv ==
  ASSUME LifecycleInv, TypeOK', UNCHANGED <<plan, pc, result, registryVars, running>>,
         cancelled => cancelled'
  PROVE  LifecycleInv'
<1> USE DEF LifecycleInv, registryVars
<1>1. Registration'
  BY SameFeatures DEF Registration, WholeBatches, Batch
<1>2. Loops'
  BY SameFeatures DEF Loops
<1> QED
  BY <1>1, <1>2

\* RunContext returns for a reason other than registration.
LEMMA ReturnInv ==
  ASSUME LifecycleInv, TypeOK', UNCHANGED <<plan, registryVars, running, cancelled>>,
         pc' = "returned", result' \notin {"feature", "register"}, pc # "register"
  PROVE  LifecycleInv'
<1> USE DEF LifecycleInv, registryVars
<1>1. Registration'
  BY DEF Registration, WholeBatches
<1>2. Loops'
  BY SameFeatures DEF Loops
<1> QED
  BY <1>1, <1>2

\* The registry starts with the framework's own collectors.
LEMMA NewRegistryInv == LifecycleInv /\ NewRegistry => LifecycleInv'
<1> SUFFICES ASSUME LifecycleInv, NewRegistry PROVE LifecycleInv'
  OBVIOUS
<1> USE DEF LifecycleInv, NewRegistry, serverVars
<1>1. TypeOK'
  BY DEF TypeOK
<1>2. Before(1) = {Base}
  BY DEF Before
<1>3. Registration'
  BY <1>2, SameFeatures DEF Registration, WholeBatches
<1>4. Loops'
  BY SameFeatures DEF Loops, Registration
<1> QED
  BY <1>1, <1>3, <1>4

\* A feature that fails has registered nothing.
LEMMA FeatureFailsInv == LifecycleInv /\ FeatureFails => LifecycleInv'
<1> SUFFICES ASSUME LifecycleInv, FeatureFails PROVE LifecycleInv'
  OBVIOUS
<1> USE DEF LifecycleInv, FeatureFails, Fail, registryVars, serverVars
<1>1. TypeOK'
  BY DEF TypeOK
<1>2. Registration'
  BY SameFeatures DEF Registration, WholeBatches
<1>3. Loops'
  BY SameFeatures DEF Loops
<1> QED
  BY <1>1, <1>2, <1>3

\* A batch begins with nothing registered by itself.
LEMMA EnterFeatureInv == LifecycleInv /\ EnterFeature => LifecycleInv'
<1> SUFFICES ASSUME LifecycleInv, EnterFeature PROVE LifecycleInv'
  OBVIOUS
<1> USE DEF LifecycleInv, EnterFeature, serverVars
<1>1. TypeOK'
  BY DEF TypeOK
<1>2. feature \in 1 .. Len(plan)
  BY PlanType DEF TypeOK
<1>3. Len(Batch) \in Nat
  BY <1>2, PlanType DEF TypeOK, Batch
<1>4. Range(mine') = {}
  BY DEF Range
<1>5. Registration'
  BY <1>2, <1>3, <1>4, SameFeatures DEF Registration, WholeBatches, Batch
<1>6. Loops'
  BY SameFeatures DEF Loops, Registration, WholeBatches
<1> QED
  BY <1>1, <1>5, <1>6

\* A nil entry is passed over.
LEMMA SkipNilInv == LifecycleInv /\ SkipNil => LifecycleInv'
<1> SUFFICES ASSUME LifecycleInv, SkipNil PROVE LifecycleInv'
  OBVIOUS
<1> USE DEF LifecycleInv, SkipNil, serverVars
<1>1. TypeOK'
  BY DEF TypeOK
<1>2. feature \in 1 .. Len(plan) /\ Len(Batch) \in Nat /\ position \in 1 .. Len(Batch)
  BY PlanType DEF TypeOK, Registration, Batch
<1>3. 1 .. position' - 1 = (1 .. position - 1) \cup {position}
  BY <1>2
<1>4. {Batch[i] : i \in 1 .. position' - 1} \ {Nil} = {Batch[i] : i \in 1 .. position - 1} \ {Nil}
  BY <1>3
<1>5. Registration'
  BY <1>2, <1>4, SameFeatures DEF Registration, WholeBatches, Batch
<1>6. Loops'
  BY SameFeatures DEF Loops
<1> QED
  BY <1>1, <1>5, <1>6

\* A collector that is new to the registry is one of the batch's own.
LEMMA RegisterCollectorInv == LifecycleInv /\ RegisterCollector => LifecycleInv'
<1> SUFFICES ASSUME LifecycleInv, RegisterCollector PROVE LifecycleInv'
  OBVIOUS
<1> USE DEF LifecycleInv, RegisterCollector, serverVars
<1> DEFINE c == Batch[position]
<1>1. feature \in 1 .. Len(plan) /\ Len(Batch) \in Nat /\ position \in 1 .. Len(Batch)
  BY PlanType DEF TypeOK, Registration, Batch
<1>2. Batch \in Seq(Collectors \cup {Base, Nil})
  BY <1>1, PlanType DEF TypeOK, Batch
<1>3. Base \in registered
  BY DEF Registration, Before
<1>4. c \in Collectors /\ c # Nil
  BY <1>1, <1>2, <1>3
<1>5. mine' \in Seq(Collectors) /\ Range(mine') = Range(mine) \cup {c}
  BY <1>4, RangeAppend DEF TypeOK
<1>6. TypeOK'
  BY <1>4, <1>5 DEF TypeOK
<1>7. 1 .. position' - 1 = (1 .. position - 1) \cup {position}
  BY <1>1
<1>8. {Batch[i] : i \in 1 .. position' - 1} \ {Nil}
        = ({Batch[i] : i \in 1 .. position - 1} \ {Nil}) \cup {c}
  BY <1>4, <1>7
<1>9. Registration'
  BY <1>1, <1>5, <1>8, SameFeatures DEF Registration, WholeBatches, Batch
<1>10. Loops'
  BY SameFeatures DEF Loops
<1> QED
  BY <1>6, <1>9, <1>10

\* What a batch takes back is its own: the registry is as before.
LEMMA RollBackInv == LifecycleInv /\ RollBack => LifecycleInv'
<1> SUFFICES ASSUME LifecycleInv, RollBack PROVE LifecycleInv'
  OBVIOUS
<1> USE DEF LifecycleInv, RollBack, Fail, serverVars
<1>1. TypeOK'
  BY DEF TypeOK
<1>2. registered' = Before(feature)
  BY DEF Registration
<1>3. Registration'
  BY <1>2, SameFeatures DEF Registration, WholeBatches
<1>4. Loops'
  BY <1>2, SameFeatures DEF Loops
<1> QED
  BY <1>1, <1>3, <1>4

\* A batch that has come to its end has registered all its entries.
LEMMA BatchRegisteredInv == LifecycleInv /\ BatchRegistered => LifecycleInv'
<1> SUFFICES ASSUME LifecycleInv, BatchRegistered PROVE LifecycleInv'
  OBVIOUS
<1> USE DEF LifecycleInv, BatchRegistered, serverVars
<1>1. feature \in 1 .. Len(plan) /\ Len(plan) \in Nat /\ Len(Batch) \in Nat
  BY PlanType DEF TypeOK, Registration, Batch
<1>2. TypeOK'
  BY <1>1 DEF TypeOK
<1>3. position - 1 = Len(Batch)
  BY <1>1 DEF Registration, TypeOK
<1>4. Range(mine) = Entries(feature)
  BY <1>3 DEF Registration, Entries, Batch
<1>5. registered = Before(feature) \cup Entries(feature)
  BY <1>4 DEF Registration
<1>6. Before(feature + 1) = Before(feature) \cup Entries(feature)
  BY <1>1, BeforeNext
<1>7. Registration'
  BY <1>1, <1>4, <1>5, <1>6, SameFeatures DEF Registration, WholeBatches
<1>8. Loops'
  BY <1>1, <1>4, <1>5, SameFeatures DEF Loops
<1> QED
  BY <1>2, <1>7, <1>8

\* A collector that is started is in the registry.
LEMMA StartCollectorInv == LifecycleInv /\ StartCollector => LifecycleInv'
<1> SUFFICES ASSUME LifecycleInv, StartCollector PROVE LifecycleInv'
  OBVIOUS
<1> USE DEF LifecycleInv, StartCollector, serverVars
<1>1. /\ Head(mine) \in Collectors /\ mine' \in Seq(Collectors)
      /\ Range(mine) = {Head(mine)} \cup Range(mine')
  BY RangeTail DEF TypeOK
<1>2. TypeOK'
  BY <1>1 DEF TypeOK
<1>3. Registration'
  BY <1>1, SameFeatures DEF Registration, WholeBatches
<1>4. Loops'
  BY <1>1, SameFeatures DEF Loops, Registration
<1> QED
  BY <1>2, <1>3, <1>4

\* All collectors of the batch are started: the feature has come through.
LEMMA BatchStartedInv == LifecycleInv /\ BatchStarted => LifecycleInv'
<1> SUFFICES ASSUME LifecycleInv, BatchStarted PROVE LifecycleInv'
  OBVIOUS
<1> USE DEF LifecycleInv, BatchStarted, serverVars
<1>1. feature \in 1 .. Len(plan) /\ Len(plan) \in Nat
  BY PlanType DEF TypeOK, Registration
<1>2. TypeOK'
  BY <1>1 DEF TypeOK
<1>3. Before(feature + 1) = Before(feature) \cup Entries(feature)
  BY <1>1, BeforeNext
<1>4. Registration'
  BY <1>1, <1>3, SameFeatures DEF Registration, WholeBatches
<1>5. Range(mine) = {}
  BY DEF Range
<1>6. Loops'
  BY <1>1, <1>5, SameFeatures DEF Loops
<1> QED
  BY <1>2, <1>4, <1>6

\* A loop ends only after the caller has cancelled the context.
LEMMA LoopEndsInv ==
  ASSUME LifecycleInv, NEW c \in Collectors, LoopEnds(c)
  PROVE  LifecycleInv'
<1> USE DEF LifecycleInv, LoopEnds, registryVars, serverVars
<1>1. TypeOK'
  BY DEF TypeOK
<1>2. Registration'
  BY SameFeatures DEF Registration, WholeBatches, Batch
<1>3. Loops'
  BY SameFeatures DEF Loops
<1> QED
  BY <1>1, <1>2, <1>3

-----------------------------------------------------------------------------
(* Serving *)

\* Registration is over: every feature has come through.
LEMMA RegistryDoneInv == LifecycleInv /\ RegistryDone => LifecycleInv'
<1> SUFFICES ASSUME LifecycleInv, RegistryDone PROVE LifecycleInv'
  OBVIOUS
<1> USE DEF LifecycleInv, RegistryDone, registryVars
<1>1. TypeOK'
  BY DEF TypeOK
<1>2. feature = Len(plan) + 1
  BY PlanType DEF TypeOK
<1>3. Registration'
  BY <1>2, SameFeatures DEF Registration, WholeBatches
<1>4. Loops'
  BY SameFeatures DEF Loops
<1> QED
  BY <1>1, <1>3, <1>4

LEMMA ListenInv == LifecycleInv /\ Listen => LifecycleInv'
<1> SUFFICES ASSUME LifecycleInv, Listen PROVE LifecycleInv'
  OBVIOUS
<1> USE DEF LifecycleInv, Listen, registryVars
<1>1. TypeOK'
  BY DEF TypeOK
<1>2. Registration'
  BY SameFeatures DEF Registration, WholeBatches
<1>3. Loops'
  BY SameFeatures DEF Loops
<1> QED
  BY <1>1, <1>2, <1>3

\* The end of the process ends all loops, and leaves what was registered as it was.
LEMMA ExitInv == LifecycleInv /\ Exit => LifecycleInv'
<1> SUFFICES ASSUME LifecycleInv, Exit PROVE LifecycleInv'
  OBVIOUS
<1> USE DEF LifecycleInv, Exit, registryVars
<1>1. TypeOK'
  BY DEF TypeOK
<1>2. Registration'
  BY SameFeatures DEF Registration, WholeBatches
<1>3. Loops'
  BY DEF Loops
<1> QED
  BY <1>1, <1>2, <1>3

\* The invariant holds in all states.
THEOREM Invariance == Spec => []LifecycleInv
<1>1. LifecycleInv /\ [Next]_vars => LifecycleInv'
  <2> SUFFICES ASSUME LifecycleInv, [Next]_vars PROVE LifecycleInv'
    OBVIOUS
  <2>1. CASE RejectOptions \/ ListenFails \/ ServeFails \/ ServerClosed
    <3> USE <2>1 DEF RejectOptions, ListenFails, ServeFails, ServerClosed, Return, Fail,
                     registryVars, serverVars
    <3>1. TypeOK'
      BY DEF LifecycleInv, TypeOK
    <3> QED
      BY <3>1, ReturnInv
  <2>2. CASE WatcherStep \/ (\E r \in Requests : Accept(r) \/ Respond(r)) \/ Cancel
    <3> USE <2>2 DEF WatcherStep, WatcherShutsDown, WatcherEnds, Drained, DrainTimesOut,
                     Accept, Respond, Cancel, registryVars, serverVars
    <3>1. TypeOK'
      BY DEF LifecycleInv, TypeOK
    <3> QED
      BY <3>1, QuietInv
  <2>3. CASE Ended \/ UNCHANGED vars
    <3>1. TypeOK'
      BY <2>3 DEF LifecycleInv, TypeOK, Ended, vars, registryVars, serverVars
    <3> QED
      BY <2>3, <3>1, QuietInv DEF Ended, vars, registryVars, serverVars
  <2>4. CASE NewRegistry \/ FeatureFails \/ EnterFeature \/ SkipNil \/ RegisterCollector \/ RollBack
             \/ BatchRegistered \/ StartCollector \/ BatchStarted
    BY <2>4, NewRegistryInv, FeatureFailsInv, EnterFeatureInv, SkipNilInv, RegisterCollectorInv,
       RollBackInv, BatchRegisteredInv, StartCollectorInv, BatchStartedInv
  <2>5. CASE RegistryDone \/ Listen \/ Exit \/ \E c \in Collectors : LoopEnds(c)
    BY <2>5, RegistryDoneInv, ListenInv, ExitInv, LoopEndsInv
  <2> QED
    BY <2>1, <2>2, <2>3, <2>4, <2>5 DEF Next, Progress
<1> QED
  BY InitInv, <1>1, PTL DEF Spec

\* Whatever batches the features bring and whichever of them collide: the registry holds
\* whole batches only, and a batch that is taken back takes nothing else with it.
THEOREM BatchesWhole == Spec => []WholeBatches
<1>1. LifecycleInv => WholeBatches
  BY DEF LifecycleInv, Registration
<1> QED
  BY <1>1, Invariance, PTL

\* No loop runs for a collector that was taken back, and none is missing while the
\* exporter serves.
THEOREM LoopsMatch == Spec => []LoopsMatchRegistry
<1>1. LifecycleInv => LoopsMatchRegistry
  <2> SUFFICES ASSUME LifecycleInv PROVE LoopsMatchRegistry
    OBVIOUS
  <2> USE DEF LifecycleInv
  <2>1. running \subseteq registered
    BY DEF Registration, Loops
  <2>2. ASSUME pc = "serve", ~cancelled, NEW f \in 1 .. Len(plan), plan[f].startable
        PROVE  Entries(f) \subseteq running
    <3>1. f \in 1 .. feature - 1
      BY <2>2, PlanType DEF Registration, TypeOK
    <3> QED
      BY <2>2, <3>1 DEF Loops
  <2> QED
    BY <2>1, <2>2 DEF LoopsMatchRegistry
<1> QED
  BY <1>1, Invariance, PTL

=============================================================================
