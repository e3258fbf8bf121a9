---------------------- MODULE SnapshotCollectorProofs ----------------------
(* Theorems about SnapshotCollector, for every set of scrapes and loops, and *)
(* about its composition with the last-known-good values of a feature.      *)
EXTENDS SnapshotCollector, TLAPS

\* Types, and what makes a measured duration a time: starts lie in the past.
Typed == TypeOK /\ \A p \in Procs : startedAt[p] <= clock

LEMMA ObserveType ==
  ASSUME NEW h \in Histograms, NEW d \in Time
  PROVE  Observe(h, d) \in Histograms
  BY CollectorAssumption DEF Observe, Histograms, Time

LEMMA StoredType ==
  ASSUME TypeOK, NEW p \in Procs
  PROVE  Stored(p) \in States
<1>1. fetched[p] \in Fetches /\ cache \in States /\ now[p] \in Time
  BY DEF TypeOK
<1>2. /\ fetched[p].snapshot \in Snapshots
      /\ fetched[p].duration \in Time
      /\ cache.hist \in Histograms
      /\ cache.lastSuccessful \in Time
  BY <1>1 DEF Fetches, States
<1>3. Observe(cache.hist, fetched[p].duration) \in Histograms
  BY <1>2, ObserveType
<1>4. fetched[p].snapshot.stamp \in Time /\ fetched[p].snapshot.success \in BOOLEAN
  BY <1>2 DEF Snapshots
<1> QED
  BY <1>1, <1>2, <1>3, <1>4 DEF Stored, States, Statuses

LEMMA ZeroTypes ==
  /\ ZeroState \in States
  /\ ZeroFetch \in Fetches
<1>1. 0 \in Time
  BY CollectorAssumption DEF Time
<1>2. ZeroSnapshot \in Snapshots
  BY <1>1 DEF ZeroSnapshot, Snapshots
<1>3. NewHistogram \in Histograms
  BY DEF NewHistogram, Histograms
<1> QED
  BY <1>1, <1>2, <1>3 DEF ZeroState, States, Statuses, ZeroFetch, Fetches

LEMMA InitTyped == Init => Typed
<1> SUFFICES ASSUME Init PROVE Typed
  OBVIOUS
<1> USE DEF Init, Typed, TypeOK
<1>1. clock \in 1 .. MaxTime /\ 0 \in Time
  BY CollectorAssumption DEF Time
<1>2. "idle" \in ScrapeLabels /\ "idle" \in LoopLabels
  BY DEF ScrapeLabels, LoopLabels
<1>3. \A p \in Procs : startedAt[p] <= clock
  BY <1>1
<1> QED
  BY <1>1, <1>2, <1>3, ZeroTypes, CollectorAssumption DEF Procs

LEMMA NextTyped == Typed /\ [Next]_vars => Typed'
<1> SUFFICES ASSUME Typed, [Next]_vars PROVE Typed'
  OBVIOUS
<1> USE CollectorAssumption, ZeroTypes
<1> USE DEF Typed, TypeOK, Time, shared, local, Goto, Procs, ScrapeLabels, LoopLabels
<1>1. ASSUME NEW s \in Scrapes, Collect(s) PROVE Typed'
  BY <1>1 DEF Collect
<1>2. ASSUME NEW s \in Scrapes, ServeCached(s) PROVE Typed'
  BY <1>2 DEF ServeCached
<1>3. ASSUME NEW s \in Scrapes, WaitForRefresh(s) PROVE Typed'
  BY <1>3 DEF WaitForRefresh
<1>4. ASSUME NEW s \in Scrapes, WaitAgain(s) PROVE Typed'
  BY <1>4 DEF WaitAgain
<1>5. ASSUME NEW s \in Scrapes, Recheck(s) PROVE Typed'
  BY <1>5 DEF Recheck
<1>6. ASSUME NEW s \in Scrapes, BeginSync(s) PROVE Typed'
  BY <1>6 DEF BeginSync
<1>7. ASSUME NEW p \in Procs, Collected(p) PROVE Typed'
  <2>1. PICK success \in BOOLEAN, stamp \in Stamps :
          fetched' = [fetched EXCEPT ![p] =
            [snapshot |-> [by |-> p, success |-> success, stamp |-> stamp],
             duration |-> clock - startedAt[p]]]
    BY <1>7 DEF Collected
  <2>2. stamp \in Time /\ clock - startedAt[p] \in Time
    BY <1>7 DEF Stamps
  <2>3. [by |-> p, success |-> success, stamp |-> stamp] \in Snapshots
    BY <2>2 DEF Snapshots
  <2>4. fetched' \in [Procs -> Fetches]
    BY <2>1, <2>2, <2>3 DEF Fetches
  <2> QED
    BY <1>7, <2>4 DEF Collected
<1>8. ASSUME NEW s \in Scrapes, FinishSync(s) PROVE Typed'
  <2>1. cache' \in States
    BY <1>8, StoredType DEF FinishSync
  <2>2. /\ pc' \in [Procs -> ScrapeLabels \cup LoopLabels]
        /\ \A q \in Scrapes : pc'[q] \in ScrapeLabels
        /\ \A l \in Loops : pc'[l] \in LoopLabels
    BY <1>8 DEF FinishSync, Broadcast
  <2>4. /\ now' \in [Procs -> Time]
        /\ fetched' \in [Procs -> Fetches]
    BY <1>8 DEF FinishSync
  <2>5. reply' \in [Scrapes -> States]
    BY <1>8, <2>1 DEF FinishSync
  <2> QED
    BY <1>8, <2>1, <2>2, <2>4, <2>5 DEF FinishSync
<1>9. ASSUME NEW s \in Scrapes, Emit(s) PROVE Typed'
  BY <1>9 DEF Emit
<1>10. ASSUME NEW l \in Loops, Start(l) PROVE Typed'
  BY <1>10, ZenonT(30) DEF Start
<1>11. ASSUME NEW l \in Loops, EnterLoop(l) PROVE Typed'
  BY <1>11 DEF EnterLoop, Armed
<1>12. ASSUME NEW l \in Loops, BeginBackground(l) PROVE Typed'
  BY <1>12 DEF BeginBackground
<1>13. ASSUME NEW l \in Loops, SkipBackground(l) PROVE Typed'
  BY <1>13 DEF SkipBackground, Armed
<1>14. ASSUME NEW l \in Loops, FinishBackground(l) PROVE Typed'
  <2>1. cache' \in States
    BY <1>14, StoredType DEF FinishBackground
  <2>2. /\ pc' \in [Procs -> ScrapeLabels \cup LoopLabels]
        /\ \A s \in Scrapes : pc'[s] \in ScrapeLabels
        /\ \A m \in Loops : pc'[m] \in LoopLabels
    BY <1>14 DEF FinishBackground, Broadcast
  <2>3. due' \in [Loops -> Nat]
    BY <1>14 DEF FinishBackground, Armed
  <2>4. /\ now' \in [Procs -> Time]
        /\ fetched' \in [Procs -> Fetches]
    BY <1>14 DEF FinishBackground
  <2>5. reply' \in [Scrapes -> States]
    BY <1>14, <2>1 DEF FinishBackground
  <2> QED
    BY <1>14, <2>1, <2>2, <2>4, <2>5, <2>3 DEF FinishBackground
<1>15. ASSUME NEW l \in Loops, LoopTick(l) PROVE Typed'
  BY <1>15 DEF LoopTick
<1>16. ASSUME NEW l \in Loops, LoopExit(l) PROVE Typed'
  BY <1>16 DEF LoopExit
<1>17. ASSUME NEW l \in Loops, Cancel(l) PROVE Typed'
  BY <1>17 DEF Cancel
<1>18. CASE Tick
  BY <1>18 DEF Tick
<1>19. CASE UNCHANGED vars
  BY <1>19 DEF vars
<1> QED
  BY <1>1, <1>2, <1>3, <1>4, <1>5, <1>6, <1>7, <1>8, <1>9, <1>10, <1>11, <1>12,
     <1>13, <1>14, <1>15, <1>16, <1>17, <1>18, <1>19
     DEF Next, ScrapeStep, LoopStep, Quiescent

\* The protocol of the mutex, the refreshing flag and the condition variable.
Protocol == SingleFlight /\ NoLostWakeup /\ OneLoop

LEMMA InitProtocol == Init => Protocol
  BY DEF Init, Protocol, SingleFlight, NoLostWakeup, OneLoop, Refreshing, Running, Procs

LEMMA NextProtocol == Typed /\ Protocol /\ [Next]_vars => Protocol'
<1> SUFFICES ASSUME Typed, Protocol, [Next]_vars PROVE Protocol'
  OBVIOUS
<1>0. pc \in [Procs -> ScrapeLabels \cup LoopLabels]
  BY DEF Typed, TypeOK
<1> USE <1>0, CollectorAssumption
<1> USE DEF Protocol, SingleFlight, NoLostWakeup, OneLoop, Refreshing, Running,
            Procs, shared, local, Goto
<1>1. ASSUME NEW s \in Scrapes, Collect(s) PROVE Protocol'
  BY <1>1 DEF Collect
<1>2. ASSUME NEW s \in Scrapes, ServeCached(s) PROVE Protocol'
  BY <1>2 DEF ServeCached
<1>3. ASSUME NEW s \in Scrapes, WaitForRefresh(s) PROVE Protocol'
  BY <1>3 DEF WaitForRefresh
<1>4. ASSUME NEW s \in Scrapes, WaitAgain(s) PROVE Protocol'
  BY <1>4 DEF WaitAgain
<1>5. ASSUME NEW s \in Scrapes, Recheck(s) PROVE Protocol'
  BY <1>5 DEF Recheck
<1>6. ASSUME NEW s \in Scrapes, BeginSync(s) PROVE Protocol'
  BY <1>6 DEF BeginSync
<1>7. ASSUME NEW p \in Procs, Collected(p) PROVE Protocol'
  BY <1>7 DEF Collected
<1>8. ASSUME NEW s \in Scrapes, FinishSync(s) PROVE Protocol'
  BY <1>8 DEF FinishSync, Broadcast
<1>9. ASSUME NEW s \in Scrapes, Emit(s) PROVE Protocol'
  BY <1>9 DEF Emit
<1>10. ASSUME NEW l \in Loops, Start(l) PROVE Protocol'
  BY <1>10 DEF Start
<1>11. ASSUME NEW l \in Loops, EnterLoop(l) PROVE Protocol'
  BY <1>11 DEF EnterLoop
<1>12. ASSUME NEW l \in Loops, BeginBackground(l) PROVE Protocol'
  BY <1>12 DEF BeginBackground
<1>13. ASSUME NEW l \in Loops, SkipBackground(l) PROVE Protocol'
  BY <1>13 DEF SkipBackground
<1>14. ASSUME NEW l \in Loops, FinishBackground(l) PROVE Protocol'
  BY <1>14 DEF FinishBackground, Broadcast
<1>15. ASSUME NEW l \in Loops, LoopTick(l) PROVE Protocol'
  BY <1>15 DEF LoopTick
<1>16. ASSUME NEW l \in Loops, LoopExit(l) PROVE Protocol'
  BY <1>16 DEF LoopExit
<1>17. ASSUME NEW l \in Loops, Cancel(l) PROVE Protocol'
  BY <1>17 DEF Cancel
<1>18. CASE Tick
  BY <1>18 DEF Tick
<1>19. CASE UNCHANGED vars
  BY <1>19 DEF vars
<1> QED
  BY <1>1, <1>2, <1>3, <1>4, <1>5, <1>6, <1>7, <1>8, <1>9, <1>10, <1>11, <1>12,
     <1>13, <1>14, <1>15, <1>16, <1>17, <1>18, <1>19
     DEF Next, ScrapeStep, LoopStep, Quiescent

LEMMA InitClocks == Init => Clocks /\ Fetched
  BY CollectorAssumption
     DEF Init, Clocks, Fetched, Refreshing, InCurrentSnapshot, Procs

LEMMA NextClocks == Typed /\ Clocks /\ [Next]_vars => Clocks'
<1> SUFFICES ASSUME Typed, Clocks, [Next]_vars PROVE Clocks'
  OBVIOUS
<1>0. /\ clock \in Int /\ clock >= 1
      /\ pc \in [Procs -> ScrapeLabels \cup LoopLabels]
      /\ collectNow \in [Scrapes -> Int]
      /\ now \in [Procs -> Int]
      /\ startedAt \in [Procs -> Int]
  BY DEF Typed, TypeOK, Time
<1> USE <1>0, CollectorAssumption
<1> USE DEF Clocks, Refreshing, InCurrentSnapshot, Procs, shared, local, Goto
<1>1. ASSUME NEW s \in Scrapes, Collect(s) PROVE Clocks'
  BY <1>1 DEF Collect
<1>2. ASSUME NEW s \in Scrapes, ServeCached(s) PROVE Clocks'
  BY <1>2 DEF ServeCached
<1>3. ASSUME NEW s \in Scrapes, WaitForRefresh(s) PROVE Clocks'
  BY <1>3 DEF WaitForRefresh
<1>4. ASSUME NEW s \in Scrapes, WaitAgain(s) PROVE Clocks'
  BY <1>4 DEF WaitAgain
<1>5. ASSUME NEW s \in Scrapes, Recheck(s) PROVE Clocks'
  BY <1>5 DEF Recheck
<1>6. ASSUME NEW s \in Scrapes, BeginSync(s) PROVE Clocks'
  BY <1>6 DEF BeginSync
<1>7. ASSUME NEW p \in Procs, Collected(p) PROVE Clocks'
  BY <1>7 DEF Collected
<1>8. ASSUME NEW s \in Scrapes, FinishSync(s) PROVE Clocks'
  BY <1>8 DEF FinishSync, Broadcast
<1>9. ASSUME NEW s \in Scrapes, Emit(s) PROVE Clocks'
  BY <1>9 DEF Emit
<1>10. ASSUME NEW l \in Loops, Start(l) PROVE Clocks'
  BY <1>10 DEF Start
<1>11. ASSUME NEW l \in Loops, EnterLoop(l) PROVE Clocks'
  BY <1>11 DEF EnterLoop
<1>12. ASSUME NEW l \in Loops, BeginBackground(l) PROVE Clocks'
  BY <1>12 DEF BeginBackground
<1>13. ASSUME NEW l \in Loops, SkipBackground(l) PROVE Clocks'
  BY <1>13 DEF SkipBackground
<1>14. ASSUME NEW l \in Loops, FinishBackground(l) PROVE Clocks'
  BY <1>14 DEF FinishBackground, Broadcast
<1>15. ASSUME NEW l \in Loops, LoopTick(l) PROVE Clocks'
  BY <1>15 DEF LoopTick
<1>16. ASSUME NEW l \in Loops, LoopExit(l) PROVE Clocks'
  BY <1>16 DEF LoopExit
<1>17. ASSUME NEW l \in Loops, Cancel(l) PROVE Clocks'
  BY <1>17 DEF Cancel
<1>18. CASE Tick
  BY <1>18 DEF Tick
<1>19. CASE UNCHANGED vars
  BY <1>19 DEF vars
<1> QED
  BY <1>1, <1>2, <1>3, <1>4, <1>5, <1>6, <1>7, <1>8, <1>9, <1>10, <1>11, <1>12,
     <1>13, <1>14, <1>15, <1>16, <1>17, <1>18, <1>19
     DEF Next, ScrapeStep, LoopStep, Quiescent


LEMMA NextFetched == Typed /\ Fetched /\ [Next]_vars => Fetched'
<1> SUFFICES ASSUME Typed, Fetched, [Next]_vars PROVE Fetched'
  OBVIOUS
<1>0. /\ clock \in Int
      /\ pc \in [Procs -> ScrapeLabels \cup LoopLabels]
      /\ fetched \in [Procs -> Fetches]
  BY DEF Typed, TypeOK
<1> USE <1>0, CollectorAssumption
<1> USE DEF Fetched, Procs, Stamps, shared, local, Goto
<1>1. ASSUME NEW s \in Scrapes, Collect(s) PROVE Fetched'
  BY <1>1 DEF Collect
<1>2. ASSUME NEW s \in Scrapes, ServeCached(s) PROVE Fetched'
  BY <1>2 DEF ServeCached
<1>3. ASSUME NEW s \in Scrapes, WaitForRefresh(s) PROVE Fetched'
  BY <1>3 DEF WaitForRefresh
<1>4. ASSUME NEW s \in Scrapes, WaitAgain(s) PROVE Fetched'
  BY <1>4 DEF WaitAgain
<1>5. ASSUME NEW s \in Scrapes, Recheck(s) PROVE Fetched'
  BY <1>5 DEF Recheck
<1>6. ASSUME NEW s \in Scrapes, BeginSync(s) PROVE Fetched'
  BY <1>6 DEF BeginSync
<1>7. ASSUME NEW p \in Procs, Collected(p) PROVE Fetched'
  BY <1>7 DEF Collected
<1>8. ASSUME NEW s \in Scrapes, FinishSync(s) PROVE Fetched'
  BY <1>8 DEF FinishSync, Broadcast
<1>9. ASSUME NEW s \in Scrapes, Emit(s) PROVE Fetched'
  BY <1>9 DEF Emit
<1>10. ASSUME NEW l \in Loops, Start(l) PROVE Fetched'
  BY <1>10 DEF Start
<1>11. ASSUME NEW l \in Loops, EnterLoop(l) PROVE Fetched'
  BY <1>11 DEF EnterLoop
<1>12. ASSUME NEW l \in Loops, BeginBackground(l) PROVE Fetched'
  BY <1>12 DEF BeginBackground
<1>13. ASSUME NEW l \in Loops, SkipBackground(l) PROVE Fetched'
  BY <1>13 DEF SkipBackground
<1>14. ASSUME NEW l \in Loops, FinishBackground(l) PROVE Fetched'
  BY <1>14 DEF FinishBackground, Broadcast
<1>15. ASSUME NEW l \in Loops, LoopTick(l) PROVE Fetched'
  BY <1>15 DEF LoopTick
<1>16. ASSUME NEW l \in Loops, LoopExit(l) PROVE Fetched'
  BY <1>16 DEF LoopExit
<1>17. ASSUME NEW l \in Loops, Cancel(l) PROVE Fetched'
  BY <1>17 DEF Cancel
<1>18. CASE Tick
  BY <1>18 DEF Tick
<1>19. CASE UNCHANGED vars
  BY <1>19 DEF vars
<1> QED
  BY <1>1, <1>2, <1>3, <1>4, <1>5, <1>6, <1>7, <1>8, <1>9, <1>10, <1>11, <1>12,
     <1>13, <1>14, <1>15, <1>16, <1>17, <1>18, <1>19
     DEF Next, ScrapeStep, LoopStep, Quiescent

\* The histogram of a whole state, or of the zero state.
Consistent(h) ==
  /\ h.inf = h.count
  /\ \A b \in Bounds : h.le[b] <= h.count
  /\ \A a, b \in Bounds : a <= b => h.le[a] <= h.le[b]

LEMMA ObserveConsistent ==
  ASSUME NEW h \in Histograms, NEW d \in Time, Consistent(h)
  PROVE  Consistent(Observe(h, d)) /\ Observe(h, d).count > 0
<1> DEFINE g == Observe(h, d)
<1>1. /\ g.inf = g.count /\ g.count = h.count + 1 /\ h.count \in Nat
      /\ h.le \in [Bounds -> Nat]
      /\ \A b \in Bounds : g.le[b] = IF d <= b THEN h.le[b] + 1 ELSE h.le[b]
  BY DEF Observe, Histograms, Consistent
<1>2. \A b \in Bounds : g.le[b] <= g.count
  BY <1>1 DEF Consistent
<1>3. ASSUME NEW a \in Bounds, NEW b \in Bounds, a <= b
      PROVE  g.le[a] <= g.le[b]
  <2>1. a \in Int /\ b \in Int /\ d \in Int /\ h.le[a] \in Int /\ h.le[b] \in Int
    BY <1>1, CollectorAssumption DEF Time
  <2>2. h.le[a] <= h.le[b]
    BY <1>3 DEF Consistent
  <2>3. d <= a => d <= b
    BY <1>3, <2>1
  <2> QED
    BY <1>1, <2>1, <2>2, <2>3
<1> QED
  BY <1>1, <1>2, <1>3 DEF Consistent

LEMMA StoredWhole ==
  ASSUME Typed, Fetched, Contents, NEW p \in Procs, pc[p] = "store"
  PROVE  WholeState(Stored(p))
<1>1. cache.hist \in Histograms /\ fetched[p].duration \in Time
  BY DEF Typed, TypeOK, States, Fetches
<1>2. Consistent(cache.hist)
  <2>1. CASE initialized
    BY <2>1 DEF Contents, WholeState, Consistent
  <2>2. CASE ~initialized
    BY <2>2 DEF Contents, ZeroState, NewHistogram, Consistent
  <2> QED
    BY <2>1, <2>2
<1>3. Consistent(Stored(p).hist) /\ Stored(p).hist.count > 0
  BY <1>1, <1>2, ObserveConsistent DEF Stored
<1>4. /\ Stored(p).snapshot = fetched[p].snapshot
      /\ Stored(p).status.success = Stored(p).snapshot.success
      /\ Stored(p).snapshot.stamp # 0 =>
           Stored(p).status.attempt = Stored(p).snapshot.stamp
      /\ Stored(p).status.success =>
           Stored(p).lastSuccessful = Stored(p).status.attempt
  BY DEF Stored
<1>5. Stored(p).snapshot.by # Nobody
  BY <1>4, CollectorAssumption DEF Fetched
<1> QED
  BY <1>3, <1>4, <1>5 DEF WholeState, Consistent

LEMMA InitContents == Init => Contents
  BY DEF Init, Contents, RepliesWhole, Procs

LEMMA NextContents ==
  Typed /\ Fetched /\ Contents /\ [Next]_vars => Contents'
<1> SUFFICES ASSUME Typed, Fetched, Contents, [Next]_vars PROVE Contents'
  OBVIOUS
<1>0. /\ pc \in [Procs -> ScrapeLabels \cup LoopLabels]
      /\ reply \in [Scrapes -> States]
  BY DEF Typed, TypeOK
<1> DEFINE Filled == IF initialized THEN WholeState(cache) ELSE cache = ZeroState
<1>a. ASSUME UNCHANGED <<initialized, cache>> PROVE Filled'
  <2>1. WholeState(cache)' <=> WholeState(cache)
    BY <1>a DEF WholeState
  <2> QED
    BY <1>a, <2>1 DEF Contents
<1>b. ASSUME \A s \in Scrapes : pc'[s] = "emit" => pc[s] = "emit" /\ reply'[s] = reply[s]
      PROVE  RepliesWhole'
  BY <1>b DEF Contents, RepliesWhole, WholeState
<1> USE <1>0, CollectorAssumption
<1> USE DEF Procs, shared, local, Goto
<1>1. ASSUME NEW s \in Scrapes, Collect(s) PROVE Contents'
  <2>1. Filled'
    BY <1>1, <1>a DEF Collect
  <2>2. RepliesWhole'
    BY <1>1, <1>b DEF Collect
  <2> QED
    BY <2>1, <2>2 DEF Contents
<1>2. ASSUME NEW s \in Scrapes, ServeCached(s) PROVE Contents'
  <2>1. initialized /\ WholeState(cache)
    BY <1>2 DEF ServeCached, Servable, Contents
  <2>2. RepliesWhole'
    BY <1>2, <2>1 DEF ServeCached, Contents, RepliesWhole, WholeState
  <2>3. Filled'
    BY <1>2, <1>a DEF ServeCached
  <2> QED
    BY <2>2, <2>3 DEF Contents
<1>3. ASSUME NEW s \in Scrapes, WaitForRefresh(s) PROVE Contents'
  <2>1. Filled'
    BY <1>3, <1>a DEF WaitForRefresh
  <2>2. RepliesWhole'
    BY <1>3, <1>b DEF WaitForRefresh
  <2> QED
    BY <2>1, <2>2 DEF Contents
<1>4. ASSUME NEW s \in Scrapes, WaitAgain(s) PROVE Contents'
  <2>1. Filled'
    BY <1>4, <1>a DEF WaitAgain
  <2>2. RepliesWhole'
    BY <1>4, <1>b DEF WaitAgain
  <2> QED
    BY <2>1, <2>2 DEF Contents
<1>5. ASSUME NEW s \in Scrapes, Recheck(s) PROVE Contents'
  <2>1. Filled'
    BY <1>5, <1>a DEF Recheck
  <2>2. RepliesWhole'
    BY <1>5, <1>b DEF Recheck
  <2> QED
    BY <2>1, <2>2 DEF Contents
<1>6. ASSUME NEW s \in Scrapes, BeginSync(s) PROVE Contents'
  <2>1. Filled'
    BY <1>6, <1>a DEF BeginSync
  <2>2. RepliesWhole'
    BY <1>6, <1>b DEF BeginSync
  <2> QED
    BY <2>1, <2>2 DEF Contents
<1>7. ASSUME NEW p \in Procs, Collected(p) PROVE Contents'
  <2>1. Filled'
    BY <1>7, <1>a DEF Collected
  <2>2. RepliesWhole'
    BY <1>7, <1>b DEF Collected
  <2> QED
    BY <2>1, <2>2 DEF Contents
<1>8. ASSUME NEW s \in Scrapes, FinishSync(s) PROVE Contents'
  <2>1. WholeState(Stored(s)) /\ cache' = Stored(s) /\ initialized'
    BY <1>8, StoredWhole DEF FinishSync
  <2>2. Filled'
    BY <2>1 DEF WholeState
  <2>3. reply'[s] = Stored(s)
    BY <1>8 DEF FinishSync
  <2>4. \A r \in Scrapes \ {s} : pc'[r] = "emit" => pc[r] = "emit" /\ reply'[r] = reply[r]
    BY <1>8 DEF FinishSync, Broadcast
  <2>5. RepliesWhole'
    BY <2>1, <2>3, <2>4 DEF Contents, RepliesWhole, WholeState
  <2> QED
    BY <2>2, <2>5 DEF Contents
<1>9. ASSUME NEW s \in Scrapes, Emit(s) PROVE Contents'
  <2>1. Filled'
    BY <1>9, <1>a DEF Emit
  <2>2. RepliesWhole'
    BY <1>9, <1>b DEF Emit
  <2> QED
    BY <2>1, <2>2 DEF Contents
<1>10. ASSUME NEW l \in Loops, Start(l) PROVE Contents'
  <2>1. Filled'
    BY <1>10, <1>a DEF Start
  <2>2. RepliesWhole'
    BY <1>10, <1>b DEF Start
  <2> QED
    BY <2>1, <2>2 DEF Contents
<1>11. ASSUME NEW l \in Loops, EnterLoop(l) PROVE Contents'
  <2>1. Filled'
    BY <1>11, <1>a DEF EnterLoop
  <2>2. RepliesWhole'
    BY <1>11, <1>b DEF EnterLoop
  <2> QED
    BY <2>1, <2>2 DEF Contents
<1>12. ASSUME NEW l \in Loops, BeginBackground(l) PROVE Contents'
  <2>1. Filled'
    BY <1>12, <1>a DEF BeginBackground
  <2>2. RepliesWhole'
    BY <1>12, <1>b DEF BeginBackground
  <2> QED
    BY <2>1, <2>2 DEF Contents
<1>13. ASSUME NEW l \in Loops, SkipBackground(l) PROVE Contents'
  <2>1. Filled'
    BY <1>13, <1>a DEF SkipBackground
  <2>2. RepliesWhole'
    BY <1>13, <1>b DEF SkipBackground
  <2> QED
    BY <2>1, <2>2 DEF Contents
<1>14. ASSUME NEW l \in Loops, FinishBackground(l) PROVE Contents'
  <2>1. WholeState(Stored(l)) /\ cache' = Stored(l) /\ initialized'
    BY <1>14, StoredWhole DEF FinishBackground
  <2>2. Filled'
    BY <2>1 DEF WholeState
  <2>3. RepliesWhole'
    BY <1>14, <1>b DEF FinishBackground, Broadcast
  <2> QED
    BY <2>2, <2>3 DEF Contents
<1>15. ASSUME NEW l \in Loops, LoopTick(l) PROVE Contents'
  <2>1. Filled'
    BY <1>15, <1>a DEF LoopTick
  <2>2. RepliesWhole'
    BY <1>15, <1>b DEF LoopTick
  <2> QED
    BY <2>1, <2>2 DEF Contents
<1>16. ASSUME NEW l \in Loops, LoopExit(l) PROVE Contents'
  <2>1. Filled'
    BY <1>16, <1>a DEF LoopExit
  <2>2. RepliesWhole'
    BY <1>16, <1>b DEF LoopExit
  <2> QED
    BY <2>1, <2>2 DEF Contents
<1>17. ASSUME NEW l \in Loops, Cancel(l) PROVE Contents'
  <2>1. Filled'
    BY <1>17, <1>a DEF Cancel
  <2>2. RepliesWhole'
    BY <1>17, <1>b DEF Cancel
  <2> QED
    BY <2>1, <2>2 DEF Contents
<1>18. CASE Tick
  <2>1. Filled' /\ RepliesWhole'
    BY <1>18, <1>a, <1>b DEF Tick
  <2> QED
    BY <2>1 DEF Contents
<1>19. CASE UNCHANGED vars
  <2>1. Filled' /\ RepliesWhole'
    BY <1>19, <1>a, <1>b DEF vars
  <2> QED
    BY <2>1 DEF Contents
<1> QED
  BY <1>1, <1>2, <1>3, <1>4, <1>5, <1>6, <1>7, <1>8, <1>9, <1>10, <1>11, <1>12,
     <1>13, <1>14, <1>15, <1>16, <1>17, <1>18, <1>19
     DEF Next, ScrapeStep, LoopStep, Quiescent


-----------------------------------------------------------------------------
\* Every step preserves the inductive invariant, so it holds throughout: one
\* collection at a time, no lost wakeup, at most one loop, whole states only.
THEOREM Invariance == Spec => []CollectorInv
<1> DEFINE Inv == Typed /\ Protocol /\ Clocks /\ Fetched /\ Contents
<1>1. Init => Inv
  BY InitTyped, InitProtocol, InitClocks, InitContents
<1>2. Inv /\ [Next]_vars => Inv'
  BY NextTyped, NextProtocol, NextClocks, NextFetched, NextContents
<1>3. Inv => CollectorInv
  BY DEF Typed, Protocol, CollectorInv
<1> HIDE DEF Inv
<1> QED
  BY <1>1, <1>2, <1>3, PTL DEF Spec

\* The variables of the collector keep their types.
THEOREM TypeCorrect == Spec => []TypeOK
<1>1. CollectorInv => TypeOK
  BY DEF CollectorInv
<1> QED
  BY <1>1, Invariance, PTL

\* Scrapes and loops never collect at the same time.
THEOREM OneCollection == Spec => []SingleFlight
<1>1. CollectorInv => SingleFlight
  BY DEF CollectorInv
<1> QED
  BY <1>1, Invariance, PTL

\* A scrape never waits for a broadcast that is already over.
THEOREM NoMissedBroadcast == Spec => []NoLostWakeup
<1>1. CollectorInv => NoLostWakeup
  BY DEF CollectorInv
<1> QED
  BY <1>1, Invariance, PTL

\* Concurrent Start calls never leave two loops, and backgroundStarted is exact.
THEOREM AtMostOneLoop == Spec => []OneLoop
<1>1. CollectorInv => OneLoop
  BY DEF CollectorInv
<1> QED
  BY <1>1, Invariance, PTL

\* No scrape emits the zero state or parts of two states.
THEOREM WholeReplies == Spec => []RepliesWhole
<1>1. CollectorInv => RepliesWhole
  BY DEF CollectorInv, Contents
<1> QED
  BY <1>1, Invariance, PTL

-----------------------------------------------------------------------------
(* Freshness *)

LEMMA NextFresh ==
  CollectorInv /\ FreshWithoutLoop /\ [Next]_vars => FreshWithoutLoop'
<1> SUFFICES ASSUME CollectorInv, FreshWithoutLoop, [Next]_vars,
                    \A l \in Loops : pc'[l] = "idle"
             PROVE  \A s \in Scrapes : pc'[s] = "emit" =>
                      \/ reply'[s].snapshot.by = s
                      \/ collectNow'[s] - reply'[s].status.attempt < RefreshInterval
  BY DEF FreshWithoutLoop
<1> DEFINE Fresh(s) ==
      \/ reply[s].snapshot.by = s
      \/ collectNow[s] - reply[s].status.attempt < RefreshInterval
<1> DEFINE Goal == \A s \in Scrapes : pc'[s] = "emit" => Fresh(s)'
<1>0. /\ pc \in [Procs -> ScrapeLabels \cup LoopLabels]
      /\ reply \in [Scrapes -> States]
      /\ collectNow \in [Scrapes -> Time]
      /\ now \in [Procs -> Time]
      /\ cache \in States
  BY DEF CollectorInv, TypeOK
<1>a. ASSUME \A l \in Loops : pc[l] = "idle", NEW q \in Scrapes,
             pc[q] = "emit", UNCHANGED <<reply[q], collectNow[q]>>
      PROVE  Fresh(q)'
  BY <1>a DEF FreshWithoutLoop
<1> USE <1>0, CollectorAssumption
<1> USE DEF Procs, shared, local, Goto
<1>1. ASSUME NEW s \in Scrapes, Collect(s) PROVE Goal
  BY <1>1, <1>a DEF Collect
<1>2. ASSUME NEW s \in Scrapes, ServeCached(s) PROVE Goal
  <2>1. \A l \in Loops : pc[l] = "idle"
    BY <1>2 DEF ServeCached
  <2>2. ~backgroundStarted
    BY <2>1 DEF CollectorInv, OneLoop, Running
  <2>3. now[s] - cache.status.attempt < RefreshInterval
    BY <1>2, <2>2 DEF ServeCached, Servable
  <2>4. collectNow[s] <= now[s]
    BY <1>2 DEF ServeCached, CollectorInv, Clocks, InCurrentSnapshot
  <2>5. collectNow[s] \in Int /\ now[s] \in Int /\ cache.status.attempt \in Int
    BY DEF States, Statuses, Time
  <2>6. collectNow[s] - cache.status.attempt < RefreshInterval
    BY <2>3, <2>4, <2>5
  <2>7. Fresh(s)'
    BY <1>2, <2>6 DEF ServeCached
  <2>8. \A q \in Scrapes \ {s} : pc'[q] = "emit" => Fresh(q)'
    BY <1>2, <2>1, <1>a DEF ServeCached
  <2> QED
    BY <2>7, <2>8
<1>3. ASSUME NEW s \in Scrapes, WaitForRefresh(s) PROVE Goal
  BY <1>3, <1>a DEF WaitForRefresh
<1>4. ASSUME NEW s \in Scrapes, WaitAgain(s) PROVE Goal
  BY <1>4, <1>a DEF WaitAgain
<1>5. ASSUME NEW s \in Scrapes, Recheck(s) PROVE Goal
  BY <1>5, <1>a DEF Recheck
<1>6. ASSUME NEW s \in Scrapes, BeginSync(s) PROVE Goal
  BY <1>6, <1>a DEF BeginSync
<1>7. ASSUME NEW p \in Procs, Collected(p) PROVE Goal
  BY <1>7, <1>a DEF Collected
<1>8. ASSUME NEW s \in Scrapes, FinishSync(s) PROVE Goal
  <2>1. \A l \in Loops : pc[l] = "idle"
    BY <1>8 DEF FinishSync, Broadcast
  <2>2. reply'[s].snapshot.by = s
    BY <1>8 DEF FinishSync, Stored, CollectorInv, Fetched
  <2>3. \A q \in Scrapes \ {s} : pc'[q] = "emit" => Fresh(q)'
    BY <1>8, <2>1, <1>a DEF FinishSync, Broadcast
  <2> QED
    BY <2>2, <2>3
<1>9. ASSUME NEW s \in Scrapes, Emit(s) PROVE Goal
  BY <1>9, <1>a DEF Emit
<1>10. ASSUME NEW l \in Loops, Start(l) PROVE Goal
  BY <1>10, <1>a DEF Start
<1>11. ASSUME NEW l \in Loops, EnterLoop(l) PROVE Goal
  BY <1>11, <1>a DEF EnterLoop
<1>12. ASSUME NEW l \in Loops, BeginBackground(l) PROVE Goal
  BY <1>12, <1>a DEF BeginBackground
<1>13. ASSUME NEW l \in Loops, SkipBackground(l) PROVE Goal
  BY <1>13, <1>a DEF SkipBackground
<1>14. ASSUME NEW l \in Loops, FinishBackground(l) PROVE Goal
  BY <1>14, <1>a DEF FinishBackground, Broadcast
<1>15. ASSUME NEW l \in Loops, LoopTick(l) PROVE Goal
  BY <1>15, <1>a DEF LoopTick
<1>16. ASSUME NEW l \in Loops, LoopExit(l) PROVE Goal
  BY <1>16, <1>a DEF LoopExit
<1>17. ASSUME NEW l \in Loops, Cancel(l) PROVE Goal
  BY <1>17, <1>a DEF Cancel
<1>18. CASE Tick
  BY <1>18, <1>a DEF Tick
<1>19. CASE UNCHANGED vars
  BY <1>19, <1>a DEF vars
<1> QED
  BY <1>1, <1>2, <1>3, <1>4, <1>5, <1>6, <1>7, <1>8, <1>9, <1>10, <1>11, <1>12,
     <1>13, <1>14, <1>15, <1>16, <1>17, <1>18, <1>19
     DEF Next, ScrapeStep, LoopStep, Quiescent


\* Where no loop was started, a scrape is answered by its own collection or by one
\* that was fresh when it arrived, also when it had to wait in between.
THEOREM Freshness == Spec => []FreshWithoutLoop
<1>1. Init => FreshWithoutLoop
  BY DEF Init, FreshWithoutLoop, Procs
<1> QED
  BY <1>1, NextFresh, Invariance, PTL DEF Spec

-----------------------------------------------------------------------------
(* Attempt times, where StatusFunc leaves them to the collector *)

\* How the clocks of refreshes under way relate to the stored attempt time.  A
\* scrape that refreshes a filled cache began before any loop that now runs; from
\* the second snapshot on, nobody refreshes with an older clock than the stored one.
Dated ==
  /\ cache.status.attempt <= clock
  /\ \A s \in Scrapes, l \in Loops :
       initialized /\ Refreshing(s) /\ pc[l] = "begin" => now[s] <= now[l]
  /\ cache.hist.count > 1 =>
       \A p \in Procs :
         Refreshing(p) \/ pc[p] = "begin" => cache.status.attempt <= now[p]

LEMMA StoredDate ==
  ASSUME ~OwnStamps, CollectorInv, NEW p \in Procs, pc[p] = "store"
  PROVE  /\ Stored(p).status.attempt = now[p]
         /\ Stored(p).hist.count = cache.hist.count + 1
  BY DEF CollectorInv, Fetched, Stored, Observe, Stamps

LEMMA NextDated ==
  ~OwnStamps /\ CollectorInv /\ Dated /\ [Next]_vars => Dated'
<1> SUFFICES ASSUME ~OwnStamps, CollectorInv, Dated, [Next]_vars PROVE Dated'
  OBVIOUS
<1>0. /\ pc \in [Procs -> ScrapeLabels \cup LoopLabels]
      /\ \A s \in Scrapes : pc[s] \in ScrapeLabels
      /\ now \in [Procs -> Int]
      /\ clock \in Int
      /\ cache.status.attempt \in Int
      /\ cache.hist.count \in Nat
      /\ \A p \in Procs : now[p] <= clock
  BY DEF CollectorInv, TypeOK, Time, Clocks, States, Statuses, Histograms
<1>b. cache.hist.count > 0 <=> initialized
  BY DEF CollectorInv, Contents, WholeState, ZeroState, NewHistogram
<1>c. /\ \A p, q \in Procs : Refreshing(p) /\ Refreshing(q) => p = q
      /\ refreshing <=> \E p \in Procs : Refreshing(p)
      /\ backgroundStarted <=> \E l \in Loops : Running(l)
      /\ \A l, m \in Loops : Running(l) /\ Running(m) => l = m
  BY DEF CollectorInv, SingleFlight, OneLoop
<1> USE <1>0, <1>b, <1>c, CollectorAssumption
<1> USE DEF Dated, Refreshing, Running, Procs, shared, local, Goto, ScrapeLabels
<1>1. ASSUME NEW s \in Scrapes, Collect(s) PROVE Dated'
  BY <1>1 DEF Collect
<1>2. ASSUME NEW s \in Scrapes, ServeCached(s) PROVE Dated'
  BY <1>2 DEF ServeCached
<1>3. ASSUME NEW s \in Scrapes, WaitForRefresh(s) PROVE Dated'
  BY <1>3 DEF WaitForRefresh
<1>4. ASSUME NEW s \in Scrapes, WaitAgain(s) PROVE Dated'
  BY <1>4 DEF WaitAgain
<1>5. ASSUME NEW s \in Scrapes, Recheck(s) PROVE Dated'
  BY <1>5 DEF Recheck
<1>6. ASSUME NEW s \in Scrapes, BeginSync(s) PROVE Dated'
  BY <1>6 DEF BeginSync, Servable
<1>7. ASSUME NEW p \in Procs, Collected(p) PROVE Dated'
  BY <1>7 DEF Collected
<1>8. ASSUME NEW s \in Scrapes, FinishSync(s) PROVE Dated'
  BY <1>8, StoredDate DEF FinishSync, Broadcast
<1>9. ASSUME NEW s \in Scrapes, Emit(s) PROVE Dated'
  BY <1>9 DEF Emit
<1>10. ASSUME NEW l \in Loops, Start(l) PROVE Dated'
  BY <1>10 DEF Start
<1>11. ASSUME NEW l \in Loops, EnterLoop(l) PROVE Dated'
  BY <1>11 DEF EnterLoop
<1>12. ASSUME NEW l \in Loops, BeginBackground(l) PROVE Dated'
  BY <1>12 DEF BeginBackground
<1>13. ASSUME NEW l \in Loops, SkipBackground(l) PROVE Dated'
  BY <1>13 DEF SkipBackground
<1>14. ASSUME NEW l \in Loops, FinishBackground(l) PROVE Dated'
  BY <1>14, StoredDate DEF FinishBackground, Broadcast
<1>15. ASSUME NEW l \in Loops, LoopTick(l) PROVE Dated'
  BY <1>15 DEF LoopTick
<1>16. ASSUME NEW l \in Loops, LoopExit(l) PROVE Dated'
  BY <1>16 DEF LoopExit
<1>17. ASSUME NEW l \in Loops, Cancel(l) PROVE Dated'
  BY <1>17 DEF Cancel
<1>18. CASE Tick
  BY <1>18 DEF Tick
<1>19. CASE UNCHANGED vars
  BY <1>19 DEF vars
<1> QED
  BY <1>1, <1>2, <1>3, <1>4, <1>5, <1>6, <1>7, <1>8, <1>9, <1>10, <1>11, <1>12,
     <1>13, <1>14, <1>15, <1>16, <1>17, <1>18, <1>19
     DEF Next, ScrapeStep, LoopStep, Quiescent


\* From the second snapshot on, the attempt time a collector stamps itself never
\* steps back, whoever refreshes.
THEOREM StampsNeverStepBack == Spec => StampsSettle
<1>1. CASE OwnStamps
  <2>1. [Next]_vars => [~OwnStamps /\ cache.hist.count > 1
                          => cache'.status.attempt >= cache.status.attempt]_vars
    BY <1>1
  <2> QED
    BY <2>1, PTL DEF Spec, StampsSettle
<1>2. CASE ~OwnStamps
  <2>1. Init => Dated
    BY DEF Init, Dated, ZeroState, NewHistogram, Procs
  <2>2. CollectorInv /\ Dated /\ [Next]_vars => Dated'
    BY <1>2, NextDated
  <2>3. CollectorInv /\ Dated /\ [Next]_vars
          => [~OwnStamps /\ cache.hist.count > 1
                => cache'.status.attempt >= cache.status.attempt]_vars
    <3> SUFFICES ASSUME CollectorInv, Dated, [Next]_vars, cache.hist.count > 1
                 PROVE  cache'.status.attempt >= cache.status.attempt
      OBVIOUS
    <3>1. cache.status.attempt \in Int
      BY DEF CollectorInv, TypeOK, States, Statuses, Time
    <3>2. CASE \E p \in Procs : pc[p] = "store" /\ cache' = Stored(p)
      <4> PICK p \in Procs : pc[p] = "store" /\ cache' = Stored(p)
        BY <3>2
      <4>1. now[p] \in Int /\ cache'.status.attempt = now[p]
        BY <1>2, StoredDate DEF CollectorInv, TypeOK, Time
      <4> QED
        BY <4>1, <3>1 DEF Dated, Refreshing
    <3>3. CASE cache' = cache
      BY <3>1, <3>3
    <3>4. cache' = cache \/ \E p \in Procs : pc[p] = "store" /\ cache' = Stored(p)
      BY DEF Next, ScrapeStep, LoopStep, Quiescent, Procs, vars, shared, local, Collect,
             ServeCached, WaitForRefresh, WaitAgain, Recheck, BeginSync, Collected,
             FinishSync, Emit, Start, EnterLoop, BeginBackground, SkipBackground,
             FinishBackground, LoopTick, LoopExit, Cancel, Tick
    <3> QED
      BY <3>2, <3>3, <3>4
  <2> QED
    BY <2>1, <2>2, <2>3, Invariance, PTL DEF Spec, StampsSettle
<1> QED
  BY <1>1, <1>2

-----------------------------------------------------------------------------
(* The collector implements the register of SnapshotRegister *)

LEMMA InitRegister == Init => Register!Init
<1> SUFFICES ASSUME Init PROVE Register!Init
  OBVIOUS
<1>1. Outcome(ZeroState) = Register!Empty
  BY DEF Outcome, ZeroState, ZeroSnapshot, NewHistogram, Register!Empty
<1>2. [s \in Scrapes |-> Phase(pc[s])] = [s \in Scrapes |-> "idle"]
  BY DEF Init, Phase, Procs
<1>3. [s \in Scrapes |-> Outcome(reply[s])] = [s \in Scrapes |-> Register!Empty]
  BY <1>1 DEF Init
<1> QED
  BY <1>1, <1>2, <1>3 DEF Init, Register!Init

\* A stored outcome is the register's next one.
LEMMA StoredPublished ==
  ASSUME CollectorInv, NEW p \in Procs, pc[p] = "store"
  PROVE  \E success \in BOOLEAN, attempt \in 1 .. clock :
           Outcome(Stored(p)) = Register!Published(p, success, attempt)
<1>1. /\ fetched[p] \in Fetches
      /\ now[p] \in Nat /\ clock \in Nat
      /\ cache.hist.count \in Nat
  BY DEF CollectorInv, TypeOK, States, Histograms, Time
<1>2. /\ fetched[p].snapshot.by = p
      /\ fetched[p].snapshot.success \in BOOLEAN
      /\ fetched[p].snapshot.stamp \in 0 .. clock
  BY <1>1 DEF CollectorInv, Fetched, Fetches, Snapshots, Stamps
<1>3. 1 <= now[p] /\ now[p] <= clock
  BY DEF CollectorInv, Clocks, Refreshing
<1>4. Stored(p).status.attempt \in 1 .. clock
  BY <1>1, <1>2, <1>3 DEF Stored
<1>5. Outcome(Stored(p)) =
        Register!Published(p, fetched[p].snapshot.success, Stored(p).status.attempt)
  BY <1>2 DEF Outcome, Stored, Observe, Register!Published
<1> QED
  BY <1>2, <1>4, <1>5

LEMMA NextRegister ==
  CollectorInv /\ [Next]_vars => [Register!Next]_(Register!vars)
<1> SUFFICES ASSUME CollectorInv, [Next]_vars
             PROVE  Register!Next \/ UNCHANGED Register!vars
  OBVIOUS
<1> DEFINE Goal == Register!Next \/ UNCHANGED Register!vars
<1>0. /\ pc \in [Procs -> ScrapeLabels \cup LoopLabels]
      /\ \A s \in Scrapes : pc[s] \in ScrapeLabels
      /\ \A l \in Loops : pc[l] \in LoopLabels
      /\ collectNow \in [Scrapes -> Time]
      /\ reply \in [Scrapes -> States]
      /\ backgroundStarted \in BOOLEAN
  BY DEF CollectorInv, TypeOK
<1> USE <1>0, CollectorAssumption
<1> USE DEF Procs, shared, local, Goto

\* A step whose label changes the register does not see is a stutter.
<1>a. ASSUME UNCHANGED <<clock, backgroundStarted, cache, collectNow, reply>>,
             \A s \in Scrapes : Phase(pc'[s]) = Phase(pc[s])
      PROVE  Goal
  <2>1. UNCHANGED [s \in Scrapes |-> Phase(pc[s])]
    BY <1>a
  <2>2. UNCHANGED [s \in Scrapes |-> Outcome(reply[s])]
    BY <1>a
  <2>3. UNCHANGED Outcome(cache)
    BY <1>a
  <2> QED
    BY <1>a, <2>1, <2>2, <2>3 DEF Register!vars
<1>1. ASSUME NEW s \in Scrapes, Collect(s) PROVE Goal
  <2>1. [q \in Scrapes |-> Phase(pc[q])]' =
          [[q \in Scrapes |-> Phase(pc[q])] EXCEPT ![s] = "asked"]
    BY <1>1 DEF Collect, Phase
  <2>2. Phase(pc[s]) = "idle"
    BY <1>1 DEF Collect, Phase
  <2>3. Register!Ask(s)
    BY <1>1, <2>1, <2>2 DEF Collect, Register!Ask
  <2> QED
    BY <2>3 DEF Register!Next
<1>2. ASSUME NEW s \in Scrapes, ServeCached(s) PROVE Goal
  <2>1. [q \in Scrapes |-> Phase(pc[q])]' =
          [[q \in Scrapes |-> Phase(pc[q])] EXCEPT ![s] = "answered"]
    BY <1>2 DEF ServeCached, Phase
  <2>2. Phase(pc[s]) = "asked"
    BY <1>2 DEF ServeCached, Phase
  <2>3. [q \in Scrapes |-> Outcome(reply[q])]' =
          [[q \in Scrapes |-> Outcome(reply[q])] EXCEPT ![s] = Outcome(cache)]
    BY <1>2 DEF ServeCached
  <2>4. Outcome(cache).version > 0
    BY <1>2 DEF ServeCached, Servable, CollectorInv, Contents, WholeState, Outcome
  <2>5. \/ backgroundStarted
        \/ \E t \in collectNow[s] .. clock :
             t - Outcome(cache).attempt < RefreshInterval
    <3>1. now[s] \in collectNow[s] .. clock
      BY <1>2 DEF ServeCached, CollectorInv, Clocks, InCurrentSnapshot, TypeOK, Time
    <3> QED
      BY <1>2, <3>1 DEF ServeCached, Servable, Outcome
  <2>6. Register!Answer(s)
    BY <1>2, <2>1, <2>2, <2>3, <2>4, <2>5 DEF ServeCached, Register!Answer
  <2> QED
    BY <2>6 DEF Register!Next
<1>3. ASSUME NEW s \in Scrapes, WaitForRefresh(s) PROVE Goal
  <2>1. \A q \in Scrapes : Phase(pc'[q]) = Phase(pc[q])
    BY <1>3 DEF WaitForRefresh, Phase
  <2> QED
    BY <1>3, <2>1, <1>a DEF WaitForRefresh
<1>4. ASSUME NEW s \in Scrapes, WaitAgain(s) PROVE Goal
  <2>1. \A q \in Scrapes : Phase(pc'[q]) = Phase(pc[q])
    BY <1>4 DEF WaitAgain, Phase
  <2> QED
    BY <1>4, <2>1, <1>a DEF WaitAgain
<1>5. ASSUME NEW s \in Scrapes, Recheck(s) PROVE Goal
  <2>1. \A q \in Scrapes : Phase(pc'[q]) = Phase(pc[q])
    BY <1>5 DEF Recheck, Phase
  <2> QED
    BY <1>5, <2>1, <1>a DEF Recheck
<1>6. ASSUME NEW s \in Scrapes, BeginSync(s) PROVE Goal
  <2>1. \A q \in Scrapes : Phase(pc'[q]) = Phase(pc[q])
    BY <1>6 DEF BeginSync, Phase
  <2> QED
    BY <1>6, <2>1, <1>a DEF BeginSync
<1>7. ASSUME NEW p \in Procs, Collected(p) PROVE Goal
  <2>1. \A q \in Scrapes : Phase(pc'[q]) = Phase(pc[q])
    BY <1>7 DEF Collected, Phase
  <2> QED
    BY <1>7, <2>1, <1>a DEF Collected
<1>8. ASSUME NEW s \in Scrapes, FinishSync(s) PROVE Goal
  <2>1. [q \in Scrapes |-> Phase(pc[q])]' =
          [[q \in Scrapes |-> Phase(pc[q])] EXCEPT ![s] = "answered"]
    <3>1. \A q \in Scrapes : Phase(pc[q])' =
            IF q = s THEN "answered" ELSE Phase(pc[q])
      BY <1>8 DEF FinishSync, Broadcast, Phase
    <3> QED
      BY <3>1
  <2>2. Phase(pc[s]) = "asked"
    BY <1>8 DEF FinishSync, Phase
  <2>3. cache' = Stored(s) /\ reply' = [reply EXCEPT ![s] = Stored(s)]
    BY <1>8 DEF FinishSync
  <2>4. [q \in Scrapes |-> Outcome(reply[q])]' =
          [[q \in Scrapes |-> Outcome(reply[q])] EXCEPT ![s] = Outcome(Stored(s))]
    BY <2>3
  <2>5. Outcome(cache)' = Outcome(Stored(s))
    BY <2>3
  <2>6. \E success \in BOOLEAN, attempt \in 1 .. clock :
          Outcome(cache)' = Register!Published(s, success, attempt)
    BY <1>8, <2>5, StoredPublished DEF FinishSync
  <2>7. Register!PublishAndAnswer(s)
    BY <1>8, <2>1, <2>2, <2>4, <2>5, <2>6 DEF FinishSync, Register!PublishAndAnswer
  <2> QED
    BY <2>7 DEF Register!Next
<1>9. ASSUME NEW s \in Scrapes, Emit(s) PROVE Goal
  <2>1. [q \in Scrapes |-> Phase(pc[q])]' =
          [[q \in Scrapes |-> Phase(pc[q])] EXCEPT ![s] = "done"]
    BY <1>9 DEF Emit, Phase
  <2>2. Phase(pc[s]) = "answered"
    BY <1>9 DEF Emit, Phase
  <2>3. [q \in Scrapes |-> Outcome(reply[q])]' =
          [[q \in Scrapes |-> Outcome(reply[q])] EXCEPT ![s] = Register!Empty]
    BY <1>9 DEF Emit, Outcome, ZeroState, ZeroSnapshot, NewHistogram, Register!Empty
  <2>4. UNCHANGED Outcome(cache)
    BY <1>9 DEF Emit
  <2>5. Register!Leave(s)
    BY <1>9, <2>1, <2>2, <2>3, <2>4 DEF Emit, Register!Leave
  <2> QED
    BY <2>5 DEF Register!Next
<1>10. ASSUME NEW l \in Loops, Start(l) PROVE Goal
  <2>1. \A q \in Scrapes : Phase(pc'[q]) = Phase(pc[q])
    BY <1>10 DEF Start, Phase
  <2>2. CASE backgroundStarted
    BY <1>10, <2>1, <2>2, <1>a DEF Start
  <2>3. CASE ~backgroundStarted
    <3>1. /\ UNCHANGED [q \in Scrapes |-> Phase(pc[q])]
          /\ UNCHANGED [q \in Scrapes |-> Outcome(reply[q])]
          /\ UNCHANGED Outcome(cache)
      BY <1>10, <2>1 DEF Start
    <3>2. Register!Toggle
      BY <1>10, <2>3, <3>1 DEF Start, Register!Toggle
    <3> QED
      BY <3>2 DEF Register!Next
  <2> QED
    BY <2>2, <2>3
<1>11. ASSUME NEW l \in Loops, EnterLoop(l) PROVE Goal
  <2>1. \A q \in Scrapes : Phase(pc'[q]) = Phase(pc[q])
    BY <1>11 DEF EnterLoop, Phase
  <2> QED
    BY <1>11, <2>1, <1>a DEF EnterLoop
<1>12. ASSUME NEW l \in Loops, BeginBackground(l) PROVE Goal
  <2>1. \A q \in Scrapes : Phase(pc'[q]) = Phase(pc[q])
    BY <1>12 DEF BeginBackground, Phase
  <2> QED
    BY <1>12, <2>1, <1>a DEF BeginBackground
<1>13. ASSUME NEW l \in Loops, SkipBackground(l) PROVE Goal
  <2>1. \A q \in Scrapes : Phase(pc'[q]) = Phase(pc[q])
    BY <1>13 DEF SkipBackground, Phase
  <2> QED
    BY <1>13, <2>1, <1>a DEF SkipBackground
<1>14. ASSUME NEW l \in Loops, FinishBackground(l) PROVE Goal
  <2>1. \A q \in Scrapes : Phase(pc'[q]) = Phase(pc[q])
    BY <1>14 DEF FinishBackground, Broadcast, Phase
  <2>2. /\ UNCHANGED [q \in Scrapes |-> Phase(pc[q])]
        /\ UNCHANGED [q \in Scrapes |-> Outcome(reply[q])]
    BY <1>14, <2>1 DEF FinishBackground
  <2>3. Outcome(cache)' = Outcome(Stored(l))
    BY <1>14 DEF FinishBackground
  <2>4. \E success \in BOOLEAN, attempt \in 1 .. clock :
          Outcome(cache)' = Register!Published(l, success, attempt)
    BY <1>14, <2>3, StoredPublished DEF FinishBackground
  <2>5. Register!Publish(l)
    BY <1>14, <2>2, <2>4 DEF FinishBackground, Register!Publish
  <2> QED
    BY <2>5 DEF Register!Next
<1>15. ASSUME NEW l \in Loops, LoopTick(l) PROVE Goal
  <2>1. \A q \in Scrapes : Phase(pc'[q]) = Phase(pc[q])
    BY <1>15 DEF LoopTick, Phase
  <2> QED
    BY <1>15, <2>1, <1>a DEF LoopTick
<1>16. ASSUME NEW l \in Loops, LoopExit(l) PROVE Goal
  <2>1. \A q \in Scrapes : Phase(pc'[q]) = Phase(pc[q])
    BY <1>16 DEF LoopExit, Phase
  <2>2. backgroundStarted
    BY <1>16 DEF LoopExit, CollectorInv, OneLoop, Running
  <2>3. /\ UNCHANGED [q \in Scrapes |-> Phase(pc[q])]
        /\ UNCHANGED [q \in Scrapes |-> Outcome(reply[q])]
        /\ UNCHANGED Outcome(cache)
    BY <1>16, <2>1 DEF LoopExit
  <2>4. Register!Toggle
    BY <1>16, <2>2, <2>3 DEF LoopExit, Register!Toggle
  <2> QED
    BY <2>4 DEF Register!Next
<1>17. ASSUME NEW l \in Loops, Cancel(l) PROVE Goal
  <2>1. \A q \in Scrapes : Phase(pc'[q]) = Phase(pc[q])
    BY <1>17 DEF Cancel, Phase
  <2> QED
    BY <1>17, <2>1, <1>a DEF Cancel
<1>18. CASE Tick
  <2>1. /\ UNCHANGED [q \in Scrapes |-> Phase(pc[q])]
        /\ UNCHANGED [q \in Scrapes |-> Outcome(reply[q])]
        /\ UNCHANGED Outcome(cache)
    BY <1>18 DEF Tick
  <2>2. Register!Tick
    BY <1>18, <2>1 DEF Tick, Register!Tick
  <2> QED
    BY <2>2 DEF Register!Next
<1>19. CASE UNCHANGED vars
  BY <1>19, <1>a DEF vars
<1> QED
  BY <1>1, <1>2, <1>3, <1>4, <1>5, <1>6, <1>7, <1>8, <1>9, <1>10, <1>11, <1>12,
     <1>13, <1>14, <1>15, <1>16, <1>17, <1>18, <1>19
     DEF Next, ScrapeStep, LoopStep, Quiescent

\* Every behaviour of the collector is one of the atomic register: each scrape is
\* answered with one published outcome, current and fresh enough at some instant
\* between its arrival and its answer.
THEOREM ImplementsRegister == Spec => RegisterSpec
  BY InitRegister, NextRegister, Invariance, PTL DEF Spec, RegisterSpec, Register!Spec

-----------------------------------------------------------------------------
(* Composition: a feature that keeps last-known-good values.  Its snapshot   *)
(* callback, which the collector runs between beginning a refresh and        *)
(* storing its outcome, is where it records successes and failures, so that  *)
(* the refreshers of LastKnownGood are the processes of the collector.       *)

CONSTANTS Keys, Values, Readers, None, StaleAfter, MaxWrites
VARIABLES entries, stamp, todo, result, log

Kept == INSTANCE LastKnownGoodProofs WITH Refreshers <- Procs

\* The callback runs inside the collection that calls it: collectSnapshot calls it on
\* its own goroutine and waits for it.
RecordedByCollections == \A p \in Procs : stamp[p] # 0 => Refreshing(p)

FeatureSpec == Spec /\ Kept!Spec /\ []RecordedByCollections

LEMMA OneRecorder == SingleFlight /\ RecordedByCollections => Kept!OneAtATime
  BY DEF SingleFlight, RecordedByCollections, Kept!OneAtATime

\* The collector's single flight is what LastKnownGood needs: whichever scrapes and loop
\* take turns collecting, the attempts of a key are recorded in the order of their times.
THEOREM KeptInOrder ==
  ASSUME Kept!GoodAssumption
  PROVE  FeatureSpec => []Kept!EntriesInv
<1>1. Kept!Spec /\ []Kept!OneAtATime => []Kept!EntriesInv
  BY Kept!InOrder, Zenon
<1> QED
  BY <1>1, OneCollection, OneRecorder, PTL DEF FeatureSpec

\* Whichever scrapes and loop take turns collecting, a kept value that is read as fresh
\* was confirmed within the threshold before the read, and one read as stale was not.
THEOREM KeptFreshness ==
  ASSUME Kept!GoodAssumption
  PROVE  FeatureSpec => []Kept!FreshnessHonest
<1>1. Kept!Spec /\ []Kept!OneAtATime => []Kept!FreshnessHonest
  BY Kept!HonestFreshness, Zenon
<1> QED
  BY <1>1, OneCollection, OneRecorder, PTL DEF FeatureSpec

=============================================================================
