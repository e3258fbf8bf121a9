------------------------- MODULE SnapshotCollector -------------------------
(***************************************************************************)
(* The cached collector of exporter/internal/snapshot/snapshot.go: scrapes *)
(* (Collect) and one optional background loop (Start) share a snapshot     *)
(* under a mutex, with at most one collection in flight and a condition    *)
(* variable for scrapes that have to wait for it.                          *)
(*                                                                         *)
(* Every critical section of the mutex is one step, and so is every read   *)
(* of the clock that another process can fall behind.  The clock is an     *)
(* integer; 0 is Go's zero time.Time, and the value of a local variable    *)
(* that is out of scope.                                                   *)
(***************************************************************************)
EXTENDS Integers, FiniteSets

CONSTANTS
  Scrapes,          \* Collect calls; each of them runs once
  Loops,            \* Start calls, each with its own context
  Nobody,           \* the owner of the zero snapshot
  RefreshInterval,  \* options.RefreshInterval after its default, in clock units
  Bounds,           \* finite upper bounds of the duration histogram
  OwnStamps,        \* whether StatusFunc reports attempt times of its own
  SyncTimeout,      \* whether SyncRefreshTimeout is set
  MaxTime           \* bound on the clock

Procs == Scrapes \cup Loops

ASSUME CollectorAssumption ==
  /\ Scrapes \cap Loops = {}
  /\ Nobody \notin Procs
  /\ RefreshInterval \in Nat \ {0}
  /\ MaxTime \in Nat \ {0}
  /\ Bounds \subseteq Nat
  /\ OwnStamps \in BOOLEAN
  /\ SyncTimeout \in BOOLEAN

VARIABLES
  clock,              \* what c.now() returns
  initialized,
  backgroundStarted,
  refreshing,
  cache,              \* what snapshotStateLocked copies out
  pc,                 \* where each process is
  collectNow,         \* Collect's own `now`, read on entry
  now,                \* the `now` of currentSnapshot or refresh
  startedAt,          \* collectSnapshot's `start`
  fetched,            \* snapshot and duration, collected and not yet stored
  reply,              \* the state a scrape is emitting
  cancelled,          \* contexts that are done
  due                 \* when the loop's ticker next has a tick; 0 before NewTicker

shared == <<initialized, backgroundStarted, refreshing, cache>>
local  == <<pc, collectNow, now, startedAt, fetched, reply>>
vars   == <<clock, shared, local, cancelled, due>>

-----------------------------------------------------------------------------
(* Data *)

Time == 0 .. MaxTime

\* A snapshot, as far as the collector can tell: who collected it, and the
\* success flag and attempt time StatusFunc will report for it.
Snapshots == [by : Procs \cup {Nobody}, success : BOOLEAN, stamp : Time]
ZeroSnapshot == [by |-> Nobody, success |-> FALSE, stamp |-> 0]

Statuses == [attempt : Time, success : BOOLEAN]

\* le[b] counts the observations that took at most b; inf is the +Inf bucket.
Histograms == [count : Nat, inf : Nat, le : [Bounds -> Nat]]
NewHistogram == [count |-> 0, inf |-> 0, le |-> [b \in Bounds |-> 0]]

Observe(h, duration) ==
  [count |-> h.count + 1,
   inf   |-> h.inf + 1,
   le    |-> [b \in Bounds |-> IF duration <= b THEN h.le[b] + 1 ELSE h.le[b]]]

States == [snapshot : Snapshots, status : Statuses,
           lastSuccessful : Time, hist : Histograms]
ZeroState == [snapshot |-> ZeroSnapshot,
              status |-> [attempt |-> 0, success |-> FALSE],
              lastSuccessful |-> 0, hist |-> NewHistogram]

Fetches == [snapshot : Snapshots, duration : Time]
ZeroFetch == [snapshot |-> ZeroSnapshot, duration |-> 0]

\* Variant: a failed attempt moves the last success too.
StoredForgettingSuccess(p) ==
  LET snap    == fetched[p].snapshot
      attempt == IF snap.stamp = 0 THEN now[p] ELSE snap.stamp
  IN [snapshot |-> snap, lastSuccessful |-> attempt,
      status |-> [attempt |-> attempt, success |-> snap.success],
      hist |-> Observe(cache.hist, fetched[p].duration)]

\* storeSnapshotLocked: the state after storing what p fetched.
Stored(p) ==
  LET snap    == fetched[p].snapshot
      attempt == IF snap.stamp = 0 THEN now[p] ELSE snap.stamp
  IN [snapshot       |-> snap,
      status         |-> [attempt |-> attempt, success |-> snap.success],
      lastSuccessful |-> IF snap.success THEN attempt ELSE cache.lastSuccessful,
      hist           |-> Observe(cache.hist, fetched[p].duration)]

\* The attempt times StatusFunc may report: none, or any time not in the future.
Stamps == IF OwnStamps THEN 0 .. clock ELSE {0}

\* Variant: staleness is tested while the loop runs, too.
ServableIfFresh(s) ==
  initialized /\ now[s] - cache.status.attempt < RefreshInterval

\* currentSnapshot may answer s from the cache.
Servable(s) ==
  /\ initialized
  /\ backgroundStarted \/ now[s] - cache.status.attempt < RefreshInterval

\* cond.Broadcast: every waiting scrape becomes runnable.
Broadcast(pcs) ==
  [p \in Procs |-> IF pcs[p] = "wait" THEN "woken" ELSE pcs[p]]

Goto(p, label) == pc' = [pc EXCEPT ![p] = label]

-----------------------------------------------------------------------------
(* Collect and currentSnapshot *)

Collect(s) ==
  /\ pc[s] = "idle"
  /\ Goto(s, "check")
  /\ collectNow' = [collectNow EXCEPT ![s] = clock]
  /\ now' = [now EXCEPT ![s] = clock]
  /\ UNCHANGED <<clock, shared, startedAt, fetched, reply, cancelled, due>>

ServeCached(s) ==
  /\ pc[s] = "check"
  /\ Servable(s)
  /\ Goto(s, "emit")
  /\ reply' = [reply EXCEPT ![s] = cache]
  /\ now' = [now EXCEPT ![s] = 0]
  /\ UNCHANGED <<clock, shared, collectNow, startedAt, fetched, cancelled, due>>

\* cond.Wait puts the scrape on the condition's list as it releases the mutex.
WaitForRefresh(s) ==
  /\ pc[s] = "check"
  /\ ~Servable(s)
  /\ refreshing
  /\ Goto(s, "wait")
  /\ UNCHANGED <<clock, shared, collectNow, now, startedAt, fetched, reply, cancelled, due>>

\* A woken scrape holds the mutex again: another refresh may already be under
\* way, and otherwise it reads the clock anew and starts over.
WaitAgain(s) ==
  /\ pc[s] = "woken"
  /\ refreshing
  /\ Goto(s, "wait")
  /\ UNCHANGED <<clock, shared, collectNow, now, startedAt, fetched, reply, cancelled, due>>

\* Variant: after waiting, answer without looking at the cache again.
RecheckServing(s) ==
  /\ pc[s] = "woken"
  /\ ~refreshing
  /\ Goto(s, "emit")
  /\ reply' = [reply EXCEPT ![s] = cache]
  /\ UNCHANGED <<clock, shared, collectNow, now, startedAt, fetched, cancelled, due>>

Recheck(s) ==
  /\ pc[s] = "woken"
  /\ ~refreshing
  /\ Goto(s, "check")
  /\ now' = [now EXCEPT ![s] = clock]
  /\ UNCHANGED <<clock, shared, collectNow, startedAt, fetched, reply, cancelled, due>>

BeginSync(s) ==
  /\ pc[s] = "check"
  /\ ~Servable(s)
  /\ ~refreshing
  /\ refreshing' = TRUE
  /\ Goto(s, "collecting")
  /\ startedAt' = [startedAt EXCEPT ![s] = clock]
  /\ UNCHANGED <<clock, initialized, backgroundStarted, cache, collectNow, now,
                 fetched, reply, cancelled, due>>

\* The snapshotter returns, to a scrape or to the loop, with any outcome.
Collected(p) ==
  /\ pc[p] = "collecting"
  /\ \E success \in BOOLEAN, stamp \in Stamps :
       fetched' = [fetched EXCEPT ![p] =
         [snapshot |-> [by |-> p, success |-> success, stamp |-> stamp],
          duration |-> clock - startedAt[p]]]
  /\ Goto(p, "store")
  /\ startedAt' = [startedAt EXCEPT ![p] = 0]
  /\ UNCHANGED <<clock, shared, collectNow, now, reply, cancelled, due>>

\* Variant: the state is copied out before the outcome is stored.
FinishSyncCopyFirst(s) ==
  /\ pc[s] = "store"
  /\ cache' = Stored(s)
  /\ initialized' = TRUE
  /\ refreshing' = FALSE
  /\ reply' = [reply EXCEPT ![s] = cache]
  /\ pc' = Broadcast([pc EXCEPT ![s] = "emit"])
  /\ now' = [now EXCEPT ![s] = 0]
  /\ fetched' = [fetched EXCEPT ![s] = ZeroFetch]
  /\ UNCHANGED <<clock, backgroundStarted, collectNow, startedAt, cancelled, due>>

FinishSync(s) ==
  /\ pc[s] = "store"
  /\ cache' = Stored(s)
  /\ initialized' = TRUE
  /\ refreshing' = FALSE
  /\ reply' = [reply EXCEPT ![s] = cache']
  /\ pc' = Broadcast([pc EXCEPT ![s] = "emit"])
  /\ now' = [now EXCEPT ![s] = 0]
  /\ fetched' = [fetched EXCEPT ![s] = ZeroFetch]
  /\ UNCHANGED <<clock, backgroundStarted, collectNow, startedAt, cancelled, due>>

\* The metrics go out from the copied state, with no lock held.
Emit(s) ==
  /\ pc[s] = "emit"
  /\ Goto(s, "done")
  /\ reply' = [reply EXCEPT ![s] = ZeroState]
  /\ collectNow' = [collectNow EXCEPT ![s] = 0]
  /\ UNCHANGED <<clock, shared, now, startedAt, fetched, cancelled, due>>

-----------------------------------------------------------------------------
(* Start and refreshLoop *)

\* Variant: Start does not look whether a loop is running.
StartAlways(l) ==
  /\ pc[l] = "idle"
  /\ Goto(l, "enter")
  /\ backgroundStarted' = TRUE
  /\ UNCHANGED <<clock, initialized, refreshing, cache, collectNow, now,
                 startedAt, fetched, reply, cancelled, due>>

Start(l) ==
  /\ pc[l] = "idle"
  /\ IF backgroundStarted
       THEN Goto(l, "refused") /\ UNCHANGED backgroundStarted
       ELSE Goto(l, "enter") /\ backgroundStarted' = TRUE
  /\ UNCHANGED <<clock, initialized, refreshing, cache, collectNow, now,
                 startedAt, fetched, reply, cancelled, due>>

\* NewTicker runs once, after the first refresh was made or passed over.
Armed(l) ==
  IF due[l] = 0 THEN [due EXCEPT ![l] = clock + RefreshInterval] ELSE due

\* The loop's goroutine runs for the first time.
EnterLoop(l) ==
  /\ pc[l] = "enter"
  /\ IF cancelled[l]
       THEN Goto(l, "select") /\ due' = Armed(l) /\ UNCHANGED now
       ELSE /\ Goto(l, "begin")
            /\ now' = [now EXCEPT ![l] = clock]
            /\ UNCHANGED due
  /\ UNCHANGED <<clock, shared, collectNow, startedAt, fetched, reply, cancelled>>

\* Variant: the loop does not look whether a refresh is in flight.
BeginBackgroundAnyway(l) ==
  /\ pc[l] = "begin"
  /\ refreshing' = TRUE
  /\ Goto(l, "collecting")
  /\ startedAt' = [startedAt EXCEPT ![l] = clock]
  /\ UNCHANGED <<clock, initialized, backgroundStarted, cache, collectNow, now,
                 fetched, reply, cancelled, due>>

BeginBackground(l) ==
  /\ pc[l] = "begin"
  /\ ~refreshing
  /\ refreshing' = TRUE
  /\ Goto(l, "collecting")
  /\ startedAt' = [startedAt EXCEPT ![l] = clock]
  /\ UNCHANGED <<clock, initialized, backgroundStarted, cache, collectNow, now,
                 fetched, reply, cancelled, due>>

\* beginRefresh found a refresh in flight: this round is dropped.
SkipBackground(l) ==
  /\ pc[l] = "begin"
  /\ refreshing
  /\ Goto(l, "select")
  /\ due' = Armed(l)
  /\ now' = [now EXCEPT ![l] = 0]
  /\ UNCHANGED <<clock, shared, collectNow, startedAt, fetched, reply, cancelled>>

\* Variant: the loop does not wake the scrapes that wait for it.
FinishBackgroundSilently(l) ==
  /\ pc[l] = "store"
  /\ cache' = Stored(l)
  /\ initialized' = TRUE
  /\ refreshing' = FALSE
  /\ Goto(l, "select")
  /\ due' = Armed(l)
  /\ now' = [now EXCEPT ![l] = 0]
  /\ fetched' = [fetched EXCEPT ![l] = ZeroFetch]
  /\ UNCHANGED <<clock, backgroundStarted, collectNow, startedAt, reply, cancelled>>

FinishBackground(l) ==
  /\ pc[l] = "store"
  /\ cache' = Stored(l)
  /\ initialized' = TRUE
  /\ refreshing' = FALSE
  /\ pc' = Broadcast([pc EXCEPT ![l] = "select"])
  /\ due' = Armed(l)
  /\ now' = [now EXCEPT ![l] = 0]
  /\ fetched' = [fetched EXCEPT ![l] = ZeroFetch]
  /\ UNCHANGED <<clock, backgroundStarted, collectNow, startedAt, reply, cancelled>>

\* The ticker's channel holds one tick; those due before it is read are lost.
LoopTick(l) ==
  /\ pc[l] = "select"
  /\ clock >= due[l]
  /\ due' = [due EXCEPT ![l] =
               clock + RefreshInterval - ((clock - due[l]) % RefreshInterval)]
  /\ now' = [now EXCEPT ![l] = clock]
  /\ Goto(l, "begin")
  /\ UNCHANGED <<clock, shared, collectNow, startedAt, fetched, reply, cancelled>>

LoopExit(l) ==
  /\ pc[l] = "select"
  /\ cancelled[l]
  /\ backgroundStarted' = FALSE
  /\ Goto(l, "stopped")
  /\ UNCHANGED <<clock, initialized, refreshing, cache, collectNow, now,
                 startedAt, fetched, reply, cancelled, due>>

-----------------------------------------------------------------------------
(* The environment *)

\* The owner of a context cancels it, before Start or while the loop runs.
Cancel(l) ==
  /\ ~cancelled[l]
  /\ pc[l] \notin {"refused", "stopped"}
  /\ cancelled' = [cancelled EXCEPT ![l] = TRUE]
  /\ UNCHANGED <<clock, shared, local, due>>

Tick ==
  /\ clock < MaxTime
  /\ clock' = clock + 1
  /\ UNCHANGED <<shared, local, cancelled, due>>

\* Nothing is left to do: not a deadlock.  A loop may sit in its select.
Quiescent ==
  /\ clock = MaxTime
  /\ \A s \in Scrapes : pc[s] = "done"
  /\ \A l \in Loops : pc[l] \in {"refused", "stopped", "select"}
  /\ UNCHANGED vars

-----------------------------------------------------------------------------
Init ==
  /\ clock = 1
  /\ initialized = FALSE
  /\ backgroundStarted = FALSE
  /\ refreshing = FALSE
  /\ cache = ZeroState
  /\ pc = [p \in Procs |-> "idle"]
  /\ collectNow = [s \in Scrapes |-> 0]
  /\ now = [p \in Procs |-> 0]
  /\ startedAt = [p \in Procs |-> 0]
  /\ fetched = [p \in Procs |-> ZeroFetch]
  /\ reply = [s \in Scrapes |-> ZeroState]
  /\ cancelled = [l \in Loops |-> FALSE]
  /\ due = [l \in Loops |-> 0]

ScrapeStep(s) ==
  \/ ServeCached(s)
  \/ WaitForRefresh(s)
  \/ WaitAgain(s)
  \/ Recheck(s)
  \/ BeginSync(s)
  \/ FinishSync(s)
  \/ Emit(s)

LoopStep(l) ==
  \/ EnterLoop(l)
  \/ BeginBackground(l)
  \/ SkipBackground(l)
  \/ FinishBackground(l)
  \/ LoopTick(l)
  \/ LoopExit(l)

Next ==
  \/ \E s \in Scrapes : Collect(s) \/ ScrapeStep(s)
  \/ \E l \in Loops : Start(l) \/ LoopStep(l) \/ Cancel(l)
  \/ \E p \in Procs : Collected(p)
  \/ Tick
  \/ Quiescent

Spec == Init /\ [][Next]_vars

-----------------------------------------------------------------------------
(* Fairness: the scheduler runs goroutines that can run, and a mutex is not *)
(* held across a call.  What may hang is the snapshotter.                  *)

Scheduled ==
  /\ \A s \in Scrapes : WF_vars(ScrapeStep(s))
  /\ \A l \in Loops : WF_vars(LoopStep(l))

\* Variant: a background collection is not given the loop's context.
ContextEndsScrapesOnly(p) == p \in Scrapes /\ SyncTimeout

\* Variant: a scrape's collection is not given the deadline.
ContextEndsLoopsOnly(p) == p \in Loops /\ cancelled[p]

\* A collection may hang until its context ends: the deadline of a scrape's own
\* refresh, which passes, or the loop's context, which need never be cancelled.
ContextEnds(p) == IF p \in Scrapes THEN SyncTimeout ELSE cancelled[p]

HangingSpec ==
  Spec /\ Scheduled /\ \A p \in Procs : WF_vars(ContextEnds(p) /\ Collected(p))

-----------------------------------------------------------------------------
(* Properties *)

ScrapeLabels == {"idle", "check", "wait", "woken", "collecting", "store", "emit", "done"}
LoopLabels == {"idle", "refused", "enter", "begin", "collecting", "store", "select", "stopped"}

TypeOK ==
  /\ clock \in 1 .. MaxTime
  /\ initialized \in BOOLEAN
  /\ backgroundStarted \in BOOLEAN
  /\ refreshing \in BOOLEAN
  /\ cache \in States
  /\ pc \in [Procs -> ScrapeLabels \cup LoopLabels]
  /\ \A s \in Scrapes : pc[s] \in ScrapeLabels
  /\ \A l \in Loops : pc[l] \in LoopLabels
  /\ collectNow \in [Scrapes -> Time]
  /\ now \in [Procs -> Time]
  /\ startedAt \in [Procs -> Time]
  /\ fetched \in [Procs -> Fetches]
  /\ reply \in [Scrapes -> States]
  /\ cancelled \in [Loops -> BOOLEAN]
  /\ due \in [Loops -> Nat]

Refreshing(p) == pc[p] \in {"collecting", "store"}
Running(l) == pc[l] \in {"enter", "begin", "collecting", "store", "select"}

\* One collection at a time: the flag is set exactly while one process, scrape
\* or loop, is between beginning a refresh and storing its outcome.
SingleFlight ==
  /\ refreshing <=> \E p \in Procs : Refreshing(p)
  /\ \A p, q \in Procs : Refreshing(p) /\ Refreshing(q) => p = q

\* No lost wakeup: a scrape waits on the condition variable only while a refresh
\* is in flight whose end will broadcast to it.
NoLostWakeup == \A s \in Scrapes : pc[s] = "wait" => refreshing

\* However Start, cancellation and the loop's exit interleave, there is at most
\* one loop, and backgroundStarted (which lets scrapes skip the staleness test)
\* is set exactly while there is one.
OneLoop ==
  /\ backgroundStarted <=> \E l \in Loops : Running(l)
  /\ \A l, m \in Loops : Running(l) /\ Running(m) => l = m

\* What a scrape emits is one stored state, never the zero state and never a mix
\* of two: the flags belong to the snapshot, and the histogram agrees with itself.
WholeState(st) ==
  /\ st.hist.count > 0
  /\ st.hist.inf = st.hist.count
  /\ \A b \in Bounds : st.hist.le[b] <= st.hist.count
  /\ \A a, b \in Bounds : a <= b => st.hist.le[a] <= st.hist.le[b]
  /\ st.status.success = st.snapshot.success
  /\ st.snapshot.stamp # 0 => st.status.attempt = st.snapshot.stamp
  /\ st.status.success => st.lastSuccessful = st.status.attempt
  /\ st.snapshot.by # Nobody

RepliesWhole == \A s \in Scrapes : pc[s] = "emit" => WholeState(reply[s])

\* As long as no loop was ever started, a scrape is answered by its own
\* collection or by one that was younger than RefreshInterval when it arrived,
\* also after it waited for somebody else's refresh.
FreshWithoutLoop ==
  (\A l \in Loops : pc[l] = "idle") =>
    \A s \in Scrapes : pc[s] = "emit" =>
      \/ reply[s].snapshot.by = s
      \/ collectNow[s] - reply[s].status.attempt < RefreshInterval

\* The exported attempt time can step back once: a loop that read the clock
\* before the cache was first filled overwrites that first snapshot.  After that
\* the collector's own refresh times never step back.
StampsSettle ==
  [][~OwnStamps /\ cache.hist.count > 1
       => cache'.status.attempt >= cache.status.attempt]_vars

\* Every scrape is answered, whatever it waits for.
ScrapesAnswered == \A s \in Scrapes : pc[s] = "check" ~> pc[s] = "done"

\* A loop whose context is cancelled ends, also out of a refresh in flight.
CancelledLoopsStop ==
  \A l \in Loops : Running(l) /\ cancelled[l] ~> pc[l] = "stopped"

\* With SyncRefreshTimeout set, every scrape is answered: the only thing that can
\* hold one for ever is a background collection that hangs under a context nobody
\* cancels.
HungBehindLoop == \E l \in Loops : pc[l] = "collecting" /\ ~cancelled[l]
TimeoutReleasesScrapes == <>[]~HungBehindLoop => ScrapesAnswered

-----------------------------------------------------------------------------
(* The inductive invariant behind the theorems *)

InCurrentSnapshot == {"check", "wait", "woken", "collecting", "store"}

\* What each process remembers of the clock is not in the future, and a scrape's
\* second reading is not before its first.
Clocks ==
  /\ \A p \in Procs : now[p] <= clock /\ startedAt[p] <= clock
  /\ \A p \in Procs : Refreshing(p) \/ pc[p] = "begin" => now[p] >= 1
  /\ \A s \in Scrapes : pc[s] \in InCurrentSnapshot =>
       1 <= collectNow[s] /\ collectNow[s] <= now[s]

\* What was fetched and not yet stored is the fetching process's own.
Fetched ==
  \A p \in Procs : pc[p] = "store" =>
    fetched[p].snapshot.by = p /\ fetched[p].snapshot.stamp \in Stamps

Contents ==
  /\ IF initialized THEN WholeState(cache) ELSE cache = ZeroState
  /\ RepliesWhole

\* Types, mutual exclusion and the contents of the cache, as one invariant that
\* every step preserves: the flags guard the cache, the clocks date it.
CollectorInv ==
  TypeOK /\ SingleFlight /\ NoLostWakeup /\ OneLoop /\ Clocks /\ Fetched /\ Contents

-----------------------------------------------------------------------------
(* Refinement: the collector is an atomic register of outcomes. *)

Outcome(st) == [version        |-> st.hist.count,
                by             |-> st.snapshot.by,
                success        |-> st.status.success,
                attempt        |-> st.status.attempt,
                lastSuccessful |-> st.lastSuccessful]

Phase(label) ==
  CASE label \in {"idle", "done"} -> label
    [] label = "emit" -> "answered"
    [] OTHER -> "asked"

Register == INSTANCE SnapshotRegister WITH
  Publishers <- Procs,
  live       <- backgroundStarted,
  register   <- Outcome(cache),
  asked      <- collectNow,
  phase      <- [s \in Scrapes |-> Phase(pc[s])],
  answer     <- [s \in Scrapes |-> Outcome(reply[s])]

\* Lock, waiting, wakeups and the loop together behave like the register: each
\* answer is one published outcome, current at some instant of the scrape's stay
\* and as fresh as the register's rule demands at that instant.
RegisterSpec == Register!Spec

=============================================================================
