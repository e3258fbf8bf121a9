---------------------------- MODULE LastKnownGood ----------------------------
(***************************************************************************)
(* exporter/featurekit/last_known_good.go: the last successful value of    *)
(* each key beside its failed attempts.  Refreshes write it key by key     *)
(* with one time stamp, taken when the refresh began; readers copy an      *)
(* entry, or all of them, under the read lock and judge staleness with a   *)
(* time stamp of their own.                                                *)
(***************************************************************************)
EXTENDS Naturals, Sequences, FiniteSets

CONSTANTS
  Keys, Values,
  Refreshers,  \* goroutines that refresh
  Readers,     \* goroutines that read
  None,        \* no value, no entry
  StaleAfter,  \* 0 for never
  MaxTime,     \* bound on the clock
  MaxWrites    \* bound on the writes

ASSUME GoodAssumption ==
  /\ StaleAfter \in Nat /\ MaxTime \in Nat \ {0} /\ MaxWrites \in Nat
  /\ None \notin Values \cup [value : Values \cup {None}, available : BOOLEAN,
                              lastSuccess : Nat, lastAttempt : Nat, failures : Nat]
  /\ IsFiniteSet(Keys) /\ Refreshers \cap Readers = {}

VARIABLES
  clock,
  entries,  \* the map: an entry or None
  stamp,    \* `now` of a goroutine's refresh or read, 0 outside
  todo,     \* keys a refresh has not come to
  result,   \* what a reader got last
  log       \* history: what happened to each key since its last deletion

vars == <<clock, entries, stamp, todo, result, log>>

Goroutines == Refreshers \cup Readers

\* The zero entry that Failure finds at a key without one.
ZeroEntry == [value |-> None, available |-> FALSE, lastSuccess |-> 0, lastAttempt |-> 0, failures |-> 0]

Init ==
  /\ clock = 1
  /\ entries = [k \in Keys |-> None]
  /\ stamp = [g \in Goroutines |-> 0]
  /\ todo = [r \in Refreshers |-> {}]
  /\ result = [g \in Readers |-> <<>>]
  /\ log = [k \in Keys |-> <<>>]

Writes == Cardinality({w \in Keys \X (1 .. MaxWrites) : w[2] <= Len(log[w[1]])})

-----------------------------------------------------------------------------
(* A refresh *)

BeginRefresh(r) ==
  /\ stamp[r] = 0
  /\ Writes < MaxWrites
  /\ stamp' = [stamp EXCEPT ![r] = clock]
  /\ todo' = [todo EXCEPT ![r] = Keys]
  /\ UNCHANGED <<clock, entries, result, log>>

Attempt(r, k, entry, event) ==
  /\ k \in todo[r]
  /\ Writes < MaxWrites
  /\ entries' = [entries EXCEPT ![k] = entry]
  /\ log' = [log EXCEPT ![k] = Append(@, event)]
  /\ todo' = [todo EXCEPT ![r] = @ \ {k}]
  /\ UNCHANGED <<clock, stamp, result>>

Found(k) == IF entries[k] = None THEN ZeroEntry ELSE entries[k]

\* Variant: the failures before a success are kept.
SuccessKeepingFailures(r, k, v) ==
  Attempt(r, k,
    [value |-> v, available |-> TRUE, lastSuccess |-> stamp[r], lastAttempt |-> stamp[r],
     failures |-> Found(k).failures],
    [value |-> v, at |-> stamp[r]])

\* Variant: a success leaves the time of the last attempt alone.
SuccessKeepingAttempt(r, k, v) ==
  Attempt(r, k,
    [value |-> v, available |-> TRUE, lastSuccess |-> stamp[r],
     lastAttempt |-> Found(k).lastAttempt, failures |-> 0],
    [value |-> v, at |-> stamp[r]])

Success(r, k, v) ==
  Attempt(r, k,
    [value |-> v, available |-> TRUE, lastSuccess |-> stamp[r], lastAttempt |-> stamp[r],
     failures |-> 0],
    [value |-> v, at |-> stamp[r]])

Failure(r, k) ==
  Attempt(r, k,
    [Found(k) EXCEPT !.lastAttempt = stamp[r], !.failures = @ + 1],
    [value |-> None, at |-> stamp[r]])

\* The key is gone from the source, which is no failure.
Delete(r, k) ==
  /\ k \in todo[r]
  /\ entries' = [entries EXCEPT ![k] = None]
  /\ log' = [log EXCEPT ![k] = <<>>]
  /\ todo' = [todo EXCEPT ![r] = @ \ {k}]
  /\ UNCHANGED <<clock, stamp, result>>

\* A refresh may leave keys alone.
EndRefresh(r) ==
  /\ stamp[r] # 0
  /\ stamp' = [stamp EXCEPT ![r] = 0]
  /\ todo' = [todo EXCEPT ![r] = {}]
  /\ UNCHANGED <<clock, entries, result, log>>

-----------------------------------------------------------------------------
(* A read *)

BeginRead(g) ==
  /\ stamp[g] = 0
  /\ stamp' = [stamp EXCEPT ![g] = clock]
  /\ UNCHANGED <<clock, entries, todo, result, log>>

\* Variant: a value is stale from its threshold on only if it was tried since.
StaleIfTried(e, now) ==
  /\ e.available
  /\ StaleAfter > 0
  /\ e.lastAttempt >= e.lastSuccess + StaleAfter

Stale(e, now) ==
  /\ e.available
  /\ StaleAfter > 0
  /\ now >= e.lastSuccess + StaleAfter

\* The result for an entry, with what the key's log was when it was read.
ResultOf(k, now) ==
  LET e == Found(k)
  IN [value |-> e.value, available |-> e.available,
      stale |-> Stale(e, now), failures |-> e.failures,
      lastSuccess |-> e.lastSuccess, now |-> now, log |-> log[k]]

Get(g, k) ==
  /\ stamp[g] # 0
  /\ result' = [result EXCEPT ![g] = <<ResultOf(k, stamp[g])>>]
  /\ stamp' = [stamp EXCEPT ![g] = 0]
  /\ UNCHANGED <<clock, entries, todo, log>>

Tick ==
  /\ clock < MaxTime
  /\ clock' = clock + 1
  /\ UNCHANGED <<entries, stamp, todo, result, log>>

Next ==
  \/ \E r \in Refreshers : BeginRefresh(r) \/ EndRefresh(r)
  \/ \E r \in Refreshers, k \in Keys :
       (\E v \in Values : Success(r, k, v)) \/ Failure(r, k) \/ Delete(r, k)
  \/ \E g \in Readers : BeginRead(g) \/ \E k \in Keys : Get(g, k)
  \/ Tick

Spec == Init /\ [][Next]_vars

-----------------------------------------------------------------------------
(* Properties *)

\* A key that never succeeded has the zero value, and one that did stays available.
Entry ==
  [value : {None}, available : {FALSE}, lastSuccess : {0},
   lastAttempt : 1 .. MaxTime, failures : 1 .. MaxWrites]
  \cup
  [value : Values, available : {TRUE}, lastSuccess : 1 .. MaxTime,
   lastAttempt : 1 .. MaxTime, failures : 0 .. MaxWrites]
Event == [value : Values \cup {None}, at : 1 .. MaxTime]
Result == [value : Values \cup {None}, available : BOOLEAN, stale : BOOLEAN, failures : Nat,
           lastSuccess : 0 .. MaxTime, now : 1 .. MaxTime, log : Seq(Event)]

TypeOK ==
  /\ clock \in 1 .. MaxTime
  /\ entries \in [Keys -> Entry \cup {None}]
  /\ stamp \in [Goroutines -> 0 .. MaxTime]
  /\ todo \in [Refreshers -> SUBSET Keys]
  /\ log \in [Keys -> Seq(Event)]
  /\ result \in [Readers -> Seq(Result)]
  /\ \A g \in Readers : Len(result[g]) <= 1

\* The successes of a log, by position; the last one, or 0.
Successes(l) == {i \in 1 .. Len(l) : l[i].value # None}
LastSuccess(l) ==
  IF Successes(l) = {} THEN 0
  ELSE CHOOSE i \in Successes(l) : \A j \in Successes(l) : j <= i

\* An entry or a result says what a log says.
Tells(e, l) ==
  LET last == LastSuccess(l)
  IN /\ e.available <=> last # 0
     /\ e.failures = Len(l) - last
     /\ last # 0 => e.value = l[last].value /\ e.lastSuccess = l[last].at

\* What a reader gets is what the attempts at its key since its last deletion say:
\* the value and time of the last success, whatever failed since, and how often.
ReadsTellTheLog ==
  \A g \in Readers : \A i \in 1 .. Len(result[g]) : Tells(result[g][i], result[g][i].log)

\* A value read as fresh was confirmed less than StaleAfter before the read began,
\* even if nothing has been tried since, and a value is stale only if it was not.
FreshnessHonest ==
  StaleAfter > 0 =>
    \A g \in Readers : \A i \in 1 .. Len(result[g]) :
      LET res == result[g][i]
      IN res.available =>
           (res.stale <=> \A j \in Successes(res.log) : res.log[j].at + StaleAfter <= res.now)

\* With one refresh at a time, as a snapshot collector has it, attempts of a key
\* are recorded in the order of their time stamps, and no success is later than
\* the last attempt.
AttemptsInOrder ==
  /\ \A k \in Keys : \A i \in 1 .. Len(log[k]) - 1 : log[k][i].at <= log[k][i + 1].at
  /\ \A k \in Keys : entries[k] # None =>
       entries[k].lastSuccess <= entries[k].lastAttempt

\* What holds of the entries whoever reads.
EntriesInv == TypeOK /\ AttemptsInOrder

=============================================================================
