------------------------------ MODULE TTLCache ------------------------------
(***************************************************************************)
(* exporter/featurekit/ttl_cache.go: a map under a read-write mutex whose  *)
(* expired entries stay until a Get or Len removes them, with counters     *)
(* that are partly added to after the mutex is released.  A section of the *)
(* mutex is one step, and so is an addition to a counter outside of it.    *)
(* Stats is Len followed by reads of the counters.                         *)
(***************************************************************************)
EXTENDS Naturals, FiniteSets

CONSTANTS
  Keys, Values,
  Callers,   \* goroutines that use the cache
  Absent,    \* no entry
  TTLs,      \* durations passed to SetWithTTL, or the cache's own for Set
  MaxTTL,    \* a bound on them
  MaxTime,   \* bound on the clock
  MaxOps     \* bound on the number of calls

ASSUME CacheAssumption ==
  /\ MaxTime \in Nat \ {0} /\ MaxTTL \in Nat /\ MaxOps \in Nat
  /\ TTLs \subseteq 0 .. MaxTTL
  /\ IsFiniteSet(Callers) /\ IsFiniteSet(Keys)
  /\ Absent \notin [value : Values, expiresAt : Nat]

VARIABLES
  clock,
  items,      \* the map: [value, expiresAt] or Absent
  hits, misses, sets, deletes, expired, clears,  \* the counters
  pc,         \* where each caller is
  key,        \* Get's key
  item,       \* what Get read
  lenNow,     \* Len's `now`
  purged,     \* Len's `expired`
  ops,        \* calls made
  dropped     \* history: entries overwritten or cleared, which nothing counts

counters == <<hits, misses, sets, deletes, expired, clears>>
local    == <<key, item, lenNow, purged>>
vars     == <<clock, items, counters, pc, local, ops, dropped>>

\* What SetWithTTL can store: a duration is positive.
Items == [value : Values, expiresAt : 2 .. MaxTime + MaxTTL]
Present == {k \in Keys : items[k] # Absent}
Live(i) == i # Absent /\ clock < i.expiresAt

Init ==
  /\ clock = 1
  /\ items = [k \in Keys |-> Absent]
  /\ hits = 0 /\ misses = 0 /\ sets = 0 /\ deletes = 0 /\ expired = 0 /\ clears = 0
  /\ pc = [c \in Callers |-> "idle"]
  /\ key \in [Callers -> Keys]
  /\ item = [c \in Callers |-> Absent]
  /\ lenNow = [c \in Callers |-> 0]
  /\ purged = [c \in Callers |-> 0]
  /\ ops = 0
  /\ dropped = 0

Goto(c, label) == pc' = [pc EXCEPT ![c] = label]

Call(c) ==
  /\ pc[c] = "idle"
  /\ ops < MaxOps
  /\ ops' = ops + 1

-----------------------------------------------------------------------------
(* Get *)

\* The read-locked section, with its three ways out.
GetRead(c, k) ==
  /\ Call(c)
  /\ Goto(c, IF items[k] = Absent THEN "miss"
             ELSE IF Live(items[k]) THEN "hit" ELSE "evict")
  /\ key' = [key EXCEPT ![c] = k]
  /\ item' = [item EXCEPT ![c] = items[k]]
  /\ UNCHANGED <<clock, items, counters, lenNow, purged, dropped>>

CountHit(c) ==
  /\ pc[c] = "hit"
  /\ hits' = hits + 1
  /\ Goto(c, "idle")
  /\ item' = [item EXCEPT ![c] = Absent]
  /\ UNCHANGED <<clock, items, misses, sets, deletes, expired, clears, key, lenNow,
                 purged, ops, dropped>>

\* Variant: whatever the key holds by now is removed.
EvictAny(c) ==
  /\ pc[c] = "evict"
  /\ IF items[key[c]] # Absent
       THEN /\ items' = [items EXCEPT ![key[c]] = Absent]
            /\ expired' = expired + 1
       ELSE UNCHANGED <<items, expired>>
  /\ Goto(c, "miss")
  /\ UNCHANGED <<clock, hits, misses, sets, deletes, clears, local, ops, dropped>>

\* Variant: the entry is counted as expired also when it is gone already.
EvictCountingTwice(c) ==
  /\ pc[c] = "evict"
  /\ items' = IF items[key[c]] = item[c] THEN [items EXCEPT ![key[c]] = Absent] ELSE items
  /\ expired' = expired + 1
  /\ Goto(c, "miss")
  /\ UNCHANGED <<clock, hits, misses, sets, deletes, clears, local, ops, dropped>>

\* The write-locked section: the entry may be gone or replaced since it was read.
Evict(c) ==
  /\ pc[c] = "evict"
  /\ IF items[key[c]] # Absent /\ items[key[c]].expiresAt = item[c].expiresAt
       THEN /\ items' = [items EXCEPT ![key[c]] = Absent]
            /\ expired' = expired + 1
       ELSE UNCHANGED <<items, expired>>
  /\ Goto(c, "miss")
  /\ UNCHANGED <<clock, hits, misses, sets, deletes, clears, local, ops, dropped>>

CountMiss(c) ==
  /\ pc[c] = "miss"
  /\ misses' = misses + 1
  /\ Goto(c, "idle")
  /\ item' = [item EXCEPT ![c] = Absent]
  /\ UNCHANGED <<clock, items, hits, sets, deletes, expired, clears, key, lenNow,
                 purged, ops, dropped>>

-----------------------------------------------------------------------------
(* Set and SetWithTTL, Delete, Clear *)

\* A duration that is not positive stores nothing and leaves an old entry alone.
SetNothing(c) ==
  /\ Call(c)
  /\ 0 \in TTLs
  /\ UNCHANGED <<clock, items, counters, pc, local, dropped>>

SetWithTTL(c, k) ==
  /\ Call(c)
  /\ \E v \in Values, ttl \in TTLs \ {0} :
       items' = [items EXCEPT ![k] = [value |-> v, expiresAt |-> clock + ttl]]
  /\ dropped' = IF items[k] = Absent THEN dropped ELSE dropped + 1
  /\ Goto(c, "set")
  /\ UNCHANGED <<clock, counters, local>>

CountSet(c) ==
  /\ pc[c] = "set"
  /\ sets' = sets + 1
  /\ Goto(c, "idle")
  /\ UNCHANGED <<clock, items, hits, misses, deletes, expired, clears, local, ops, dropped>>

Delete(c, k) ==
  /\ Call(c)
  /\ items' = [items EXCEPT ![k] = Absent]
  /\ deletes' = IF items[k] = Absent THEN deletes ELSE deletes + 1
  /\ UNCHANGED <<clock, hits, misses, sets, expired, clears, pc, local, dropped>>

Clear(c) ==
  /\ Call(c)
  /\ items' = [k \in Keys |-> Absent]
  /\ dropped' = dropped + Cardinality(Present)
  /\ Goto(c, "clear")
  /\ UNCHANGED <<clock, counters, local>>

CountClear(c) ==
  /\ pc[c] = "clear"
  /\ clears' = clears + 1
  /\ Goto(c, "idle")
  /\ UNCHANGED <<clock, items, hits, misses, sets, deletes, expired, local, ops, dropped>>

-----------------------------------------------------------------------------
(* Len *)

\* Len reads the clock before it locks.
LenEnter(c) ==
  /\ Call(c)
  /\ lenNow' = [lenNow EXCEPT ![c] = clock]
  /\ Goto(c, "len")
  /\ UNCHANGED <<clock, items, counters, key, item, purged, dropped>>

LenPurge(c) ==
  LET dead == {k \in Present : lenNow[c] >= items[k].expiresAt}
  IN /\ pc[c] = "len"
     /\ items' = [k \in Keys |-> IF k \in dead THEN Absent ELSE items[k]]
     /\ purged' = [purged EXCEPT ![c] = Cardinality(dead)]
     /\ lenNow' = [lenNow EXCEPT ![c] = 0]
     /\ Goto(c, IF dead = {} THEN "idle" ELSE "purged")
     /\ UNCHANGED <<clock, counters, key, item, ops, dropped>>

CountPurged(c) ==
  /\ pc[c] = "purged"
  /\ expired' = expired + purged[c]
  /\ purged' = [purged EXCEPT ![c] = 0]
  /\ Goto(c, "idle")
  /\ UNCHANGED <<clock, items, hits, misses, sets, deletes, clears, key, item, lenNow,
                 ops, dropped>>

Tick ==
  /\ clock < MaxTime
  /\ clock' = clock + 1
  /\ UNCHANGED <<items, counters, pc, local, ops, dropped>>

\* Nothing is left to do: not a deadlock.
Idle ==
  /\ ops = MaxOps
  /\ clock = MaxTime
  /\ \A c \in Callers : pc[c] = "idle"
  /\ UNCHANGED vars

Step(c) ==
  \/ CountHit(c) \/ Evict(c) \/ CountMiss(c)
  \/ SetNothing(c) \/ CountSet(c)
  \/ Clear(c) \/ CountClear(c)
  \/ LenEnter(c) \/ LenPurge(c) \/ CountPurged(c)

Next ==
  \/ \E c \in Callers : Step(c)
  \/ \E c \in Callers, k \in Keys : GetRead(c, k) \/ SetWithTTL(c, k) \/ Delete(c, k)
  \/ Tick
  \/ Idle

Spec == Init /\ [][Next]_vars

-----------------------------------------------------------------------------
(* Properties *)

Labels == {"idle", "hit", "evict", "miss", "set", "clear", "len", "purged"}

TypeOK ==
  /\ clock \in 1 .. MaxTime
  /\ items \in [Keys -> Items \cup {Absent}]
  /\ hits \in Nat /\ misses \in Nat /\ sets \in Nat
  /\ deletes \in Nat /\ expired \in Nat /\ clears \in Nat
  /\ pc \in [Callers -> Labels]
  /\ key \in [Callers -> Keys]
  /\ item \in [Callers -> Items \cup {Absent}]
  /\ lenNow \in [Callers -> 0 .. MaxTime]
  /\ purged \in [Callers -> 0 .. Cardinality(Keys)]
  /\ ops \in 0 .. MaxOps
  /\ dropped \in Nat

At(label) == {c \in Callers : pc[c] = label}

\* Entries that a Len has removed and not counted yet: one pair for each.
Uncounted ==
  {u \in Callers \X (1 .. Cardinality(Keys)) : pc[u[1]] = "purged" /\ u[2] <= purged[u[1]]}

\* Every entry ever stored is accounted for exactly once: it is in the map, or it
\* was deleted, has expired, was overwritten or cleared.  Two Gets, or a Get and a
\* Len, that find the same dead entry count it once.  Counters that are added to
\* after unlocking lag behind by the calls still under way.
Accounted ==
  sets + Cardinality(At("set")) =
    Cardinality(Present) + deletes + expired + dropped + Cardinality(Uncounted)

\* The map seen through the clock, and the lookups that have decided.
Answer(c) ==
  CASE pc[c] = "hit" -> <<item[c]>>
    [] pc[c] \in {"evict", "miss"} -> <<Absent>>
    [] OTHER -> <<>>

Map == INSTANCE TTLMap WITH
  entries  <- [k \in Keys |-> IF Live(items[k]) THEN items[k] ELSE Absent],
  puts     <- sets + Cardinality(At("set")),
  removals <- deletes,
  clears   <- clears + Cardinality(At("clear")),
  answer   <- [c \in Callers |-> Answer(c)]

\* Callers see a map whose entries vanish when their time is over and not before,
\* unless somebody deletes, clears or overwrites them: removing dead entries, in
\* whatever order it interleaves with Set, shows nothing.
MapSpec == Map!Spec

=============================================================================
