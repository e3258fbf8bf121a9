--------------------------- MODULE TTLCacheProofs ---------------------------
(***************************************************************************)
(* For any keys, callers and durations, TTLCache implements the map of     *)
(* TTLMap: what expired entries linger in the cache, and which of several  *)
(* calls removes them, cannot be seen.                                     *)
(*                                                                         *)
(* The invariant is about the two calls that act on what they saw before   *)
(* they locked.  A Get that goes on to evict has seen a dead entry         *)
(* (DeadFound): whatever has the same time of expiry now is dead as well,  *)
(* so that evicting it changes nothing that a caller sees, and an entry    *)
(* stored since expires later and is left alone.  And the time by which a  *)
(* Len purges is not ahead of the clock (LenBehind).                       *)
(***************************************************************************)
EXTENDS TTLCache, FiniteSetTheorems, TLAPS

\* A Get evicts only what was dead when it looked.
DeadFound ==
  \A c \in Callers : pc[c] = "evict" => item[c] # Absent /\ item[c].expiresAt <= clock

\* The time of a Len is not ahead of the clock.
LenBehind == \A c \in Callers : lenNow[c] <= clock

CacheInv == TypeOK /\ DeadFound /\ LenBehind

\* An entry is not Absent.
LEMMA EntryPresent ==
  ASSUME NEW i \in Items
  PROVE  i # Absent /\ i.expiresAt \in Nat /\ i.value \in Values
<1>1. i \in [value : Values, expiresAt : Nat]
  BY CacheAssumption DEF Items
<1> QED
  BY <1>1, CacheAssumption

\* The keys can be counted.
LEMMA KeysCounted == Cardinality(Keys) \in Nat
BY CacheAssumption, FS_CardinalityType

\* The cache is empty at first.
LEMMA InitInv == Init => CacheInv
BY CacheAssumption, KeysCounted DEF Init, CacheInv, TypeOK, Labels, DeadFound, LenBehind

\* Steps inside Get.
LEMMA GetInv ==
  ASSUME CacheInv, NEW c \in Callers,
         (\E k \in Keys : GetRead(c, k)) \/ CountHit(c) \/ Evict(c) \/ CountMiss(c)
  PROVE  CacheInv'
<1> USE CacheAssumption DEF CacheInv, Goto, Call, counters, local
<1>1. ASSUME NEW k \in Keys, GetRead(c, k) PROVE CacheInv'
  <2> USE <1>1 DEF GetRead
  <2>1. TypeOK'
    BY DEF TypeOK, Labels
  <2>2. pc'[c] = "evict" => items[k] # Absent /\ items[k].expiresAt <= clock
    <3>1. items[k] # Absent => items[k].expiresAt \in Nat
      BY EntryPresent DEF TypeOK
    <3> QED
      BY <3>1 DEF TypeOK, Live
  <2>3. DeadFound'
    BY <2>2 DEF DeadFound, TypeOK
  <2> QED
    BY <2>1, <2>3 DEF LenBehind
<1>2. CASE CountHit(c)
  BY <1>2 DEF CountHit, TypeOK, Labels, DeadFound, LenBehind
<1>3. CASE Evict(c)
  <2>1. TypeOK'
    BY <1>3 DEF Evict, TypeOK, Labels
  <2> QED
    BY <1>3, <2>1 DEF Evict, TypeOK, DeadFound, LenBehind
<1>4. CASE CountMiss(c)
  BY <1>4 DEF CountMiss, TypeOK, Labels, DeadFound, LenBehind
<1> QED
  BY <1>1, <1>2, <1>3, <1>4

\* Sets, deletions and clears.
LEMMA WriteInv ==
  ASSUME CacheInv, NEW c \in Callers,
         \/ SetNothing(c) \/ CountSet(c) \/ Clear(c) \/ CountClear(c)
         \/ \E k \in Keys : SetWithTTL(c, k) \/ Delete(c, k)
  PROVE  CacheInv'
<1> USE CacheAssumption DEF CacheInv, Goto, Call, counters, local
<1>1. ASSUME NEW k \in Keys, SetWithTTL(c, k) PROVE CacheInv'
  <2>1. PICK v \in Values, ttl \in TTLs \ {0} :
          items' = [items EXCEPT ![k] = [value |-> v, expiresAt |-> clock + ttl]]
    BY <1>1 DEF SetWithTTL
  <2>2. clock + ttl \in 2 .. MaxTime + MaxTTL
    BY DEF TypeOK
  <2>3. [value |-> v, expiresAt |-> clock + ttl] \in Items
    BY <2>2 DEF Items
  <2>4. items' \in [Keys -> Items \cup {Absent}]
    BY <2>1, <2>3 DEF TypeOK
  <2>5. TypeOK'
    BY <1>1, <2>4 DEF SetWithTTL, TypeOK, Labels
  <2> QED
    BY <1>1, <2>5 DEF SetWithTTL, TypeOK, DeadFound, LenBehind
<1>2. ASSUME NEW k \in Keys, Delete(c, k) PROVE CacheInv'
  BY <1>2 DEF Delete, TypeOK, DeadFound, LenBehind
<1>3. CASE SetNothing(c)
  BY <1>3 DEF SetNothing, TypeOK, DeadFound, LenBehind
<1>4. CASE CountSet(c)
  BY <1>4 DEF CountSet, TypeOK, Labels, DeadFound, LenBehind
<1>5. CASE Clear(c)
  <2>1. Cardinality(Present) \in Nat
    BY FS_Subset, FS_CardinalityType DEF Present
  <2> QED
    BY <1>5, <2>1 DEF Clear, TypeOK, Labels, DeadFound, LenBehind
<1>6. CASE CountClear(c)
  BY <1>6 DEF CountClear, TypeOK, Labels, DeadFound, LenBehind
<1> QED
  BY <1>1, <1>2, <1>3, <1>4, <1>5, <1>6

\* Len, and the clock.
LEMMA LenInv ==
  ASSUME CacheInv, NEW c \in Callers, LenEnter(c) \/ LenPurge(c) \/ CountPurged(c)
  PROVE  CacheInv'
<1> USE CacheAssumption DEF CacheInv, Goto, Call, counters, local
<1>1. CASE LenEnter(c)
  BY <1>1 DEF LenEnter, TypeOK, Labels, DeadFound, LenBehind
<1>2. CASE LenPurge(c)
  <2> DEFINE dead == {k \in Present : lenNow[c] >= items[k].expiresAt}
  <2>1. Cardinality(dead) \in 0 .. Cardinality(Keys)
    <3>1. dead \in SUBSET Keys
      BY DEF Present
    <3> HIDE DEF dead
    <3>2. Cardinality(dead) \in Nat /\ Cardinality(dead) <= Cardinality(Keys)
      BY <3>1, FS_Subset, FS_CardinalityType
    <3> QED
      BY <3>2, KeysCounted
  <2> HIDE DEF dead
  <2>2. /\ items' = [k \in Keys |-> IF k \in dead THEN Absent ELSE items[k]]
        /\ purged' = [purged EXCEPT ![c] = Cardinality(dead)]
        /\ pc' = [pc EXCEPT ![c] = IF dead = {} THEN "idle" ELSE "purged"]
        /\ lenNow' = [lenNow EXCEPT ![c] = 0]
        /\ UNCHANGED <<clock, counters, key, item, ops, dropped>>
    BY <1>2 DEF LenPurge, dead
  <2>3. TypeOK'
    BY <2>1, <2>2 DEF TypeOK, Labels
  <2> QED
    BY <2>2, <2>3 DEF TypeOK, DeadFound, LenBehind
<1>3. CASE CountPurged(c)
  BY <1>3, KeysCounted DEF CountPurged, TypeOK, Labels, DeadFound, LenBehind
<1> QED
  BY <1>1, <1>2, <1>3

LEMMA TickInv == CacheInv /\ Tick => CacheInv'
<1> SUFFICES ASSUME CacheInv, Tick PROVE CacheInv'
  OBVIOUS
<1>1. TypeOK'
  BY CacheAssumption DEF CacheInv, Tick, TypeOK, counters, local
<1>2. \A c \in Callers : item[c] # Absent => item[c].expiresAt \in Nat
  BY EntryPresent DEF CacheInv, TypeOK
<1> QED
  BY <1>1, <1>2, CacheAssumption DEF CacheInv, Tick, TypeOK, counters, local, DeadFound, LenBehind

\* The invariant holds in all states.
THEOREM Invariance == Spec => []CacheInv
<1>1. CacheInv /\ [Next]_vars => CacheInv'
  <2> SUFFICES ASSUME CacheInv, [Next]_vars PROVE CacheInv'
    OBVIOUS
  <2>1. CASE Idle \/ UNCHANGED vars
    BY <2>1 DEF Idle, vars, counters, local, CacheInv, TypeOK, DeadFound, LenBehind
  <2> QED
    BY <2>1, GetInv, WriteInv, LenInv, TickInv DEF Next, Step
<1> QED
  BY InitInv, <1>1, PTL DEF Spec

-----------------------------------------------------------------------------
(* The cache implements the map *)

\* What callers see: the live entries, the calls counted or about to be, the answers.
Seen == [k \in Keys |-> IF Live(items[k]) THEN items[k] ELSE Absent]
Puts == sets + Cardinality(At("set"))
Clears == clears + Cardinality(At("clear"))
Answers == [c \in Callers |-> Answer(c)]

\* One caller that moves to another label changes two of the counts by one.
LEMMA AtMoves ==
  ASSUME pc \in [Callers -> Labels], NEW c \in Callers, NEW to \in Labels,
         pc' = [pc EXCEPT ![c] = to], NEW label \in Labels
  PROVE  /\ Cardinality(At(label)) \in Nat
         /\ label \notin {pc[c], to} \/ pc[c] = to => At(label)' = At(label)
         /\ label = to /\ to # pc[c] => Cardinality(At(label)') = Cardinality(At(label)) + 1
         /\ label = pc[c] /\ to # pc[c] => Cardinality(At(label)') = Cardinality(At(label)) - 1
<1>1. IsFiniteSet(At(label))
  BY FS_Subset, CacheAssumption DEF At
<1>2. Cardinality(At(label)) \in Nat
  BY <1>1, FS_CardinalityType
<1>3. ASSUME label \notin {pc[c], to} \/ pc[c] = to PROVE At(label)' = At(label)
  BY <1>3 DEF At
<1>4. ASSUME label = to, to # pc[c]
      PROVE  Cardinality(At(label)') = Cardinality(At(label)) + 1
  <2>1. At(label)' = At(label) \cup {c} /\ c \notin At(label)
    BY <1>4 DEF At
  <2> QED
    BY <2>1, <1>1, FS_AddElement
<1>5. ASSUME label = pc[c], to # pc[c]
      PROVE  Cardinality(At(label)') = Cardinality(At(label)) - 1
  <2>1. At(label)' = At(label) \ {c} /\ c \in At(label)
    BY <1>5 DEF At
  <2> QED
    BY <2>1, <1>1, FS_RemoveElement
<1> QED
  BY <1>2, <1>3, <1>4, <1>5

\* An answer is no empty one.
LEMMA SomeAnswer == \A x : <<x>> # <<>>
  OBVIOUS

LEMMA InitMap == Init => Map!Init
<1> SUFFICES ASSUME Init PROVE Map!Init
  OBVIOUS
<1>1. At("set") = {} /\ At("clear") = {}
  BY DEF Init, At
<1>2. Puts = 0 /\ Clears = 0
  BY <1>1, FS_EmptySet DEF Init, Puts, Clears
<1>3. Seen = [k \in Keys |-> Absent]
  BY DEF Init, Seen
<1>4. Answers = [c \in Callers |-> <<>>]
  BY DEF Init, Answers, Answer
<1> QED
  BY <1>2, <1>3, <1>4 DEF Init, Map!Init, Puts, Clears, Seen, Answers

\* What a step must show: one of the map's steps, or nothing.
Shown == Map!Next \/ UNCHANGED Map!vars

LEMMA Unseen ==
  ASSUME UNCHANGED <<clock, Seen, Puts, deletes, Clears, Answers>>
  PROVE  Shown
BY DEF Shown, Map!vars, Map!counts, Seen, Puts, Clears, Answers

\* A lookup is answered at the instant of the read-locked section.
LEMMA LookupShown ==
  ASSUME CacheInv, NEW c \in Callers, NEW k \in Keys, GetRead(c, k)
  PROVE  Shown
<1> USE DEF GetRead, Call, Goto, counters
<1>1. pc \in [Callers -> Labels] /\ item \in [Callers -> Items \cup {Absent}]
  BY DEF CacheInv, TypeOK
<1>2. pc'[c] \in Labels \ {"set", "clear"} /\ pc[c] = "idle" /\ pc' = [pc EXCEPT ![c] = pc'[c]]
  BY <1>1 DEF Labels
<1>3. At("set")' = At("set") /\ At("clear")' = At("clear")
  BY <1>1, <1>2, AtMoves DEF Labels
<1>4. UNCHANGED <<clock, Seen, Puts, deletes, Clears>>
  BY <1>3 DEF Seen, Puts, Clears, Live
<1>5. Answers[c] = <<>> /\ Answers'[c] = <<Seen[k]>>
  BY <1>1, <1>2 DEF Answers, Answer, Seen, Live
<1>6. Answers' = [Answers EXCEPT ![c] = <<Seen[k]>>]
  BY <1>1, <1>5 DEF Answers, Answer
<1>7. Map!Lookup(c, k)
  BY <1>4, <1>5, <1>6 DEF Map!Lookup, Map!counts, Seen, Puts, Clears, Answers
<1> QED
  BY <1>7 DEF Shown, Map!Next

\* A reply ends a Get.
LEMMA ReplyShown ==
  ASSUME CacheInv, NEW c \in Callers, CountHit(c) \/ CountMiss(c)
  PROVE  Shown
<1> USE DEF CountHit, CountMiss, Goto, counters
<1>1. pc \in [Callers -> Labels] /\ item \in [Callers -> Items \cup {Absent}]
  BY DEF CacheInv, TypeOK
<1>2. pc[c] \in {"hit", "miss"} /\ pc' = [pc EXCEPT ![c] = "idle"]
  OBVIOUS
<1>3. At("set")' = At("set") /\ At("clear")' = At("clear")
  BY <1>1, <1>2, AtMoves DEF Labels
<1>4. UNCHANGED <<clock, Seen, Puts, deletes, Clears>>
  BY <1>3 DEF Seen, Puts, Clears, Live
<1>5. Answers[c] # <<>> /\ Answers'[c] = <<>>
  BY <1>1, <1>2, SomeAnswer DEF Answers, Answer
<1>6. Answers' = [Answers EXCEPT ![c] = <<>>]
  BY <1>1, <1>5 DEF Answers, Answer
<1>7. Map!Reply(c)
  BY <1>4, <1>5, <1>6 DEF Map!Reply, Map!counts, Seen, Puts, Clears, Answers
<1> QED
  BY <1>7 DEF Shown, Map!Next

\* What Evict removes is dead: it has the time of expiry of an entry that was.
LEMMA EvictShown ==
  ASSUME CacheInv, NEW c \in Callers, Evict(c)
  PROVE  Shown
<1> USE DEF Evict, Goto, local
<1>1. /\ pc \in [Callers -> Labels] /\ items \in [Keys -> Items \cup {Absent}]
      /\ item \in [Callers -> Items \cup {Absent}] /\ key \in [Callers -> Keys]
      /\ clock \in Nat
  BY CacheAssumption DEF CacheInv, TypeOK
<1>2. pc' = [pc EXCEPT ![c] = "miss"] /\ pc[c] = "evict"
  OBVIOUS
<1>3. At("set")' = At("set") /\ At("clear")' = At("clear")
  BY <1>1, <1>2, AtMoves DEF Labels
<1>4. item[c] # Absent /\ item[c].expiresAt <= clock /\ item[c].expiresAt \in Nat
  BY <1>1, <1>2, EntryPresent DEF CacheInv, DeadFound
<1>5. items' # items => ~Live(items[key[c]]) /\ items' = [items EXCEPT ![key[c]] = Absent]
  BY <1>1, <1>4 DEF Live
<1>6. Seen' = Seen
  BY <1>1, <1>5 DEF Seen, Live
<1>7. Answers' = Answers
  BY <1>1, <1>2 DEF Answers, Answer
<1> QED
  BY <1>3, <1>6, <1>7, Unseen DEF Puts, Clears

\* A Set puts its entry when it locks, and a Delete removes one.
LEMMA SetShown ==
  ASSUME CacheInv, NEW c \in Callers, NEW k \in Keys, SetWithTTL(c, k)
  PROVE  Shown
<1> USE DEF SetWithTTL, Call, Goto, counters, local
<1>1. /\ pc \in [Callers -> Labels] /\ items \in [Keys -> Items \cup {Absent}]
      /\ clock \in Nat /\ sets \in Nat
  BY CacheAssumption DEF CacheInv, TypeOK
<1>2. pc' = [pc EXCEPT ![c] = "set"] /\ pc[c] = "idle"
  OBVIOUS
<1>3. /\ Cardinality(At("set")) \in Nat /\ Cardinality(At("set")') = Cardinality(At("set")) + 1
      /\ At("clear")' = At("clear")
  BY <1>1, <1>2, AtMoves DEF Labels
<1>4. Puts' = Puts + 1 /\ Clears' = Clears
  BY <1>1, <1>3 DEF Puts, Clears
<1>5. PICK v \in Values, ttl \in TTLs \ {0} :
        items' = [items EXCEPT ![k] = [value |-> v, expiresAt |-> clock + ttl]]
  OBVIOUS
<1> DEFINE entry == [value |-> v, expiresAt |-> clock + ttl]
<1>6. ttl \in 1 .. MaxTTL /\ clock + ttl \in clock + 1 .. clock + MaxTTL
  BY <1>1, CacheAssumption
<1>7. entry.expiresAt > clock /\ entry \in [value : Values, expiresAt : Nat]
  BY <1>1, <1>6
<1>8. entry # Absent
  BY <1>7, CacheAssumption
<1>9. Seen' = [Seen EXCEPT ![k] = entry]
  <2>1. PICK e : e = entry
    OBVIOUS
  <2>2. items' = [items EXCEPT ![k] = e] /\ e # Absent /\ clock < e.expiresAt
    BY <1>1, <1>5, <1>7, <1>8, <2>1
  <2> HIDE DEF entry
  <2>3. Seen' = [Seen EXCEPT ![k] = e]
    BY <1>1, <2>2 DEF Seen, Live
  <2> QED
    BY <2>1, <2>3
<1>10. Answers' = Answers
  BY <1>1, <1>2 DEF Answers, Answer
<1>11. Map!Put(k)
  BY <1>4, <1>6, <1>9, <1>10 DEF Map!Put, Seen, Puts, Clears, Answers
<1> QED
  BY <1>11 DEF Shown, Map!Next

LEMMA DeleteShown ==
  ASSUME CacheInv, NEW c \in Callers, NEW k \in Keys, Delete(c, k)
  PROVE  Shown
<1> USE DEF Delete, Call, local
<1>1. items \in [Keys -> Items \cup {Absent}]
  BY DEF CacheInv, TypeOK
<1>2. Puts' = Puts /\ Clears' = Clears /\ Answers' = Answers
  BY DEF Puts, Clears, Answers, Answer, At
<1>3. Seen' = [Seen EXCEPT ![k] = Absent]
  BY <1>1 DEF Seen, Live
<1>4. CASE items[k] = Absent
  <2>1. Seen' = Seen
    BY <1>1, <1>4 DEF Seen, Live
  <2> QED
    BY <1>2, <1>4, <2>1, Unseen
<1>5. CASE items[k] # Absent
  <2>1. Map!Remove(k)
    BY <1>2, <1>3, <1>5 DEF Map!Remove, Seen, Puts, Clears, Answers
  <2> QED
    BY <2>1 DEF Shown, Map!Next
<1> QED
  BY <1>4, <1>5

LEMMA ClearShown ==
  ASSUME CacheInv, NEW c \in Callers, Clear(c)
  PROVE  Shown
<1> USE DEF Clear, Call, Goto, counters, local
<1>1. pc \in [Callers -> Labels] /\ clears \in Nat
  BY DEF CacheInv, TypeOK
<1>2. pc' = [pc EXCEPT ![c] = "clear"] /\ pc[c] = "idle"
  OBVIOUS
<1>3. /\ Cardinality(At("clear")) \in Nat
      /\ Cardinality(At("clear")') = Cardinality(At("clear")) + 1
      /\ At("set")' = At("set")
  BY <1>1, <1>2, AtMoves DEF Labels
<1>4. Clears' = Clears + 1 /\ Puts' = Puts
  BY <1>1, <1>3 DEF Puts, Clears
<1>5. Seen' = [k \in Keys |-> Absent]
  BY DEF Seen, Live
<1>6. Answers' = Answers
  BY <1>1, <1>2 DEF Answers, Answer
<1>7. Map!RemoveAll
  BY <1>4, <1>5, <1>6 DEF Map!RemoveAll, Seen, Puts, Clears, Answers
<1> QED
  BY <1>7 DEF Shown, Map!Next

\* A Len removes what is dead by its own time, and so by the clock.
LEMMA LenShown ==
  ASSUME CacheInv, NEW c \in Callers, LenPurge(c)
  PROVE  Shown
<1> DEFINE dead == {k \in Present : lenNow[c] >= items[k].expiresAt}
           to == IF dead = {} THEN "idle" ELSE "purged"
<1>1. /\ pc \in [Callers -> Labels] /\ items \in [Keys -> Items \cup {Absent}]
      /\ lenNow[c] \in Nat /\ clock \in Nat /\ lenNow[c] <= clock
  BY CacheAssumption DEF CacheInv, TypeOK, LenBehind
<1>2. /\ pc[c] = "len" /\ pc' = [pc EXCEPT ![c] = to]
      /\ items' = [k \in Keys |-> IF k \in dead THEN Absent ELSE items[k]]
      /\ UNCHANGED <<clock, counters, item>>
  BY DEF LenPurge, Goto
<1>3. \A k \in dead : ~Live(items[k])
  BY <1>1, EntryPresent DEF Present, Live
<1> HIDE DEF dead
<1>4. At("set")' = At("set") /\ At("clear")' = At("clear")
  <2>1. to \in Labels \ {"set", "clear"}
    BY DEF Labels
  <2> HIDE DEF to
  <2> QED
    BY <1>1, <1>2, <2>1, AtMoves DEF Labels
<1>5. Seen' = Seen
  BY <1>1, <1>2, <1>3 DEF Seen, Live
<1>6. Answers' = Answers
  BY <1>1, <1>2 DEF Answers, Answer
<1> QED
  BY <1>2, <1>4, <1>5, <1>6, Unseen DEF Puts, Clears, counters

\* Additions to the counters after unlocking are not seen, nor is a Set of nothing or
\* the beginning of a Len.
LEMMA CountShown ==
  ASSUME CacheInv, NEW c \in Callers,
         CountSet(c) \/ CountClear(c) \/ CountPurged(c) \/ SetNothing(c) \/ LenEnter(c)
  PROVE  Shown
<1> USE DEF CountSet, CountClear, CountPurged, SetNothing, LenEnter, Call, Goto, counters, local
<1>1. pc \in [Callers -> Labels] /\ sets \in Nat /\ clears \in Nat
  BY DEF CacheInv, TypeOK
<1>2. Seen' = Seen /\ UNCHANGED <<clock, deletes>>
  BY DEF Seen, Live
<1>3. Answers' = Answers
  BY <1>1 DEF Answers, Answer
<1>4. Puts' = Puts /\ Clears' = Clears
  <2>1. CASE CountSet(c)
    <3>1. pc' = [pc EXCEPT ![c] = "idle"] /\ pc[c] = "set"
      BY <2>1
    <3>2. /\ Cardinality(At("set")) \in Nat
          /\ Cardinality(At("set")') = Cardinality(At("set")) - 1
          /\ At("clear")' = At("clear")
      BY <1>1, <3>1, AtMoves DEF Labels
    <3> QED
      BY <1>1, <2>1, <3>2 DEF Puts, Clears
  <2>2. CASE CountClear(c)
    <3>1. pc' = [pc EXCEPT ![c] = "idle"] /\ pc[c] = "clear"
      BY <2>2
    <3>2. /\ Cardinality(At("clear")) \in Nat
          /\ Cardinality(At("clear")') = Cardinality(At("clear")) - 1
          /\ At("set")' = At("set")
      BY <1>1, <3>1, AtMoves DEF Labels
    <3> QED
      BY <1>1, <2>2, <3>2 DEF Puts, Clears
  <2>3. CASE CountPurged(c) \/ SetNothing(c) \/ LenEnter(c)
    <3>1. At("set")' = At("set") /\ At("clear")' = At("clear")
      BY <1>1, <2>3 DEF At
    <3> QED
      BY <2>3, <3>1 DEF Puts, Clears
  <2> QED
    BY <2>1, <2>2, <2>3
<1> QED
  BY <1>2, <1>3, <1>4, Unseen

\* Entries vanish from the map as the clock passes them.
LEMMA TickShown == CacheInv /\ Tick => Shown
<1> SUFFICES ASSUME CacheInv, Tick PROVE Shown
  OBVIOUS
<1> USE DEF Tick, counters, local
<1>1. items \in [Keys -> Items \cup {Absent}] /\ clock \in Nat
  BY CacheAssumption DEF CacheInv, TypeOK
<1>2. \A k \in Keys : items[k] # Absent => items[k].expiresAt \in Nat
  BY <1>1, EntryPresent
<1>3. Seen' = [k \in Keys |-> IF Seen[k] # Absent /\ Seen[k].expiresAt > clock'
                              THEN Seen[k] ELSE Absent]
  BY <1>1, <1>2 DEF Seen, Live
<1>4. Puts' = Puts /\ Clears' = Clears /\ Answers' = Answers
  BY DEF Puts, Clears, Answers, Answer, At
<1>5. Map!Tick
  BY <1>3, <1>4 DEF Map!Tick, Map!counts, Seen, Puts, Clears, Answers
<1> QED
  BY <1>5 DEF Shown, Map!Next

\* Callers see a map whose entries vanish when their time is over and not before: no
\* interleaving of evictions and purges with Set, Delete and Clear shows.
THEOREM ImplementsMap == Spec => MapSpec
<1>1. CacheInv /\ [Next]_vars => [Map!Next]_(Map!vars)
  <2> SUFFICES ASSUME CacheInv, [Next]_vars PROVE Shown
    BY DEF Shown
  <2>1. CASE Idle \/ UNCHANGED vars
    <3>1. UNCHANGED <<clock, Seen, Puts, deletes, Clears, Answers>>
      BY <2>1 DEF Idle, vars, counters, local, Seen, Live, Puts, Clears, Answers, Answer, At
    <3> QED
      BY <3>1, Unseen
  <2> QED
    BY <2>1, LookupShown, ReplyShown, EvictShown, SetShown, DeleteShown, ClearShown, LenShown,
       CountShown, TickShown DEF Next, Step
<1> QED
  BY InitMap, <1>1, Invariance, PTL DEF Spec, MapSpec, Map!Spec

-----------------------------------------------------------------------------
(* Every entry is accounted for once *)

\* The counts are numbers.
LEMMA Counts ==
  /\ IsFiniteSet(Present) /\ Cardinality(Present) \in Nat
  /\ IsFiniteSet(Uncounted) /\ Cardinality(Uncounted) \in Nat
  /\ Cardinality(Keys) \in Nat
<1>1. IsFiniteSet(Present)
  BY CacheAssumption, FS_Subset DEF Present
<1>2. IsFiniteSet(Callers \X (1 .. Cardinality(Keys)))
  <2>1. IsFiniteSet(1 .. Cardinality(Keys))
    BY KeysCounted, FS_Interval
  <2> QED
    BY <2>1, CacheAssumption, FS_Product
<1>3. IsFiniteSet(Uncounted)
  <2>1. Uncounted \in SUBSET (Callers \X (1 .. Cardinality(Keys)))
    BY DEF Uncounted
  <2> QED
    BY <1>2, <2>1, FS_Subset
<1> QED
  BY <1>1, <1>3, KeysCounted, FS_CardinalityType

\* The number of entries when one key is written or removed.
LEMMA PresentMoves ==
  ASSUME items \in [Keys -> Items \cup {Absent}], NEW k \in Keys, NEW e,
         items' = [items EXCEPT ![k] = e]
  PROVE  /\ e = Absent /\ items[k] # Absent =>
              Cardinality(Present') = Cardinality(Present) - 1
         /\ e # Absent /\ items[k] = Absent =>
              Cardinality(Present') = Cardinality(Present) + 1
         /\ (e = Absent) = (items[k] = Absent) => Present' = Present
<1>1. CASE e = Absent
  <2>1. Present' = Present \ {k}
    BY <1>1 DEF Present
  <2>2. IsFiniteSet(Present) /\ (k \in Present <=> items[k] # Absent)
    BY Counts DEF Present
  <2> QED
    BY <1>1, <2>1, <2>2, FS_RemoveElement
<1>2. CASE e # Absent
  <2>1. Present' = Present \cup {k}
    BY <1>2 DEF Present
  <2>2. IsFiniteSet(Present) /\ (k \in Present <=> items[k] # Absent)
    BY Counts DEF Present
  <2> QED
    BY <1>2, <2>1, <2>2, FS_AddElement
<1> QED
  BY <1>1, <1>2

\* Only Len makes and counts removals that are not counted yet.
LEMMA UncountedStays ==
  ASSUME pc \in [Callers -> Labels], NEW c \in Callers, NEW to \in Labels,
         pc' = [pc EXCEPT ![c] = to], UNCHANGED purged,
         pc[c] # "purged", to # "purged"
  PROVE  Uncounted' = Uncounted
<1>1. \A d \in Callers : (pc'[d] = "purged") <=> (pc[d] = "purged")
  OBVIOUS
<1> QED
  BY <1>1 DEF Uncounted

\* What a caller that is at "purged" has to count.
LEMMA UncountedMoves ==
  ASSUME TypeOK, NEW c \in Callers, NEW n \in 0 .. Cardinality(Keys),
         \A d \in Callers \ {c} : pc'[d] = pc[d] /\ purged'[d] = purged[d]
  PROVE  /\ /\ pc[c] # "purged" /\ pc'[c] = "purged" /\ purged'[c] = n
            => Cardinality(Uncounted') = Cardinality(Uncounted) + n
         /\ /\ pc'[c] # "purged" /\ pc[c] = "purged" /\ purged[c] = n
            => Cardinality(Uncounted') = Cardinality(Uncounted) - n
<1> DEFINE mine == {c} \X (1 .. n)
<1>1. Cardinality(Keys) \in Nat /\ n \in Nat /\ n <= Cardinality(Keys)
  BY Counts
<1>2. IsFiniteSet(mine) /\ Cardinality(mine) = n
  <2>1. IsFiniteSet({c}) /\ Cardinality({c}) = 1
    BY FS_Singleton
  <2>2. IsFiniteSet(1 .. n) /\ Cardinality(1 .. n) = n
    BY <1>1, FS_Interval
  <2>3. IsFiniteSet(mine) /\ Cardinality(mine) = Cardinality({c}) * Cardinality(1 .. n)
    BY <2>1, <2>2, FS_Product
  <2> QED
    BY <1>1, <2>1, <2>2, <2>3
<1>3. mine \subseteq Callers \X (1 .. Cardinality(Keys))
  BY <1>1
<1>4. ASSUME pc[c] # "purged", pc'[c] = "purged", purged'[c] = n
      PROVE  Cardinality(Uncounted') = Cardinality(Uncounted) + n
  <2>1. Uncounted' = Uncounted \cup mine
    BY <1>1, <1>4 DEF Uncounted
  <2>2. Uncounted \cap mine = {}
    BY <1>4 DEF Uncounted
  <2> HIDE DEF mine
  <2> QED
    BY <1>1, <1>2, <2>1, <2>2, Counts, FS_Union, FS_EmptySet
<1>5. ASSUME pc'[c] # "purged", pc[c] = "purged", purged[c] = n
      PROVE  Cardinality(Uncounted') = Cardinality(Uncounted) - n
  <2>1. Uncounted = Uncounted' \cup mine
    BY <1>1, <1>5 DEF Uncounted
  <2>2. Uncounted' \cap mine = {}
    BY <1>5 DEF Uncounted
  <2>3. IsFiniteSet(Uncounted') /\ Cardinality(Uncounted') \in Nat
    <3>1. Uncounted' \subseteq Uncounted
      BY <2>1
    <3> QED
      BY <3>1, Counts, FS_Subset, FS_CardinalityType
  <2> HIDE DEF mine
  <2> QED
    BY <1>1, <1>2, <2>1, <2>2, <2>3, FS_Union, FS_EmptySet
<1> QED
  BY <1>4, <1>5

\* A caller that moves between other labels counts no Set and no purge.
LEMMA LabelStays ==
  ASSUME TypeOK, NEW c \in Callers, NEW to \in Labels, pc' = [pc EXCEPT ![c] = to],
         to \notin {"set", "purged"}, pc[c] \notin {"set", "purged"}, UNCHANGED <<sets, purged>>
  PROVE  /\ sets' = sets /\ At("set")' = At("set") /\ Cardinality(At("set")) \in Nat
         /\ Uncounted' = Uncounted
<1>1. pc \in [Callers -> Labels]
  BY DEF TypeOK
<1>2. At("set")' = At("set") /\ Cardinality(At("set")) \in Nat
  BY <1>1, AtMoves DEF Labels
<1>3. Uncounted' = Uncounted
  BY <1>1, UncountedStays
<1> QED
  BY <1>2, <1>3

\* Nor does it change what is stored.
LEMMA QuietAccounted ==
  ASSUME TypeOK, Accounted, NEW c \in Callers, NEW to \in Labels,
         pc' = [pc EXCEPT ![c] = to], to \notin {"set", "purged"}, pc[c] \notin {"set", "purged"},
         UNCHANGED <<items, sets, deletes, expired, dropped, purged>>
  PROVE  Accounted'
<1>1. Present' = Present
  BY DEF Present
<1>2. sets' = sets /\ At("set")' = At("set") /\ Uncounted' = Uncounted
  BY LabelStays
<1> QED
  BY <1>1, <1>2 DEF Accounted

\* Types of what is counted.
LEMMA Tallies ==
  ASSUME TypeOK
  PROVE  /\ pc \in [Callers -> Labels] /\ items \in [Keys -> Items \cup {Absent}]
         /\ sets \in Nat /\ deletes \in Nat /\ expired \in Nat /\ dropped \in Nat
         /\ Cardinality(Present) \in Nat /\ Cardinality(Uncounted) \in Nat
         /\ Cardinality(At("set")) \in Nat
<1>1. Cardinality(At("set")) \in Nat
  <2>1. At("set") \in SUBSET Callers
    BY DEF At
  <2> QED
    BY <2>1, CacheAssumption, FS_Subset, FS_CardinalityType
<1> QED
  BY <1>1, Counts DEF TypeOK

\* Steps of a Get count at most the entry they evict.
LEMMA GetAccounted ==
  ASSUME TypeOK, Accounted, NEW c \in Callers,
         (\E k \in Keys : GetRead(c, k)) \/ CountHit(c) \/ Evict(c) \/ CountMiss(c)
  PROVE  Accounted'
<1> USE DEF Goto, Call, counters, local
<1>1. CASE \E k \in Keys : GetRead(c, k)
  <2>1. PICK k \in Keys : GetRead(c, k)
    BY <1>1
  <2> DEFINE to == IF items[k] = Absent THEN "miss" ELSE IF Live(items[k]) THEN "hit" ELSE "evict"
  <2>2. to \in Labels /\ to \notin {"set", "purged"}
    BY DEF Labels
  <2>3. /\ pc' = [pc EXCEPT ![c] = to] /\ pc[c] = "idle"
        /\ UNCHANGED <<items, sets, deletes, expired, dropped, purged>>
    BY <2>1 DEF GetRead
  <2> HIDE DEF to
  <2> QED
    BY <2>2, <2>3, QuietAccounted
<1>2. CASE CountHit(c)
  BY <1>2, QuietAccounted DEF CountHit, Labels
<1>3. CASE CountMiss(c)
  BY <1>3, QuietAccounted DEF CountMiss, Labels
<1>4. CASE Evict(c)
  <2>1. /\ pc' = [pc EXCEPT ![c] = "miss"] /\ pc[c] = "evict"
        /\ UNCHANGED <<sets, deletes, dropped, purged>>
    BY <1>4 DEF Evict
  <2>2. CASE items[key[c]] # Absent /\ items[key[c]].expiresAt = item[c].expiresAt
    <3>1. items' = [items EXCEPT ![key[c]] = Absent] /\ expired' = expired + 1
      BY <1>4, <2>2 DEF Evict
    <3>2. Cardinality(Present') = Cardinality(Present) - 1
      BY <2>2, <3>1, PresentMoves DEF TypeOK
    <3>3. sets' = sets /\ At("set")' = At("set") /\ Uncounted' = Uncounted
      BY <2>1, LabelStays DEF Labels
    <3> QED
      BY <2>1, <3>1, <3>2, <3>3, Tallies DEF Accounted
  <2>3. CASE ~(items[key[c]] # Absent /\ items[key[c]].expiresAt = item[c].expiresAt)
    BY <1>4, <2>1, <2>3, QuietAccounted DEF Evict, Labels
  <2> QED
    BY <2>2, <2>3
<1> QED
  BY <1>1, <1>2, <1>3, <1>4

\* A Set stores an entry and drops the one before; the Set is counted, or about to be.
LEMMA SetAccounted ==
  ASSUME TypeOK, Accounted, NEW c \in Callers,
         SetNothing(c) \/ (\E k \in Keys : SetWithTTL(c, k)) \/ CountSet(c)
  PROVE  Accounted'
<1> USE DEF Goto, Call, counters, local
<1>1. CASE SetNothing(c)
  <2>1. UNCHANGED <<items, sets, deletes, expired, dropped, purged, pc>>
    BY <1>1 DEF SetNothing
  <2> QED
    BY <2>1 DEF Accounted, Present, Uncounted, At
<1>2. ASSUME NEW k \in Keys, SetWithTTL(c, k) PROVE Accounted'
  <2>1. /\ pc' = [pc EXCEPT ![c] = "set"] /\ pc[c] = "idle"
        /\ UNCHANGED <<sets, deletes, expired, purged>>
        /\ dropped' = IF items[k] = Absent THEN dropped ELSE dropped + 1
    BY <1>2 DEF SetWithTTL
  <2>2. PICK v \in Values, ttl \in TTLs \ {0} :
          items' = [items EXCEPT ![k] = [value |-> v, expiresAt |-> clock + ttl]]
    BY <1>2 DEF SetWithTTL
  <2>3. clock + ttl \in Nat
    BY CacheAssumption DEF TypeOK
  <2>4. PICK e : e = [value |-> v, expiresAt |-> clock + ttl]
    OBVIOUS
  <2>5. e # Absent
    BY <2>3, <2>4, CacheAssumption
  <2>6. IF items[k] = Absent THEN Cardinality(Present') = Cardinality(Present) + 1
                             ELSE Present' = Present
    BY <2>2, <2>4, <2>5, PresentMoves DEF TypeOK
  <2>7. Cardinality(At("set")') = Cardinality(At("set")) + 1
    BY <2>1, AtMoves DEF TypeOK, Labels
  <2>8. Uncounted' = Uncounted
    BY <2>1, UncountedStays DEF TypeOK, Labels
  <2> QED
    BY <2>1, <2>6, <2>7, <2>8, Tallies DEF Accounted
<1>3. CASE CountSet(c)
  <2>1. /\ pc' = [pc EXCEPT ![c] = "idle"] /\ pc[c] = "set" /\ sets' = sets + 1
        /\ UNCHANGED <<items, deletes, expired, dropped, purged>>
    BY <1>3 DEF CountSet
  <2>2. Cardinality(At("set")') = Cardinality(At("set")) - 1
    BY <2>1, AtMoves DEF TypeOK, Labels
  <2>3. Uncounted' = Uncounted
    BY <2>1, UncountedStays DEF TypeOK, Labels
  <2>4. Present' = Present
    BY <2>1 DEF Present
  <2> QED
    BY <2>1, <2>2, <2>3, <2>4, Tallies DEF Accounted
<1> QED
  BY <1>1, <1>2, <1>3

\* A Delete counts the entry it removes, a Clear drops all.
LEMMA RemovalAccounted ==
  ASSUME TypeOK, Accounted, NEW c \in Callers,
         (\E k \in Keys : Delete(c, k)) \/ Clear(c) \/ CountClear(c)
  PROVE  Accounted'
<1> USE DEF Goto, Call, counters, local
<1>1. ASSUME NEW k \in Keys, Delete(c, k) PROVE Accounted'
  <2>1. /\ items' = [items EXCEPT ![k] = Absent]
        /\ deletes' = IF items[k] = Absent THEN deletes ELSE deletes + 1
        /\ UNCHANGED <<pc, sets, expired, dropped, purged>>
    BY <1>1 DEF Delete
  <2>2. IF items[k] = Absent THEN Present' = Present
                             ELSE Cardinality(Present') = Cardinality(Present) - 1
    BY <2>1, PresentMoves DEF TypeOK
  <2>3. At("set")' = At("set") /\ Uncounted' = Uncounted
    BY <2>1 DEF At, Uncounted
  <2> QED
    BY <2>1, <2>2, <2>3, Tallies DEF Accounted
<1>2. CASE Clear(c)
  <2>1. /\ pc' = [pc EXCEPT ![c] = "clear"] /\ pc[c] = "idle"
        /\ items' = [k \in Keys |-> Absent]
        /\ dropped' = dropped + Cardinality(Present)
        /\ UNCHANGED <<sets, deletes, expired, purged>>
    BY <1>2 DEF Clear
  <2>2. Present' = {}
    BY <2>1 DEF Present
  <2>3. Cardinality(Present') = 0
    BY <2>2, FS_EmptySet
  <2>4. At("set")' = At("set") /\ Uncounted' = Uncounted
    BY <2>1, LabelStays DEF Labels
  <2> QED
    BY <2>1, <2>3, <2>4, Tallies DEF Accounted
<1>3. CASE CountClear(c)
  BY <1>3, QuietAccounted DEF CountClear, Labels
<1> QED
  BY <1>1, <1>2, <1>3

\* A Len has the entries it removed to count, each once.
LEMMA LenAccounted ==
  ASSUME TypeOK, Accounted, NEW c \in Callers, LenEnter(c) \/ LenPurge(c) \/ CountPurged(c)
  PROVE  Accounted'
<1> USE DEF Goto, Call, counters, local
<1>1. CASE LenEnter(c)
  BY <1>1, QuietAccounted DEF LenEnter, Labels
<1>2. CASE LenPurge(c)
  <2> DEFINE dead == {k \in Present : lenNow[c] >= items[k].expiresAt}
             n == Cardinality(dead)
             to == IF dead = {} THEN "idle" ELSE "purged"
  <2>1. /\ pc' = [pc EXCEPT ![c] = to] /\ pc[c] = "len"
        /\ items' = [k \in Keys |-> IF k \in dead THEN Absent ELSE items[k]]
        /\ purged' = [purged EXCEPT ![c] = n]
        /\ UNCHANGED <<sets, deletes, expired, dropped>>
    BY <1>2 DEF LenPurge
  <2>2. dead \in SUBSET Present /\ dead \in SUBSET Keys
    BY DEF Present
  <2> HIDE DEF dead
  <2>3. n \in Nat /\ n <= Cardinality(Keys) /\ n <= Cardinality(Present) /\ (dead = {} => n = 0)
    BY <2>2, Counts, CacheAssumption, FS_Subset, FS_CardinalityType, FS_EmptySet
  <2>4. Cardinality(Present') = Cardinality(Present) - n
    <3>1. Present' = Present \ dead
      BY <2>1, <2>2 DEF Present
    <3>2. Present \cap dead = dead
      BY <2>2
    <3> QED
      BY <3>1, <3>2, Counts, FS_Difference
  <2>5. Cardinality(Uncounted') = Cardinality(Uncounted) + n
    <3>1. \A d \in Callers \ {c} : pc'[d] = pc[d] /\ purged'[d] = purged[d]
      BY <2>1 DEF TypeOK
    <3>2. pc[c] # "purged" /\ purged'[c] = n /\ pc'[c] = to
      BY <2>1 DEF TypeOK
    <3>3. CASE dead # {}
      BY <2>3, <3>1, <3>2, <3>3, KeysCounted, UncountedMoves
    <3>4. CASE dead = {}
      <4>1. \A d \in Callers : (pc'[d] = "purged") <=> (pc[d] = "purged")
        BY <2>1, <3>4 DEF TypeOK
      <4>2. Uncounted' = Uncounted
        BY <3>1, <3>2, <3>4, <4>1 DEF Uncounted
      <4> QED
        BY <2>3, <3>4, <4>2, Tallies
    <3> QED
      BY <3>3, <3>4
  <2>6. At("set")' = At("set")
    BY <2>1, AtMoves DEF TypeOK, Labels
  <2> QED
    BY <2>1, <2>3, <2>4, <2>5, <2>6, Tallies DEF Accounted
<1>3. CASE CountPurged(c)
  <2> DEFINE n == purged[c]
  <2>1. /\ pc' = [pc EXCEPT ![c] = "idle"] /\ pc[c] = "purged"
        /\ expired' = expired + n
        /\ purged' = [purged EXCEPT ![c] = 0]
        /\ UNCHANGED <<items, sets, deletes, dropped>>
    BY <1>3 DEF CountPurged
  <2>2. n \in 0 .. Cardinality(Keys) /\ n \in Nat
    BY KeysCounted DEF TypeOK
  <2>3. \A d \in Callers \ {c} : pc'[d] = pc[d] /\ purged'[d] = purged[d]
    BY <2>1 DEF TypeOK
  <2>4. pc'[c] # "purged"
    BY <2>1 DEF TypeOK
  <2>5. Cardinality(Uncounted') = Cardinality(Uncounted) - n
    BY <2>1, <2>2, <2>3, <2>4, UncountedMoves
  <2>6. At("set")' = At("set")
    BY <2>1, AtMoves DEF TypeOK, Labels
  <2>7. Present' = Present
    BY <2>1 DEF Present
  <2> QED
    BY <2>1, <2>2, <2>5, <2>6, <2>7, Tallies DEF Accounted
<1> QED
  BY <1>1, <1>2, <1>3

\* Every entry ever stored is in the map, or was deleted, has expired, was overwritten or
\* cleared, and is counted once for it, however many calls find it dead.
THEOREM EntriesAccounted == Spec => []Accounted
<1>1. Init => Accounted
  <2> SUFFICES ASSUME Init PROVE Accounted
    OBVIOUS
  <2>1. At("set") = {} /\ Present = {} /\ Uncounted = {}
    BY DEF Init, At, Present, Uncounted
  <2> QED
    BY <2>1, FS_EmptySet DEF Init, Accounted
<1>2. TypeOK /\ Accounted /\ [Next]_vars => Accounted'
  <2> SUFFICES ASSUME TypeOK, Accounted, [Next]_vars PROVE Accounted'
    OBVIOUS
  <2>1. CASE Tick \/ Idle \/ UNCHANGED vars
    <3>1. UNCHANGED <<items, sets, deletes, expired, dropped, purged, pc>>
      BY <2>1 DEF Tick, Idle, vars, counters, local
    <3> QED
      BY <3>1 DEF Accounted, Present, Uncounted, At
  <2> QED
    BY <2>1, GetAccounted, SetAccounted, RemovalAccounted, LenAccounted DEF Next, Step
<1>3. CacheInv => TypeOK
  BY DEF CacheInv
<1> QED
  BY <1>1, <1>2, <1>3, Invariance, PTL DEF Spec

=============================================================================
