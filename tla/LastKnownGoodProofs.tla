------------------------- MODULE LastKnownGoodProofs -------------------------
(***************************************************************************)
(* For any keys, values, goroutines and thresholds: what a reader gets     *)
(* from LastKnownGood is what the log of its key says, and with one        *)
(* refresh at a time it is judged fresh or stale as the log says.          *)
(*                                                                         *)
(* The invariant has two layers.  GoodInv holds however many refreshes     *)
(* overlap: every entry tells its log, and so does every copy of it.       *)
(* OrderInv needs one refresh at a time: then no event of a log is later   *)
(* than the refresh under way, so that times never step back within a log  *)
(* and its last success is its latest.                                     *)
(***************************************************************************)
EXTENDS LastKnownGood, FiniteSetTheorems, SequenceTheorems, TLAPS

\* A set of naturals has a least element: the sets below its elements are finite, and
\* inclusion of finite sets is well-founded.
LEMMA Least ==
  ASSUME NEW T, T \subseteq Nat, T # {}
  PROVE  \E x \in T : \A y \in T : x <= y
<1> DEFINE Below == {0 .. n - 1 : n \in T}
<1>1. IsWellFoundedOn(StrictSubsetOrdering(Nat), FiniteSubsetsOf(Nat))
  BY FS_StrictSubsetOrderingWellFounded
<1>2. Below \subseteq FiniteSubsetsOf(Nat)
  <2>1. \A n \in T : 0 .. n - 1 \subseteq Nat /\ IsFiniteSet(0 .. n - 1)
    BY FS_Interval
  <2> QED
    BY <2>1 DEF FiniteSubsetsOf
<1>3. \E x \in Below : \A y \in Below : ~(<<y, x>> \in StrictSubsetOrdering(Nat))
  <2>1. Below # {}
    OBVIOUS
  <2> HIDE DEF Below
  <2> QED
    BY <1>1, <1>2, <2>1, WFMin
<1>4. PICK m \in T : \A y \in Below : ~(<<y, 0 .. m - 1>> \in StrictSubsetOrdering(Nat))
  BY <1>3
<1>5. ASSUME NEW k \in T, k < m PROVE FALSE
  <2>1. 0 .. k - 1 \in Below
    OBVIOUS
  <2>2. 0 .. k - 1 \subseteq Nat /\ 0 .. m - 1 \subseteq Nat /\ k \in Nat /\ m \in Nat
    OBVIOUS
  <2>3. k \in 0 .. m - 1 /\ k \notin 0 .. k - 1
    BY <1>5
  <2>4. 0 .. k - 1 \subseteq 0 .. m - 1
    BY <1>5, <2>2
  <2> HIDE DEF Below
  <2>5. <<0 .. k - 1, 0 .. m - 1>> \in StrictSubsetOrdering(Nat)
    BY <2>2, <2>3, <2>4 DEF StrictSubsetOrdering
  <2> QED
    BY <1>4, <2>1, <2>5
<1> QED
  BY <1>5

-----------------------------------------------------------------------------
(* Logs *)

\* The last success of a log is its latest position with a value, if it has one.
LEMMA LastSuccessIs ==
  ASSUME NEW l \in Seq(Event)
  PROVE  /\ LastSuccess(l) \in 0 .. Len(l)
         /\ LastSuccess(l) # 0 => l[LastSuccess(l)].value # None
         /\ \A i \in 1 .. Len(l) : l[i].value # None => i <= LastSuccess(l)
<1>1. Len(l) \in Nat
  OBVIOUS
<1>2. CASE Successes(l) = {}
  BY <1>1, <1>2 DEF LastSuccess, Successes
<1>3. CASE Successes(l) # {}
  <2> DEFINE T == {Len(l) - i : i \in Successes(l)}
  <2>1. T \subseteq Nat /\ T # {}
    BY <1>1, <1>3 DEF Successes
  <2> HIDE DEF T
  <2>2. PICK x \in T : \A y \in T : x <= y
    BY <2>1, Least
  <2>3. PICK i \in Successes(l) : x = Len(l) - i
    BY DEF T
  <2>4. ASSUME NEW j \in Successes(l) PROVE j <= i
    <3>1. Len(l) - j \in T
      BY DEF T
    <3> QED
      BY <1>1, <2>2, <2>3, <3>1 DEF Successes
  <2>5. LastSuccess(l) \in Successes(l) /\ \A j \in Successes(l) : j <= LastSuccess(l)
    BY <1>3, <2>4 DEF LastSuccess
  <2> QED
    BY <1>1, <2>5 DEF Successes
<1> QED
  BY <1>2, <1>3

\* It is the only such position.
LEMMA LastSuccessUnique ==
  ASSUME NEW l \in Seq(Event), NEW n \in 0 .. Len(l),
         n # 0 => l[n].value # None,
         \A i \in 1 .. Len(l) : l[i].value # None => i <= n
  PROVE  LastSuccess(l) = n
<1>1. Len(l) \in Nat
  OBVIOUS
<1> QED
  BY <1>1, LastSuccessIs

\* A success becomes the last one, a failure leaves it where it is.
LEMMA LastSuccessAppend ==
  ASSUME NEW l \in Seq(Event), NEW e \in Event
  PROVE  /\ Append(l, e) \in Seq(Event)
         /\ Len(Append(l, e)) = Len(l) + 1
         /\ e.value # None => LastSuccess(Append(l, e)) = Len(l) + 1
         /\ e.value = None => LastSuccess(Append(l, e)) = LastSuccess(l)
<1> DEFINE a == Append(l, e)
<1>1. /\ a \in Seq(Event) /\ Len(a) = Len(l) + 1 /\ Len(l) \in Nat
      /\ \A i \in 1 .. Len(l) : a[i] = l[i]
      /\ a[Len(l) + 1] = e
  BY AppendProperties
<1> HIDE DEF a
<1>2. CASE e.value # None
  <2>1. Len(l) + 1 \in 0 .. Len(a) /\ a[Len(l) + 1].value # None
    BY <1>1, <1>2
  <2>2. \A i \in 1 .. Len(a) : i <= Len(l) + 1
    BY <1>1
  <2>3. LastSuccess(a) = Len(l) + 1
    BY <1>1, <2>1, <2>2, LastSuccessUnique
  <2> QED
    BY <1>1, <1>2, <2>3 DEF a
<1>3. CASE e.value = None
  <2>1. LastSuccess(l) \in 0 .. Len(a)
    BY <1>1, LastSuccessIs
  <2>2. LastSuccess(l) # 0 => a[LastSuccess(l)].value # None
    BY <1>1, LastSuccessIs
  <2>3. \A i \in 1 .. Len(a) : a[i].value # None => i <= LastSuccess(l)
    BY <1>1, <1>3, LastSuccessIs
  <2>4. LastSuccess(a) = LastSuccess(l)
    BY <1>1, <2>1, <2>2, <2>3, LastSuccessUnique
  <2> QED
    BY <1>1, <1>3, <2>4 DEF a
<1> QED
  BY <1>2, <1>3

\* An empty log has no success.
LEMMA LastSuccessEmpty == <<>> \in Seq(Event) /\ Len(<<>>) = 0 /\ LastSuccess(<<>>) = 0
BY DEF LastSuccess, Successes

\* While writes are left, every log is shorter than the bound on them.
LEMMA LogsShort ==
  ASSUME log \in [Keys -> Seq(Event)], Writes < MaxWrites, NEW k \in Keys
  PROVE  Len(log[k]) < MaxWrites
<1> DEFINE W == {w \in Keys \X (1 .. MaxWrites) : w[2] <= Len(log[w[1]])}
           f == [i \in 1 .. MaxWrites |-> <<k, i>>]
<1>1. MaxWrites \in Nat /\ Len(log[k]) \in Nat
  BY GoodAssumption
<1>2. IsFiniteSet(W)
  <2>1. IsFiniteSet(1 .. MaxWrites)
    BY <1>1, FS_Interval
  <2>2. IsFiniteSet(Keys \X (1 .. MaxWrites))
    BY <2>1, GoodAssumption, FS_Product
  <2>3. W \subseteq Keys \X (1 .. MaxWrites)
    OBVIOUS
  <2> QED
    BY <2>2, <2>3, FS_Subset
<1>3. SUFFICES ASSUME Len(log[k]) >= MaxWrites PROVE FALSE
  BY <1>1
<1>4. f \in Injection(1 .. MaxWrites, W)
  BY <1>1, <1>3 DEF Injection, IsInjective
<1>5. Cardinality(1 .. MaxWrites) = MaxWrites
  BY <1>1, FS_Interval
<1>6. Cardinality(1 .. MaxWrites) <= Cardinality(W)
  BY <1>2, <1>4, FS_Injection
<1>7. Cardinality(W) \in Nat /\ Writes = Cardinality(W)
  BY <1>2, FS_CardinalityType DEF Writes
<1> QED
  BY <1>1, <1>5, <1>6, <1>7

-----------------------------------------------------------------------------
(* Entries and results tell the log *)

\* A refresh has keys to come to only while it runs.
Refreshing == \A r \in Refreshers : todo[r] # {} => stamp[r] # 0

EntriesTell == \A k \in Keys : Tells(Found(k), log[k])

GoodInv == TypeOK /\ Refreshing /\ EntriesTell /\ ReadsTellTheLog

\* The bounds are numbers, and None is no value.
LEMMA Bounds ==
  MaxTime \in Nat \ {0} /\ MaxWrites \in Nat /\ StaleAfter \in Nat /\ None \notin Values
BY GoodAssumption

\* The fields of an entry.
LEMMA EntryFields ==
  ASSUME NEW e \in Entry
  PROVE  /\ e = [value |-> e.value, available |-> e.available, lastSuccess |-> e.lastSuccess,
                 lastAttempt |-> e.lastAttempt, failures |-> e.failures]
         /\ e.available \in BOOLEAN
         /\ e.available => e.value \in Values /\ e.lastSuccess \in 1 .. MaxTime
         /\ ~e.available => e.value = None /\ e.lastSuccess = 0
         /\ e.lastAttempt \in 1 .. MaxTime
         /\ e.failures \in 0 .. MaxWrites
<1>1. CASE e \in [value : {None}, available : {FALSE}, lastSuccess : {0},
                  lastAttempt : 1 .. MaxTime, failures : 1 .. MaxWrites]
  <2>1. /\ e = [value |-> e.value, available |-> e.available, lastSuccess |-> e.lastSuccess,
                lastAttempt |-> e.lastAttempt, failures |-> e.failures]
        /\ e.value = None /\ e.lastSuccess = 0
        /\ e.lastAttempt \in 1 .. MaxTime /\ e.failures \in 1 .. MaxWrites
    BY <1>1
  <2>2. e.available = FALSE
    BY <1>1
  <2>3. e.failures \in 0 .. MaxWrites
    BY <2>1, Bounds
  <2>4. e.available \in BOOLEAN /\ ~e.available
    BY <2>2
  <2> QED
    BY <2>1, <2>3, <2>4
<1>2. CASE e \in [value : Values, available : {TRUE}, lastSuccess : 1 .. MaxTime,
                  lastAttempt : 1 .. MaxTime, failures : 0 .. MaxWrites]
  BY <1>2, Bounds
<1> QED
  BY <1>1, <1>2 DEF Entry

\* What there is to know of an entry, or of the zero entry.
LEMMA FoundType ==
  ASSUME TypeOK, NEW k \in Keys
  PROVE  /\ Found(k) = [value |-> Found(k).value, available |-> Found(k).available,
                        lastSuccess |-> Found(k).lastSuccess,
                        lastAttempt |-> Found(k).lastAttempt, failures |-> Found(k).failures]
         /\ Found(k).available \in BOOLEAN
         /\ Found(k).available => Found(k).value \in Values /\ Found(k).lastSuccess \in 1 .. MaxTime
         /\ ~Found(k).available => Found(k).value = None /\ Found(k).lastSuccess = 0
         /\ Found(k).lastAttempt \in 0 .. MaxTime
         /\ Found(k).failures \in 0 .. MaxWrites
<1>1. CASE entries[k] = None
  BY <1>1, Bounds DEF Found, ZeroEntry
<1>2. CASE entries[k] # None
  <2>1. entries[k] \in Entry /\ Found(k) = entries[k]
    BY <1>2 DEF TypeOK, Found
  <2> QED
    BY <2>1, EntryFields, Bounds
<1> QED
  BY <1>1, <1>2

\* An entry is found as it was stored.
LEMMA StoredFound ==
  ASSUME NEW e \in Entry
  PROVE  e # None
<1>1. e \in [value : Values \cup {None}, available : BOOLEAN,
             lastSuccess : Nat, lastAttempt : Nat, failures : Nat]
  BY EntryFields, Bounds
<1> QED
  BY <1>1, GoodAssumption

\* Nothing has been tried and nobody has read at first.
LEMMA InitGood == Init => GoodInv
<1> SUFFICES ASSUME Init PROVE GoodInv
  OBVIOUS
<1> USE Bounds
<1>1. TypeOK
  BY LastSuccessEmpty DEF Init, TypeOK, Goroutines
<1>2. Refreshing /\ ReadsTellTheLog
  BY DEF Init, Refreshing, ReadsTellTheLog
<1>3. EntriesTell
  BY LastSuccessEmpty DEF Init, EntriesTell, Tells, Found, ZeroEntry
<1> QED
  BY <1>1, <1>2, <1>3 DEF GoodInv

\* An attempt that writes an entry which tells the longer log keeps the invariant.
LEMMA AttemptGood ==
  ASSUME GoodInv, NEW r \in Refreshers, NEW k \in Keys, NEW e \in Entry, NEW ev \in Event,
         Attempt(r, k, e, ev), Tells(e, Append(log[k], ev))
  PROVE  GoodInv'
<1> USE DEF GoodInv, Attempt
<1>1. log' = [log EXCEPT ![k] = Append(log[k], ev)] /\ log[k] \in Seq(Event)
  BY DEF TypeOK
<1>2. Append(log[k], ev) \in Seq(Event)
  BY <1>1, LastSuccessAppend
<1>3. TypeOK'
  BY <1>1, <1>2 DEF TypeOK, Goroutines
<1>4. Refreshing'
  BY DEF Refreshing, TypeOK
<1>5. ASSUME NEW q \in Keys PROVE Tells(Found(q)', log'[q])
  <2>1. CASE q = k
    <3>1. Found(q)' = e
      BY <2>1, StoredFound DEF Found, TypeOK
    <3> QED
      BY <1>1, <2>1, <3>1 DEF TypeOK
  <2>2. CASE q # k
    <3>1. Found(q)' = Found(q) /\ log'[q] = log[q]
      BY <1>1, <2>2 DEF Found, TypeOK
    <3> QED
      BY <3>1 DEF EntriesTell
  <2> QED
    BY <2>1, <2>2
<1>6. EntriesTell'
  BY <1>5 DEF EntriesTell, Tells, Found
<1>7. ReadsTellTheLog'
  BY DEF ReadsTellTheLog
<1> QED
  BY <1>3, <1>4, <1>6, <1>7

\* A success starts the entry anew.
LEMMA SuccessGood ==
  ASSUME GoodInv, NEW r \in Refreshers, NEW k \in Keys, NEW v \in Values, Success(r, k, v)
  PROVE  GoodInv'
<1> DEFINE e == [value |-> v, available |-> TRUE, lastSuccess |-> stamp[r],
                 lastAttempt |-> stamp[r], failures |-> 0]
           ev == [value |-> v, at |-> stamp[r]]
<1>1. stamp[r] \in 1 .. MaxTime
  BY Bounds DEF GoodInv, TypeOK, Goroutines, Refreshing, Success, Attempt
<1>2. e \in Entry /\ ev \in Event
  BY <1>1, Bounds DEF Entry, Event
<1>3. log[k] \in Seq(Event) /\ Len(log[k]) \in Nat
  BY DEF GoodInv, TypeOK
<1>4. /\ LastSuccess(Append(log[k], ev)) = Len(log[k]) + 1
      /\ Len(Append(log[k], ev)) = Len(log[k]) + 1
      /\ Append(log[k], ev)[Len(log[k]) + 1] = ev
  BY <1>2, <1>3, LastSuccessAppend, AppendProperties, Bounds
<1>5. Tells(e, Append(log[k], ev))
  BY <1>3, <1>4 DEF Tells
<1>6. Attempt(r, k, e, ev)
  BY DEF Success
<1> QED
  BY <1>2, <1>5, <1>6, AttemptGood

\* A failure leaves the value and counts.
LEMMA FailureEntry ==
  ASSUME GoodInv, NEW r \in Refreshers, NEW k \in Keys, Failure(r, k)
  PROVE  \E e \in Entry, ev \in Event :
           /\ e = [value |-> Found(k).value, available |-> Found(k).available,
                   lastSuccess |-> Found(k).lastSuccess, lastAttempt |-> stamp[r],
                   failures |-> Found(k).failures + 1]
           /\ ev = [value |-> None, at |-> stamp[r]]
           /\ Attempt(r, k, e, ev)
<1> DEFINE f == Found(k)
           e == [f EXCEPT !.lastAttempt = stamp[r], !.failures = @ + 1]
           ev == [value |-> None, at |-> stamp[r]]
           l == log[k]
<1> USE Bounds
<1>1. stamp[r] \in 1 .. MaxTime
  BY DEF GoodInv, TypeOK, Goroutines, Refreshing, Failure, Attempt
<1>2. l \in Seq(Event) /\ Len(l) \in Nat /\ ev \in Event
  <2>1. l \in Seq(Event)
    BY DEF GoodInv, TypeOK
  <2>2. ev \in Event
    BY <1>1 DEF Event
  <2> QED
    BY <2>1, <2>2
<1>3. Tells(f, l)
  BY DEF GoodInv, EntriesTell
<1>4. LastSuccess(l) \in 0 .. Len(l)
  BY <1>2, LastSuccessIs
<1>5. Len(l) < MaxWrites
  BY LogsShort DEF GoodInv, TypeOK, Failure, Attempt
<1>6. f.failures \in Nat /\ f.failures + 1 \in 1 .. MaxWrites
  BY <1>2, <1>3, <1>4, <1>5 DEF Tells
<1>7. e = [value |-> f.value, available |-> f.available, lastSuccess |-> f.lastSuccess,
           lastAttempt |-> stamp[r], failures |-> f.failures + 1]
  <2>1. f = [value |-> f.value, available |-> f.available, lastSuccess |-> f.lastSuccess,
             lastAttempt |-> f.lastAttempt, failures |-> f.failures]
    BY FoundType DEF GoodInv
  <2>2. e = [f EXCEPT !.lastAttempt = stamp[r], !.failures = @ + 1]
    OBVIOUS
  <2> HIDE DEF f, e
  <2> QED
    BY <2>1, <2>2
<1>8. /\ f.available \in BOOLEAN
      /\ f.available => f.value \in Values /\ f.lastSuccess \in 1 .. MaxTime
      /\ ~f.available => f.value = None /\ f.lastSuccess = 0
  BY FoundType DEF GoodInv
<1> HIDE DEF f, e
<1>9. e \in Entry
  <2> DEFINE n == f.failures + 1
             at == stamp[r]
  <2>1. at \in 1 .. MaxTime /\ n \in 1 .. MaxWrites /\ n \in 0 .. MaxWrites
    BY <1>1, <1>6
  <2> HIDE DEF n, at
  <2>2. CASE f.available = TRUE
    <3>1. e = [value |-> f.value, available |-> TRUE, lastSuccess |-> f.lastSuccess,
               lastAttempt |-> at, failures |-> n]
      BY <1>7, <2>2 DEF n, at
    <3>2. f.value \in Values /\ f.lastSuccess \in 1 .. MaxTime
      BY <1>8, <2>2
    <3> QED
      BY <2>1, <3>1, <3>2 DEF Entry
  <2>3. CASE f.available = FALSE
    <3>1. e = [value |-> None, available |-> FALSE, lastSuccess |-> 0,
               lastAttempt |-> at, failures |-> n]
      BY <1>7, <1>8, <2>3 DEF n, at
    <3> QED
      BY <2>1, <3>1 DEF Entry
  <2> QED
    BY <1>8, <2>2, <2>3
<1>10. Attempt(r, k, e, ev)
  BY DEF Failure, f, e
<1> QED
  BY <1>2, <1>7, <1>9, <1>10 DEF f

LEMMA FailureGood ==
  ASSUME GoodInv, NEW r \in Refreshers, NEW k \in Keys, Failure(r, k)
  PROVE  GoodInv'
<1> DEFINE f == Found(k)
           l == log[k]
<1>1. PICK e \in Entry, ev \in Event :
        /\ e = [value |-> f.value, available |-> f.available, lastSuccess |-> f.lastSuccess,
                lastAttempt |-> stamp[r], failures |-> f.failures + 1]
        /\ ev = [value |-> None, at |-> stamp[r]]
        /\ Attempt(r, k, e, ev)
  BY FailureEntry
<1>2. l \in Seq(Event) /\ Len(l) \in Nat
  BY DEF GoodInv, TypeOK
<1>3. Tells(f, l)
  BY DEF GoodInv, EntriesTell
<1>4. LastSuccess(l) \in 0 .. Len(l)
  BY <1>2, LastSuccessIs
<1>5. /\ LastSuccess(Append(l, ev)) = LastSuccess(l)
      /\ Len(Append(l, ev)) = Len(l) + 1
      /\ \A i \in 1 .. Len(l) : Append(l, ev)[i] = l[i]
  BY <1>1, <1>2, LastSuccessAppend, AppendProperties
<1> HIDE DEF f
<1>6. Tells(e, Append(l, ev))
  BY <1>1, <1>2, <1>3, <1>4, <1>5 DEF Tells
<1> QED
  BY <1>1, <1>6, AttemptGood

\* A key that is deleted begins a new log.
LEMMA DeleteGood ==
  ASSUME GoodInv, NEW r \in Refreshers, NEW k \in Keys, Delete(r, k)
  PROVE  GoodInv'
<1> USE DEF GoodInv, Delete
<1>1. TypeOK'
  BY LastSuccessEmpty DEF TypeOK
<1>2. Refreshing'
  BY DEF Refreshing, TypeOK
<1>3. ASSUME NEW q \in Keys PROVE Tells(Found(q)', log'[q])
  <2>1. CASE q = k
    <3>1. Found(q)' = ZeroEntry /\ log'[q] = <<>>
      BY <2>1 DEF Found, TypeOK
    <3> QED
      BY <3>1, LastSuccessEmpty DEF Tells, ZeroEntry
  <2>2. CASE q # k
    <3>1. Found(q)' = Found(q) /\ log'[q] = log[q]
      BY <2>2 DEF Found, TypeOK
    <3> QED
      BY <3>1 DEF EntriesTell
  <2> QED
    BY <2>1, <2>2
<1>4. EntriesTell'
  BY <1>3 DEF EntriesTell, Tells, Found
<1>5. ReadsTellTheLog'
  BY DEF ReadsTellTheLog
<1> QED
  BY <1>1, <1>2, <1>4, <1>5

\* The only result of a reader.
LEMMA GetResult ==
  ASSUME TypeOK, NEW g \in Readers, NEW k \in Keys, Get(g, k)
  PROVE  \A h \in Readers :
           /\ h = g => result'[h] = <<ResultOf(k, stamp[g])>>
           /\ h # g => result'[h] = result[h]
BY DEF TypeOK, Get

LEMMA ResultType ==
  ASSUME TypeOK, NEW k \in Keys, NEW now \in 1 .. MaxTime
  PROVE  ResultOf(k, now) \in Result
<1>1. /\ Found(k).value \in Values \cup {None} /\ Found(k).available \in BOOLEAN
      /\ Found(k).failures \in Nat /\ Found(k).lastSuccess \in 0 .. MaxTime
  BY FoundType, Bounds
<1>2. Stale(Found(k), now) \in BOOLEAN
  BY DEF Stale
<1>3. log[k] \in Seq(Event)
  BY DEF TypeOK
<1> QED
  BY <1>1, <1>2, <1>3 DEF ResultOf, Result

\* A reader gets what the entry says together with what the log says.
LEMMA GetGood ==
  ASSUME GoodInv, NEW g \in Readers, NEW k \in Keys, Get(g, k)
  PROVE  GoodInv'
<1> DEFINE res == ResultOf(k, stamp[g])
<1>1. stamp[g] \in 1 .. MaxTime
  BY Bounds DEF GoodInv, TypeOK, Goroutines, Get
<1>2. res \in Result
  BY <1>1, ResultType DEF GoodInv
<1>3. \A h \in Readers : result'[h] = IF h = g THEN <<res>> ELSE result[h]
  BY GetResult DEF GoodInv
<1>4. Tells(res, res.log)
  BY DEF GoodInv, EntriesTell, Tells, ResultOf
<1>5. result' = [result EXCEPT ![g] = <<res>>]
  BY DEF Get
<1> HIDE DEF res
<1>6. result' \in [Readers -> Seq(Result)]
  <2>1. <<res>> \in Seq(Result)
    BY <1>2
  <2> QED
    BY <1>5, <2>1 DEF GoodInv, TypeOK
<1>7. TypeOK'
  <2>1. ASSUME NEW h \in Readers PROVE Len(result'[h]) <= 1
    <3>1. Len(<<res>>) <= 1
      OBVIOUS
    <3>2. Len(result[h]) <= 1
      BY DEF GoodInv, TypeOK
    <3>3. result'[h] = <<res>> \/ result'[h] = result[h]
      BY <1>3
    <3> QED
      BY <3>1, <3>2, <3>3, Zenon
  <2>2. stamp' \in [Goroutines -> 0 .. MaxTime]
    <3>1. stamp \in [Goroutines -> 0 .. MaxTime] /\ 0 \in 0 .. MaxTime
      BY Bounds DEF GoodInv, TypeOK
    <3>2. stamp' = [stamp EXCEPT ![g] = 0]
      BY DEF Get
    <3> QED
      BY <3>1, <3>2
  <2>3. UNCHANGED <<clock, entries, todo, log>>
    BY DEF Get
  <2> QED
    BY <1>6, <2>1, <2>2, <2>3 DEF GoodInv, TypeOK
<1>8. Refreshing'
  BY GoodAssumption DEF GoodInv, Refreshing, TypeOK, Get, Goroutines
<1>9. EntriesTell'
  BY DEF GoodInv, EntriesTell, Tells, Found, Get
<1>10. ReadsTellTheLog'
  BY <1>3, <1>4 DEF GoodInv, ReadsTellTheLog
<1> QED
  BY <1>7, <1>8, <1>9, <1>10 DEF GoodInv

\* Steps that touch no entry and no result.
LEMMA QuietGood ==
  ASSUME GoodInv,
         \/ \E r \in Refreshers : BeginRefresh(r) \/ EndRefresh(r)
         \/ \E g \in Readers : BeginRead(g)
         \/ Tick
         \/ UNCHANGED vars
  PROVE  GoodInv' /\ UNCHANGED <<entries, log, result>>
<1>1. UNCHANGED <<entries, log, result>>
  BY DEF BeginRefresh, EndRefresh, BeginRead, Tick, vars
<1>2. TypeOK'
  <2>1. clock' \in 1 .. MaxTime /\ stamp' \in [Goroutines -> 0 .. MaxTime]
        /\ todo' \in [Refreshers -> SUBSET Keys]
    <3> USE Bounds DEF GoodInv, TypeOK, Goroutines
    <3>1. ASSUME NEW r \in Refreshers, BeginRefresh(r)
          PROVE  /\ clock' \in 1 .. MaxTime /\ stamp' \in [Goroutines -> 0 .. MaxTime]
                 /\ todo' \in [Refreshers -> SUBSET Keys]
      BY <3>1 DEF BeginRefresh
    <3>2. ASSUME NEW r \in Refreshers, EndRefresh(r)
          PROVE  /\ clock' \in 1 .. MaxTime /\ stamp' \in [Goroutines -> 0 .. MaxTime]
                 /\ todo' \in [Refreshers -> SUBSET Keys]
      BY <3>2 DEF EndRefresh
    <3>3. CASE \E g \in Readers : BeginRead(g)
      BY <3>3 DEF BeginRead
    <3>4. CASE Tick \/ UNCHANGED vars
      BY <3>4 DEF Tick, vars
    <3> QED
      BY <3>1, <3>2, <3>3, <3>4
  <2> QED
    BY <1>1, <2>1 DEF GoodInv, TypeOK
<1>3. Refreshing'
  BY Bounds, GoodAssumption
     DEF GoodInv, TypeOK, Goroutines, Refreshing, BeginRefresh, EndRefresh, BeginRead, Tick, vars
<1>4. EntriesTell'
  BY <1>1 DEF GoodInv, EntriesTell, Tells, Found
<1>5. ReadsTellTheLog'
  BY <1>1 DEF GoodInv, ReadsTellTheLog
<1> QED
  BY <1>1, <1>2, <1>3, <1>4, <1>5 DEF GoodInv

LEMMA NextGood == GoodInv /\ [Next]_vars => GoodInv'
BY SuccessGood, FailureGood, DeleteGood, GetGood, QuietGood DEF Next

\* The inductive invariant: types, and entries that tell their logs, however many
\* refreshes overlap.
THEOREM Invariance == Spec => []GoodInv
BY InitGood, NextGood, PTL DEF Spec

\* Whatever is refreshed and deleted in whatever order, a reader gets what the attempts
\* at the key since its last deletion say.
THEOREM ReadsTell == Spec => []ReadsTellTheLog
<1>1. GoodInv => ReadsTellTheLog
  BY DEF GoodInv
<1> QED
  BY <1>1, Invariance, PTL

-----------------------------------------------------------------------------
(* One refresh at a time *)

\* No two refreshes are under way together, whoever makes them one after the other.
OneAtATime == \A r, s \in Refreshers : stamp[r] # 0 /\ stamp[s] # 0 => r = s

\* Times never step back within a log.
Ordered ==
  \A k \in Keys : \A i, j \in 1 .. Len(log[k]) : i <= j => log[k][i].at <= log[k][j].at

\* No event is later than the clock or than the refresh under way.
NoneLater ==
  /\ \A r \in Refreshers : stamp[r] <= clock
  /\ \A k \in Keys : \A i \in 1 .. Len(log[k]) :
       /\ log[k][i].at <= clock
       /\ \A r \in Refreshers : stamp[r] # 0 => log[k][i].at <= stamp[r]

Attempted == \A k \in Keys : Found(k).lastSuccess <= Found(k).lastAttempt

OrderInv == Ordered /\ NoneLater /\ Attempted /\ FreshnessHonest

\* The times of a log are numbers.
LEMMA EventTimes ==
  ASSUME NEW l \in Seq(Event), NEW i \in 1 .. Len(l)
  PROVE  l[i].at \in 1 .. MaxTime
<1>1. l[i] \in Event
  BY ElementOfSeq
<1> QED
  BY <1>1 DEF Event

LEMMA InitOrder == Init => OrderInv
<1> SUFFICES ASSUME Init PROVE OrderInv
  OBVIOUS
<1>1. \A k \in Keys : Len(log[k]) = 0 /\ Found(k) = ZeroEntry
  BY DEF Init, Found
<1>2. \A g \in Readers : Len(result[g]) = 0
  BY DEF Init
<1>3. \A r \in Refreshers : stamp[r] <= clock
  BY DEF Init, Goroutines
<1> QED
  BY <1>1, <1>2, <1>3
     DEF OrderInv, Ordered, NoneLater, Attempted, FreshnessHonest, ZeroEntry

\* An attempt has the time of its refresh, which is the only one.
LEMMA AttemptOrder ==
  ASSUME OneAtATime, GoodInv, OrderInv,
         NEW r \in Refreshers, NEW k \in Keys, NEW e \in Entry, NEW ev \in Event,
         Attempt(r, k, e, ev), ev.at = stamp[r], e.lastSuccess <= e.lastAttempt
  PROVE  OrderInv'
<1>1. /\ log' = [log EXCEPT ![k] = Append(log[k], ev)]
      /\ entries' = [entries EXCEPT ![k] = e]
      /\ UNCHANGED <<clock, stamp, result>>
  BY DEF Attempt
<1>2. log \in [Keys -> Seq(Event)] /\ clock \in Nat /\ stamp[r] \in Nat
  BY Bounds DEF GoodInv, TypeOK, Goroutines
<1>3. stamp[r] # 0 /\ stamp[r] <= clock
  BY DEF GoodInv, Refreshing, Attempt, OrderInv, NoneLater
<1> DEFINE l == log[k]
           a == Append(l, ev)
<1>4. /\ Len(l) \in Nat /\ Len(a) = Len(l) + 1
      /\ \A i \in 1 .. Len(l) : a[i] = l[i]
      /\ a[Len(l) + 1].at = stamp[r]
  BY <1>2, AppendProperties
<1>5. \A i \in 1 .. Len(l) : l[i].at \in Nat /\ l[i].at <= clock /\ l[i].at <= stamp[r]
  BY <1>2, <1>3, EventTimes DEF OrderInv, NoneLater
<1>6. log'[k] = a /\ \A q \in Keys : q # k => log'[q] = log[q]
  BY <1>1, <1>2
<1> HIDE DEF a
<1>7. Ordered'
  <2>1. ASSUME NEW i \in 1 .. Len(a), NEW j \in 1 .. Len(a), i <= j PROVE a[i].at <= a[j].at
    <3>1. CASE j = Len(l) + 1
      BY <1>2, <1>4, <1>5, <3>1
    <3>2. CASE j # Len(l) + 1
      BY <1>4, <2>1, <3>2 DEF OrderInv, Ordered
    <3> QED
      BY <3>1, <3>2
  <2> QED
    BY <1>6, <2>1 DEF OrderInv, Ordered
<1>8. NoneLater'
  <2>1. ASSUME NEW i \in 1 .. Len(a) PROVE a[i].at <= clock /\ a[i].at <= stamp[r]
    BY <1>2, <1>3, <1>4, <1>5
  <2> QED
    BY <1>1, <1>3, <1>6, <2>1 DEF OrderInv, NoneLater, OneAtATime
<1>9. Attempted'
  <2>1. Found(k)' = e
    BY <1>1, StoredFound DEF Found, GoodInv, TypeOK
  <2>2. \A q \in Keys : q # k => Found(q)' = Found(q)
    BY <1>1 DEF Found, GoodInv, TypeOK
  <2>3. \A q \in Keys : Found(q)'.lastSuccess <= Found(q)'.lastAttempt
    BY <2>1, <2>2 DEF OrderInv, Attempted
  <2> QED
    BY <2>3 DEF Attempted, Found
<1>10. FreshnessHonest'
  BY <1>1 DEF OrderInv, FreshnessHonest
<1> QED
  BY <1>7, <1>8, <1>9, <1>10 DEF OrderInv

LEMMA SuccessOrder ==
  ASSUME OneAtATime, GoodInv, OrderInv,
         NEW r \in Refreshers, NEW k \in Keys, NEW v \in Values, Success(r, k, v)
  PROVE  OrderInv'
<1> DEFINE e == [value |-> v, available |-> TRUE, lastSuccess |-> stamp[r],
                 lastAttempt |-> stamp[r], failures |-> 0]
           ev == [value |-> v, at |-> stamp[r]]
<1>1. stamp[r] \in 1 .. MaxTime
  BY Bounds DEF GoodInv, TypeOK, Goroutines, Refreshing, Success, Attempt
<1>2. e \in Entry /\ ev \in Event
  BY <1>1, Bounds DEF Entry, Event
<1>3. e.lastSuccess <= e.lastAttempt /\ ev.at = stamp[r]
  BY <1>1
<1>4. Attempt(r, k, e, ev)
  BY DEF Success
<1> QED
  BY <1>2, <1>3, <1>4, AttemptOrder

LEMMA FailureOrder ==
  ASSUME OneAtATime, GoodInv, OrderInv,
         NEW r \in Refreshers, NEW k \in Keys, Failure(r, k)
  PROVE  OrderInv'
<1> DEFINE f == Found(k)
<1>1. PICK e \in Entry, ev \in Event :
        /\ e = [value |-> f.value, available |-> f.available, lastSuccess |-> f.lastSuccess,
                lastAttempt |-> stamp[r], failures |-> f.failures + 1]
        /\ ev = [value |-> None, at |-> stamp[r]]
        /\ Attempt(r, k, e, ev)
  BY FailureEntry
<1>2. log[k] \in Seq(Event) /\ Tells(f, log[k])
  BY DEF GoodInv, TypeOK, EntriesTell
<1>3. stamp[r] \in Nat /\ stamp[r] # 0
  BY <1>1 DEF GoodInv, TypeOK, Goroutines, Refreshing, Attempt
<1>4. f.available \in BOOLEAN /\ (~f.available => f.lastSuccess = 0)
  BY FoundType DEF GoodInv
<1> HIDE DEF f
<1>5. f.lastSuccess <= stamp[r]
  <2>1. CASE f.available
    <3>1. LastSuccess(log[k]) \in 1 .. Len(log[k])
      BY <1>2, <2>1, LastSuccessIs DEF Tells
    <3>2. log[k][LastSuccess(log[k])].at <= stamp[r]
      BY <1>3, <3>1 DEF OrderInv, NoneLater
    <3> QED
      BY <1>2, <2>1, <3>2 DEF Tells
  <2>2. CASE ~f.available
    BY <1>3, <1>4, <2>2
  <2> QED
    BY <1>4, <2>1, <2>2
<1>6. e.lastSuccess <= e.lastAttempt /\ ev.at = stamp[r]
  BY <1>1, <1>5
<1> QED
  BY <1>1, <1>6, AttemptOrder

LEMMA DeleteOrder ==
  ASSUME GoodInv, OrderInv, NEW r \in Refreshers, NEW k \in Keys, Delete(r, k)
  PROVE  OrderInv'
<1>1. /\ log' = [log EXCEPT ![k] = <<>>]
      /\ entries' = [entries EXCEPT ![k] = None]
      /\ UNCHANGED <<clock, stamp, result>>
  BY DEF Delete
<1>2. \A q \in Keys : /\ q = k => Len(log'[q]) = 0 /\ Found(q)' = ZeroEntry
                      /\ q # k => log'[q] = log[q] /\ Found(q)' = Found(q)
  BY <1>1 DEF GoodInv, TypeOK, Found
<1>3. Ordered' /\ NoneLater'
  BY <1>1, <1>2 DEF OrderInv, Ordered, NoneLater
<1>4. \A q \in Keys : Found(q)'.lastSuccess <= Found(q)'.lastAttempt
  BY <1>2 DEF OrderInv, Attempted, ZeroEntry
<1>5. Attempted'
  BY <1>4 DEF Attempted, Found
<1>6. FreshnessHonest'
  BY <1>1 DEF OrderInv, FreshnessHonest
<1> QED
  BY <1>3, <1>5, <1>6 DEF OrderInv

\* In a log whose times never step back, a value is stale if all its successes are old.
LEMMA GetOrder ==
  ASSUME GoodInv, OrderInv, NEW g \in Readers, NEW k \in Keys, Get(g, k)
  PROVE  OrderInv'
<1> DEFINE e   == Found(k)
           l   == log[k]
           res == ResultOf(k, stamp[g])
<1>1. stamp[g] \in Nat /\ StaleAfter \in Nat
  BY Bounds DEF GoodInv, TypeOK, Goroutines
<1>2. l \in Seq(Event) /\ Tells(e, l)
  BY DEF GoodInv, TypeOK, EntriesTell
<1>3. ASSUME StaleAfter > 0, e.available
      PROVE  Stale(e, stamp[g]) <=> \A j \in Successes(l) : l[j].at + StaleAfter <= stamp[g]
  <2> DEFINE last == LastSuccess(l)
  <2>1. /\ last \in Successes(l) /\ e.lastSuccess = l[last].at
        /\ \A j \in Successes(l) : j \in 1 .. Len(l) /\ j <= last
    BY <1>2, <1>3, LastSuccessIs DEF Tells, Successes
  <2>2. \A j \in Successes(l) : l[j].at <= l[last].at
    BY <2>1 DEF OrderInv, Ordered
  <2>3. \A j \in Successes(l) : l[j].at \in Nat
    BY <1>2, <2>1, EventTimes
  <2> HIDE DEF last, e, l
  <2>4. Stale(e, stamp[g]) <=> stamp[g] >= e.lastSuccess + StaleAfter
    BY <1>3 DEF Stale
  <2> QED
    BY <1>1, <2>1, <2>2, <2>3, <2>4
<1>4. \A h \in Readers : result'[h] = IF h = g THEN <<res>> ELSE result[h]
  BY GetResult DEF GoodInv
<1>5. res.available = e.available /\ res.stale = Stale(e, stamp[g]) /\ res.log = l
      /\ res.now = stamp[g]
  BY DEF ResultOf
<1> HIDE DEF res, e, l
<1>6. FreshnessHonest'
  <2> SUFFICES ASSUME StaleAfter > 0, NEW h \in Readers, NEW i \in 1 .. Len(result'[h])
               PROVE  LET x == result'[h][i]
                      IN x.available =>
                           (x.stale <=> \A j \in Successes(x.log) : x.log[j].at + StaleAfter <= x.now)
    BY DEF FreshnessHonest
  <2>1. CASE h = g
    <3>1. result'[h][i] = res
      BY <1>4, <2>1
    <3> QED
      BY <1>3, <1>5, <3>1
  <2>2. CASE h # g
    BY <1>4, <2>2 DEF OrderInv, FreshnessHonest
  <2> QED
    BY <2>1, <2>2
<1>7. UNCHANGED <<clock, entries, log>> /\ \A r \in Refreshers : stamp'[r] = stamp[r]
  BY GoodAssumption DEF Get, GoodInv, TypeOK, Goroutines
<1>8. Ordered' /\ NoneLater'
  BY <1>7 DEF OrderInv, Ordered, NoneLater
<1>9. Attempted'
  BY <1>7 DEF OrderInv, Attempted, Found
<1> QED
  BY <1>6, <1>8, <1>9 DEF OrderInv

\* The clock runs, and refreshes begin by it.
LEMMA QuietOrder ==
  ASSUME GoodInv, OrderInv,
         \/ \E r \in Refreshers : BeginRefresh(r) \/ EndRefresh(r)
         \/ \E g \in Readers : BeginRead(g)
         \/ Tick
         \/ UNCHANGED vars
  PROVE  OrderInv'
<1>1. UNCHANGED <<entries, log, result>>
  BY QuietGood
<1>2. Ordered' /\ FreshnessHonest'
  BY <1>1 DEF OrderInv, Ordered, FreshnessHonest
<1>3. Attempted'
  BY <1>1 DEF OrderInv, Attempted, Found
<1>4. /\ clock \in Nat /\ clock' \in Nat /\ clock <= clock'
      /\ \A r \in Refreshers :
           stamp[r] \in Nat /\ (stamp'[r] = stamp[r] \/ stamp'[r] = clock \/ stamp'[r] = 0)
  BY Bounds, GoodAssumption
     DEF GoodInv, TypeOK, Goroutines, BeginRefresh, EndRefresh, BeginRead, Tick, vars
<1>5. \A k \in Keys : \A i \in 1 .. Len(log[k]) : log[k][i].at \in Nat
  BY EventTimes DEF GoodInv, TypeOK
<1>6. NoneLater'
  BY <1>1, <1>4, <1>5 DEF OrderInv, NoneLater
<1> QED
  BY <1>2, <1>3, <1>6 DEF OrderInv

LEMMA NextOrder == OneAtATime /\ GoodInv /\ OrderInv /\ [Next]_vars => OrderInv'
BY SuccessOrder, FailureOrder, DeleteOrder, GetOrder, QuietOrder DEF Next

\* With one refresh at a time, times never step back within a log.
THEOREM OrderedInvariance == Spec /\ []OneAtATime => []OrderInv
  BY InitOrder, NextOrder, Invariance, PTL DEF Spec

\* With one refresh at a time, what is kept for a key has its type, its attempts are
\* recorded in order, and its last success is not later than its last attempt.
THEOREM InOrder == Spec /\ []OneAtATime => []EntriesInv
<1>1. GoodInv /\ OrderInv => EntriesInv
  <2> SUFFICES ASSUME GoodInv, OrderInv PROVE AttemptsInOrder
    BY DEF GoodInv, EntriesInv
  <2>1. ASSUME NEW k \in Keys, NEW i \in 1 .. Len(log[k]) - 1
        PROVE  log[k][i].at <= log[k][i + 1].at
    <3>1. Len(log[k]) \in Nat
      BY DEF GoodInv, TypeOK
    <3> QED
      BY <3>1 DEF OrderInv, Ordered
  <2>2. \A k \in Keys : entries[k] # None => Found(k) = entries[k]
    BY DEF Found
  <2> QED
    BY <2>1, <2>2 DEF OrderInv, Attempted, AttemptsInOrder
<1> QED
  BY <1>1, Invariance, OrderedInvariance, PTL

\* With one refresh at a time, a value that is read as fresh was confirmed within the
\* threshold before the read began, and one that is read as stale was not.
THEOREM HonestFreshness == Spec /\ []OneAtATime => []FreshnessHonest
<1>1. OrderInv => FreshnessHonest
  BY DEF OrderInv
<1> QED
  BY <1>1, OrderedInvariance, PTL

=============================================================================
