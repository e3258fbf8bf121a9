---------------------------- MODULE RoutesProofs ----------------------------
(***************************************************************************)
(* Theorems about Routes, for every set of segments and every length of a  *)
(* path.                                                                   *)
(*                                                                         *)
(* The invariant (RoutesWhole) says how each phase came about: the path    *)
(* has been validated, the mux has the patterns of newHandler without a    *)
(* conflict between them, and the answer is the mux's.  The argument is    *)
(* then about the mux: the longest pattern that matches exists (BestIs),   *)
(* one for exactly the path requested cannot be beaten (BestExact), and    *)
(* because no two patterns are for the same path it is the one meant.      *)
(***************************************************************************)
EXTENDS Routes, FiniteSetTheorems, SequenceTheorems, TLAPS

\* The names in the patterns are strings, which the provers have to be told.
Name == STRING \cup {"metrics", "healthz", "debug", "pprof", "heap"}

Names == Seq(Name)

Segment == [name : Name, escaped : BOOLEAN]

-----------------------------------------------------------------------------
(* Paths and patterns *)

\* A prefix agrees with what it is a prefix of, element by element.
LEMMA PrefixIs ==
  ASSUME NEW S, NEW s \in Seq(S), NEW t \in Seq(S)
  PROVE  IsPrefix(s, t) <=> Len(s) <= Len(t) /\ \A i \in 1 .. Len(s) : s[i] = t[i]
<1> DEFINE n == Len(s)
<1>1. n \in Nat /\ Len(t) \in Nat /\ SubSeq(s, 1, n) = s
  BY LenProperties, SubSeqFull
<1>2. CASE n <= Len(t)
  <2>1. SubSeq(t, 1, n) \in Seq(S) /\ Len(SubSeq(t, 1, n)) = n
    BY <1>1, <1>2, SubSeqProperties
  <2>2. \A i \in 1 .. n : SubSeq(t, 1, n)[i] = t[i]
    BY <1>1, <1>2, SubSeqProperties
  <2>3. s = SubSeq(t, 1, n) <=> \A i \in 1 .. n : s[i] = t[i]
    <3>1. ASSUME \A i \in 1 .. n : s[i] = t[i] PROVE s = SubSeq(t, 1, n)
      BY <2>1, <2>2, <3>1, SeqEqual
    <3> QED
      BY <2>2, <3>1
  <2> QED
    BY <1>1, <1>2, <2>3 DEF IsPrefix
<1>3. CASE ~(n <= Len(t))
  BY <1>3 DEF IsPrefix
<1> QED
  BY <1>2, <1>3

\* The plain path of some names has these names.
LEMMA PlainIs ==
  ASSUME NEW names \in Names, NEW slash \in BOOLEAN
  PROVE  /\ Plain(names, slash).segments \in Seq(Segment)
         /\ Len(Plain(names, slash).segments) = Len(names)
         /\ \A i \in 1 .. Len(names) :
              Plain(names, slash).segments[i] = [name |-> names[i], escaped |-> FALSE]
         /\ Plain(names, slash).slash = slash
         /\ NamesOf(Plain(names, slash)) = names
<1> DEFINE segs == [i \in DOMAIN names |-> [name |-> names[i], escaped |-> FALSE]]
<1>1. Plain(names, slash).segments = segs /\ Plain(names, slash).slash = slash
  BY DEF Plain
<1>2. /\ Len(names) \in Nat /\ DOMAIN names = 1 .. Len(names)
      /\ \A i \in 1 .. Len(names) : names[i] \in Name
  BY DEF Names
<1>3. segs \in [1 .. Len(names) -> Segment]
  BY <1>2 DEF Segment
<1>4. segs \in Seq(Segment) /\ Len(segs) = Len(names) /\ DOMAIN segs = 1 .. Len(names)
  BY <1>2, <1>3
<1>5. \A i \in 1 .. Len(names) : segs[i] = [name |-> names[i], escaped |-> FALSE]
  BY <1>2
<1>6. NamesOf(Plain(names, slash)) = [i \in 1 .. Len(names) |-> names[i]]
  <2>1. NamesOf(Plain(names, slash)) = [i \in 1 .. Len(names) |-> segs[i].name]
    BY <1>1, <1>4 DEF NamesOf
  <2>2. \A i \in 1 .. Len(names) : segs[i].name = names[i]
    BY <1>5
  <2> HIDE DEF segs
  <2> QED
    BY <2>1, <2>2
<1>7. [i \in 1 .. Len(names) |-> names[i]] = names
  BY <1>2 DEF Names
<1> HIDE DEF segs
<1> QED
  BY <1>1, <1>4, <1>5, <1>6, <1>7

\* What a path is made of.
LEMMA PathIs ==
  ASSUME NEW p \in Paths \cup {DefaultPath}
  PROVE  /\ p.segments \in Seq(Segment)
         /\ p.slash \in BOOLEAN
         /\ p = [segments |-> p.segments, slash |-> p.slash]
         /\ p.segments = <<>> => p.slash
<1>1. CASE p \in Paths
  <2>1. /\ p \in [segments : SeqOf(Segments, MaxSegments), slash : BOOLEAN]
        /\ p.segments = <<>> => p.slash
    BY <1>1 DEF Paths
  <2>2. PICK m \in 0 .. MaxSegments : p.segments \in [1 .. m -> Segments]
    BY <2>1 DEF SeqOf
  <2>3. p.segments \in [1 .. m -> Segment]
    BY <2>2, RoutesAssumption DEF Segment, Name
  <2>4. m \in Nat
    BY RoutesAssumption
  <2>5. p.segments \in Seq(Segment)
    BY <2>3, <2>4
  <2> QED
    BY <2>1, <2>5
<1>2. CASE p = DefaultPath
  <2>1. <<"metrics">> \in Names /\ Len(<<"metrics">>) = 1
    BY DEF Names, Name
  <2>2. /\ p.segments \in Seq(Segment) /\ Len(p.segments) = 1
        /\ p.slash = FALSE
    BY <1>2, <2>1, PlainIs DEF DefaultPath
  <2>3. p = [segments |-> p.segments, slash |-> p.slash]
    BY <1>2 DEF DefaultPath, Plain
  <2>4. p.segments # <<>>
    BY <2>2
  <2> QED
    BY <2>2, <2>3, <2>4
<1> QED
  BY <1>1, <1>2

\* The names of a path are its segments' names.
LEMMA NamesAre ==
  ASSUME NEW p \in Paths \cup {DefaultPath}
  PROVE  /\ NamesOf(p) \in Names
         /\ Len(NamesOf(p)) = Len(p.segments)
         /\ \A i \in 1 .. Len(p.segments) : NamesOf(p)[i] = p.segments[i].name
<1> DEFINE segs == p.segments
<1>1. segs \in Seq(Segment)
  BY PathIs
<1> HIDE DEF segs
<1>2. /\ Len(segs) \in Nat /\ DOMAIN segs = 1 .. Len(segs)
      /\ \A i \in 1 .. Len(segs) : segs[i] \in Segment
  BY <1>1
<1>3. NamesOf(p) = [i \in 1 .. Len(segs) |-> segs[i].name]
  BY <1>2 DEF NamesOf, segs
<1>4. [i \in 1 .. Len(segs) |-> segs[i].name] \in [1 .. Len(segs) -> Name]
  BY <1>2 DEF Segment
<1>5. NamesOf(p) \in Names /\ Len(NamesOf(p)) = Len(segs)
  BY <1>2, <1>3, <1>4 DEF Names
<1> QED
  BY <1>3, <1>5 DEF segs

\* For a plainly spelled path, validation and mux compare the same names.
LEMMA PlainUnder ==
  ASSUME NEW p \in Paths \cup {DefaultPath}, PlainlySpelled(p), NEW names \in Names
  PROVE  Under(p, names) <=> IsPrefix(names, NamesOf(p))
<1> DEFINE segs == p.segments
           plain == Plain(names, FALSE).segments
<1>1. segs \in Seq(Segment) /\ \A i \in 1 .. Len(segs) : ~segs[i].escaped
  BY PathIs DEF PlainlySpelled
<1>2. /\ plain \in Seq(Segment) /\ Len(plain) = Len(names)
      /\ \A i \in 1 .. Len(names) : plain[i] = [name |-> names[i], escaped |-> FALSE]
  BY PlainIs
<1>3. /\ NamesOf(p) \in Names /\ Len(NamesOf(p)) = Len(segs)
      /\ \A i \in 1 .. Len(segs) : NamesOf(p)[i] = segs[i].name
  BY NamesAre
<1>4. Under(p, names) <=> IsPrefix(plain, segs)
  BY DEF Under
<1> HIDE DEF segs, plain
<1>5. IsPrefix(plain, segs) <=> Len(names) <= Len(segs) /\ \A i \in 1 .. Len(names) : plain[i] = segs[i]
  BY <1>1, <1>2, PrefixIs
<1>6. IsPrefix(names, NamesOf(p)) <=>
        Len(names) <= Len(segs) /\ \A i \in 1 .. Len(names) : names[i] = segs[i].name
  <2>1. IsPrefix(names, NamesOf(p)) <=>
          Len(names) <= Len(NamesOf(p)) /\ \A i \in 1 .. Len(names) : names[i] = NamesOf(p)[i]
    BY <1>3, PrefixIs DEF Names
  <2>2. Len(names) \in Nat /\ Len(segs) \in Nat
    BY <1>1 DEF Names
  <2> QED
    BY <1>3, <2>1, <2>2
<1>7. ASSUME NEW i \in 1 .. Len(names), Len(names) <= Len(segs)
      PROVE  plain[i] = segs[i] <=> names[i] = segs[i].name
  <2>1. Len(names) \in Nat /\ Len(segs) \in Nat
    BY <1>1 DEF Names
  <2>2. i \in 1 .. Len(segs)
    BY <1>7, <2>1
  <2>3. segs[i] \in Segment /\ ~segs[i].escaped
    BY <1>1, <2>2
  <2>4. segs[i] = [name |-> segs[i].name, escaped |-> FALSE]
    BY <2>3 DEF Segment
  <2>5. plain[i] = [name |-> names[i], escaped |-> FALSE]
    BY <1>2
  <2>6. plain[i].name = names[i]
    BY <2>5
  <2>7. ASSUME names[i] = segs[i].name PROVE plain[i] = segs[i]
    BY <2>4, <2>5, <2>7, Zenon
  <2> QED
    BY <2>6, <2>7
<1> QED
  BY <1>4, <1>5, <1>6, <1>7

-----------------------------------------------------------------------------
(* The patterns of the mux *)

Health  == [names |-> <<"healthz">>, slash |-> FALSE, handler |-> "health"]
Profile == IF pprof THEN "pprof" ELSE "notFound"
Index   == [names |-> <<"debug", "pprof">>, slash |-> TRUE, handler |-> Profile]
Heap    == [names |-> <<"debug", "pprof", "heap">>, slash |-> FALSE, handler |-> "pprof"]
Landing == [names |-> <<>>, slash |-> TRUE, handler |-> "landing"]

\* The patterns that newHandler registers, spelled out.
LEMMA BuiltinsAre ==
  /\ BuiltinPatterns = {Health} \cup (IF pprof THEN {Index, Heap} ELSE {Index}) \cup LandingPatterns
  /\ LandingPatterns = IF telemetry = Root THEN {} ELSE {Landing}
<1>1. ASSUME NEW names \in Names, NEW slash \in BOOLEAN, NEW handler
      PROVE  Pattern(Plain(names, slash), handler) =
               [names |-> names, slash |-> slash, handler |-> handler]
  BY PlainIs DEF Pattern
<1>2. <<"healthz">> \in Names /\ <<"debug", "pprof">> \in Names /\ <<"debug", "pprof", "heap">> \in Names
  BY DEF Names, Name
<1>3. Pattern(Plain(<<"healthz">>, FALSE), "health") = Health
  BY <1>1, <1>2 DEF Health
<1>4. Pattern(Plain(<<"debug", "pprof", "heap">>, FALSE), "pprof") = Heap
  BY <1>1, <1>2 DEF Heap
<1>5. Pattern(Plain(<<"debug", "pprof">>, TRUE), Profile) = Index
  BY <1>1, <1>2 DEF Index
<1>6. PprofPatterns = IF pprof THEN {Index, Heap} ELSE {Index}
  BY <1>4, <1>5 DEF PprofPatterns, Profile
<1>7. Pattern(Root, "landing") = Landing
  <2>1. NamesOf(Root) = <<>>
    BY DEF NamesOf, Root
  <2> QED
    BY <2>1 DEF Pattern, Root, Landing
<1> QED
  BY <1>3, <1>6, <1>7 DEF BuiltinPatterns, LandingPatterns

Patterns == {Pattern(telemetry, "metrics")} \cup BuiltinPatterns

\* After newHandler: its patterns, none of them twice.
Registered == mux = Patterns /\ ~Conflict

Handlers == {"metrics", "health", "pprof", "notFound", "landing"}

LEMMA PatternsTyped ==
  ASSUME telemetry \in Paths \cup {DefaultPath}
  PROVE  /\ \A pat \in Patterns :
              pat.names \in Names /\ pat.slash \in BOOLEAN /\ pat.handler \in Handlers
         /\ \E pat \in Patterns : pat.names = <<>> /\ pat.slash = TRUE
<1>1. /\ Health.names = <<"healthz">> /\ Health.slash = FALSE /\ Health.handler = "health"
      /\ Index.names = <<"debug", "pprof">> /\ Index.slash = TRUE /\ Index.handler = Profile
      /\ Heap.names = <<"debug", "pprof", "heap">> /\ Heap.slash = FALSE /\ Heap.handler = "pprof"
      /\ Landing.names = <<>> /\ Landing.slash = TRUE /\ Landing.handler = "landing"
  BY DEF Health, Index, Heap, Landing
<1>2. /\ <<"healthz">> \in Names /\ <<"debug", "pprof">> \in Names
      /\ <<"debug", "pprof", "heap">> \in Names /\ <<>> \in Names
  BY DEF Names, Name
<1>3. Profile \in Handlers
  BY DEF Profile, Handlers
<1>4. \A pat \in {Health, Index, Heap, Landing} :
        pat.names \in Names /\ pat.slash \in BOOLEAN /\ pat.handler \in Handlers
  BY <1>1, <1>2, <1>3 DEF Handlers
<1> DEFINE metrics == Pattern(telemetry, "metrics")
<1>5. /\ metrics.names = NamesOf(telemetry) /\ metrics.slash = telemetry.slash
      /\ metrics.handler = "metrics"
  BY DEF Pattern
<1>6. metrics.names \in Names /\ metrics.slash \in BOOLEAN /\ metrics.handler \in Handlers
  BY <1>5, NamesAre, PathIs DEF Handlers
<1>7. /\ Patterns \subseteq {metrics, Health, Index, Heap, Landing}
      /\ telemetry # Root => Landing \in Patterns
      /\ metrics \in Patterns
  BY BuiltinsAre DEF Patterns
<1>8. telemetry = Root => metrics.names = <<>> /\ metrics.slash = TRUE
  <2>1. NamesOf(Root) = <<>> /\ Root.slash = TRUE
    BY DEF NamesOf, Root
  <2> HIDE DEF metrics
  <2> QED
    BY <1>5, <2>1
<1> HIDE DEF metrics
<1>9. \E pat \in Patterns : pat.names = <<>> /\ pat.slash = TRUE
  BY <1>1, <1>7, <1>8
<1> QED
  BY <1>4, <1>6, <1>7, <1>9

LEMMA MuxTyped ==
  ASSUME telemetry \in Paths \cup {DefaultPath}, Registered
  PROVE  /\ \A pat \in mux : pat.names \in Names /\ pat.slash \in BOOLEAN /\ pat.handler \in Handlers
         /\ \E pat \in mux : pat.names = <<>> /\ pat.slash = TRUE
BY PatternsTyped DEF Registered

\* A pattern matches what it is a prefix of; the longest one is the path itself.
LEMMA MatchesIs ==
  ASSUME NEW p \in Paths \cup {DefaultPath}, NEW pat,
         pat.names \in Names, pat.slash \in BOOLEAN, Matches(pat, p)
  PROVE  /\ IsPrefix(pat.names, NamesOf(p))
         /\ Len(pat.names) <= Len(NamesOf(p))
         /\ \A i \in 1 .. Len(pat.names) : pat.names[i] = NamesOf(p)[i]
         /\ Len(pat.names) = Len(NamesOf(p)) => Exact(pat, p)
<1> DEFINE names == NamesOf(p)
           own == pat.names
<1>1. own \in Names /\ names \in Names /\ p.slash \in BOOLEAN
  BY NamesAre, PathIs
<1>2. IF pat.slash THEN IsPrefix(own, names) /\ (p.slash \/ own # names) ELSE own = names /\ ~p.slash
  BY DEF Matches
<1>3. Exact(pat, p) <=> own = names /\ pat.slash = p.slash
  BY DEF Exact
<1> HIDE DEF names, own
<1>4. IsPrefix(own, names) <=> Len(own) <= Len(names) /\ \A i \in 1 .. Len(own) : own[i] = names[i]
  BY <1>1, PrefixIs DEF Names
<1>5. Len(own) \in Nat /\ Len(names) \in Nat
  BY <1>1 DEF Names
<1>6. IsPrefix(own, names)
  <2>1. CASE pat.slash = TRUE
    BY <1>2, <2>1
  <2>2. CASE pat.slash = FALSE
    <3>1. own = names
      BY <1>2, <2>2
    <3> QED
      BY <1>4, <1>5, <3>1
  <2> QED
    BY <2>1, <2>2
<1>7. ASSUME Len(own) = Len(names) PROVE own = names
  BY <1>1, <1>4, <1>6, <1>7, SeqEqual DEF Names
<1>8. ASSUME own = names PROVE pat.slash = p.slash
  <2>1. CASE pat.slash = TRUE
    BY <1>1, <1>2, <1>8, <2>1
  <2>2. CASE pat.slash = FALSE
    BY <1>1, <1>2, <2>2
  <2> QED
    BY <2>1, <2>2
<1> QED
  BY <1>3, <1>4, <1>6, <1>7, <1>8 DEF names, own

\* A path matches a pattern for it.
LEMMA ExactMatches ==
  ASSUME NEW p \in Paths \cup {DefaultPath}, NEW pat,
         pat.names \in Names, pat.slash \in BOOLEAN, Exact(pat, p)
  PROVE  Matches(pat, p)
<1>1. pat.names = NamesOf(p) /\ pat.slash = p.slash
  BY DEF Exact
<1>2. IsPrefix(pat.names, NamesOf(p))
  <2>1. Len(pat.names) \in Nat
    BY DEF Names
  <2> QED
    BY <1>1, <2>1 DEF IsPrefix
<1>3. CASE pat.slash = TRUE
  BY <1>1, <1>2, <1>3 DEF Matches
<1>4. CASE pat.slash = FALSE
  BY <1>1, <1>4 DEF Matches
<1> QED
  BY <1>3, <1>4

\* A bounded set of naturals has a greatest element: what lies above it is least.
LEMMA Greatest ==
  ASSUME NEW n \in Nat, NEW T, T \subseteq 0 .. n, T # {}
  PROVE  \E x \in T : \A y \in T : y <= x
<1> DEFINE Above == {k + 1 .. n : k \in T}
<1>1. IsWellFoundedOn(StrictSubsetOrdering(Nat), FiniteSubsetsOf(Nat))
  BY FS_StrictSubsetOrderingWellFounded
<1>2. Above \subseteq FiniteSubsetsOf(Nat)
  <2>1. \A k \in T : k + 1 .. n \subseteq Nat /\ IsFiniteSet(k + 1 .. n)
    BY FS_Interval
  <2> QED
    BY <2>1 DEF FiniteSubsetsOf
<1>3. \E x \in Above : \A y \in Above : ~(<<y, x>> \in StrictSubsetOrdering(Nat))
  <2>1. Above # {}
    OBVIOUS
  <2> HIDE DEF Above
  <2> QED
    BY <1>1, <1>2, <2>1, WFMin
<1>4. PICK m \in T : \A y \in Above : ~(<<y, m + 1 .. n>> \in StrictSubsetOrdering(Nat))
  BY <1>3
<1>5. ASSUME NEW k \in T, m < k PROVE FALSE
  <2>1. k + 1 .. n \in Above
    OBVIOUS
  <2>2. k \in Nat /\ m \in Nat /\ k <= n
    OBVIOUS
  <2>3. /\ k + 1 .. n \subseteq Nat /\ m + 1 .. n \subseteq Nat
        /\ k \in m + 1 .. n /\ k \notin k + 1 .. n
        /\ k + 1 .. n \subseteq m + 1 .. n
    BY <1>5, <2>2
  <2> HIDE DEF Above
  <2>4. <<k + 1 .. n, m + 1 .. n>> \in StrictSubsetOrdering(Nat)
    BY <2>3 DEF StrictSubsetOrdering
  <2> QED
    BY <1>4, <2>1, <2>4
<1> QED
  BY <1>5

\* Every path has a most specific pattern: at least the root matches.
LEMMA BestIs ==
  ASSUME telemetry \in Paths \cup {DefaultPath}, Registered,
         NEW p \in Paths \cup {DefaultPath}
  PROVE  /\ Best(p) \in mux
         /\ Matches(Best(p), p)
         /\ \A other \in mux : Matches(other, p) => Len(other.names) <= Len(Best(p).names)
<1> DEFINE T == {Len(pat.names) : pat \in {q \in mux : Matches(q, p)}}
           n == Len(NamesOf(p))
<1>1. \A pat \in mux : pat.names \in Names /\ pat.slash \in BOOLEAN
  BY MuxTyped
<1>2. \E pat \in mux : Matches(pat, p)
  <2>1. PICK pat \in mux : pat.names = <<>> /\ pat.slash = TRUE
    BY MuxTyped
  <2>2. NamesOf(p) \in Names /\ Len(NamesOf(p)) = Len(p.segments) /\ p.segments \in Seq(Segment)
    BY NamesAre, PathIs
  <2>3. IsPrefix(pat.names, NamesOf(p))
    <3>1. pat.names \in Names /\ Len(pat.names) = 0 /\ Len(NamesOf(p)) \in Nat
      BY <1>1, <2>1, <2>2 DEF Names
    <3>2. IsPrefix(pat.names, NamesOf(p)) <=>
            /\ Len(pat.names) <= Len(NamesOf(p))
            /\ \A i \in 1 .. Len(pat.names) : pat.names[i] = NamesOf(p)[i]
      BY <2>2, <3>1, PrefixIs DEF Names
    <3> QED
      BY <3>1, <3>2
  <2>4. ASSUME NamesOf(p) = <<>> PROVE p.slash
    <3>1. p.segments = <<>>
      BY <2>2, <2>4
    <3> QED
      BY <3>1, PathIs
  <2> QED
    BY <2>1, <2>3, <2>4 DEF Matches
<1>3. n \in Nat
  BY NamesAre DEF Names
<1>4. T \subseteq 0 .. n
  <2>1. \A pat \in mux : Matches(pat, p) => Len(pat.names) <= n
    BY <1>1, MatchesIs
  <2>2. \A pat \in mux : Len(pat.names) \in Nat
    BY <1>1 DEF Names
  <2> QED
    BY <1>3, <2>1, <2>2
<1>5. \E x \in T : \A y \in T : y <= x
  <2>1. T # {}
    BY <1>2
  <2> HIDE DEF T, n
  <2> QED
    BY <1>3, <1>4, <2>1, Greatest
<1>6. \E pat \in mux : /\ Matches(pat, p)
                       /\ \A other \in mux : Matches(other, p) => Len(other.names) <= Len(pat.names)
  BY <1>5
<1> QED
  BY <1>6 DEF Best

\* A path with a pattern of its own is answered by it.
LEMMA BestExact ==
  ASSUME telemetry \in Paths \cup {DefaultPath}, Registered,
         NEW p \in Paths \cup {DefaultPath}, NEW pat \in mux, Exact(pat, p)
  PROVE  Exact(Best(p), p)
<1>1. /\ pat.names \in Names /\ pat.slash \in BOOLEAN
      /\ Best(p) \in mux /\ Best(p).names \in Names /\ Best(p).slash \in BOOLEAN
  BY BestIs, MuxTyped
<1>2. Len(pat.names) <= Len(Best(p).names) /\ Matches(Best(p), p)
  BY <1>1, BestIs, ExactMatches
<1>3. Len(Best(p).names) <= Len(NamesOf(p))
  BY <1>1, <1>2, MatchesIs
<1>4. Len(pat.names) = Len(NamesOf(p))
  BY DEF Exact
<1>5. Len(Best(p).names) \in Nat /\ Len(pat.names) \in Nat
  BY <1>1 DEF Names
<1>6. Len(Best(p).names) = Len(NamesOf(p))
  BY <1>2, <1>3, <1>4, <1>5
<1> QED
  BY <1>1, <1>2, <1>6, MatchesIs

-----------------------------------------------------------------------------
(* The invariant: what has been validated and registered, and the answer to it *)

RoutesWhole ==
  /\ TypeOK
  /\ pc \in {"newHandler", "panicked", "serving", "answered"} => Acceptable(telemetry)
  /\ pc = "panicked" => Conflict
  /\ pc \in {"serving", "answered"} => Registered
  /\ pc = "answered" =>
       request \in PlainPaths \cup {telemetry} /\ response = Response(request)

\* Whatever is not redirected is answered by its best pattern, which has a handler.
LEMMA Answers ==
  ASSUME telemetry \in Paths \cup {DefaultPath}, Registered,
         NEW p \in Paths \cup {DefaultPath}
  PROVE  /\ Response(p) \in {"redirect", "metrics", "health", "pprof", "notFound", "landing"}
         /\ Response(p) # "redirect" =>
              /\ Clean(p) = p
              /\ Exact(Best(p), p) \/ ~\E pat \in mux : Exact(pat, [p EXCEPT !.slash = TRUE])
              /\ Response(p) =
                   IF Best(p).handler = "landing" /\ p # Root THEN "notFound" ELSE Best(p).handler
<1>1. CASE Clean(p) # p
  BY <1>1 DEF Response
<1>2. CASE Clean(p) = p
  <2>1. Best(p).handler \in Handlers
    BY BestIs, MuxTyped
  <2>2. Response(p) =
          IF ~Exact(Best(p), p) /\ \E pat \in mux : Exact(pat, [p EXCEPT !.slash = TRUE])
          THEN "redirect"
          ELSE IF Best(p).handler = "landing" /\ p # Root THEN "notFound" ELSE Best(p).handler
    BY <1>2 DEF Response
  <2> QED
    BY <1>2, <2>1, <2>2 DEF Handlers
<1> QED
  BY <1>1, <1>2

LEMMA InitWhole == Init => RoutesWhole
<1>1. Root \in Paths
  <2>1. <<>> \in [1 .. 0 -> Segments]
    OBVIOUS
  <2>2. <<>> \in SeqOf(Segments, MaxSegments)
    BY <2>1, RoutesAssumption DEF SeqOf
  <2> QED
    BY <2>2 DEF Root, Paths
<1> QED
  BY <1>1 DEF Init, RoutesWhole, TypeOK

LEMMA StepWhole == RoutesWhole /\ [Next]_vars => RoutesWhole'
<1> SUFFICES ASSUME RoutesWhole, [Next]_vars PROVE RoutesWhole'
  OBVIOUS
<1>1. TypeOK
  BY DEF RoutesWhole
<1>2. telemetry \in Paths \cup {DefaultPath}
  BY <1>1 DEF TypeOK
<1>3. CASE Reject
  BY <1>1, <1>3 DEF Reject, RoutesWhole, TypeOK
<1>4. CASE Accept
  <2>1. telemetry' \in Paths \cup {DefaultPath}
    BY <1>1, <1>4 DEF Accept, TypeOK, Settings, Normalized, Acceptable
  <2>2. TypeOK'
    BY <1>1, <1>4, <2>1 DEF Accept, TypeOK
  <2>3. Acceptable(telemetry)'
    BY <1>4 DEF Accept, Acceptable, Under
  <2> QED
    BY <1>4, <2>2, <2>3 DEF Accept, RoutesWhole
<1>5. CASE NewHandlerPanics
  <2>1. TypeOK'
    BY <1>1, <1>5 DEF NewHandlerPanics, TypeOK
  <2>2. Acceptable(telemetry)'
    BY <1>5 DEF NewHandlerPanics, RoutesWhole, Acceptable, Under
  <2>3. Conflict'
    BY <1>5 DEF NewHandlerPanics, Conflict, BuiltinPatterns, PprofPatterns, LandingPatterns
  <2> QED
    BY <1>5, <2>1, <2>2, <2>3 DEF NewHandlerPanics, RoutesWhole
<1>6. CASE NewHandler
  <2>1. Acceptable(telemetry)'
    BY <1>6 DEF NewHandler, RoutesWhole, Acceptable, Under
  <2>2. Registered'
    BY <1>6 DEF NewHandler, Registered, Patterns, Conflict, BuiltinPatterns, PprofPatterns, LandingPatterns
  <2>3. TypeOK'
    <3>1. \A pat \in mux' : pat.handler \in Handlers
      <4>1. mux' = Patterns
        BY <1>6 DEF NewHandler, Patterns
      <4> QED
        BY <1>2, <4>1, PatternsTyped
    <3> QED
      BY <1>1, <1>6, <3>1 DEF NewHandler, TypeOK, Handlers
  <2> QED
    BY <1>6, <2>1, <2>2, <2>3 DEF NewHandler, RoutesWhole
<1>7. ASSUME NEW p \in PlainPaths \cup {telemetry}, Get(p) PROVE RoutesWhole'
  <2>1. p \in Paths \cup {DefaultPath}
    BY <1>2 DEF PlainPaths
  <2>2. Registered
    BY <1>7 DEF Get, RoutesWhole
  <2>3. Response(p) \in {"redirect", "metrics", "health", "pprof", "notFound", "landing"}
    BY <1>2, <2>1, <2>2, Answers
  <2>4. TypeOK'
    BY <1>1, <1>7, <2>1, <2>3 DEF Get, TypeOK
  <2>5. Acceptable(telemetry)'
    BY <1>7 DEF Get, RoutesWhole, Acceptable, Under
  <2>6. Registered'
    BY <1>7, <2>2 DEF Get, Registered, Patterns, Conflict, BuiltinPatterns, PprofPatterns, LandingPatterns
  <2>7. Response(request)' = Response(p)
    BY <1>7 DEF Get, Response, Best
  <2> QED
    BY <1>7, <2>4, <2>5, <2>6, <2>7 DEF Get, RoutesWhole
<1>8. CASE UNCHANGED vars
  BY <1>8, ZenonT(30)
  DEF vars, RoutesWhole, TypeOK, Acceptable, Under, Conflict, Registered, Patterns,
      BuiltinPatterns, PprofPatterns, LandingPatterns, Response, Best
<1> QED
  BY <1>3, <1>4, <1>5, <1>6, <1>7, <1>8 DEF Next, Ended

\* What has been validated stays so, the mux has the patterns of newHandler, and the
\* answer is the one the mux gives.
THEOREM Invariance == Spec => []RoutesWhole
BY InitWhole, StepWhole, PTL DEF Spec

-----------------------------------------------------------------------------
(* What follows from it *)

\* The types of the variables: in particular every request is answered.
THEOREM TypeCorrect == Spec => []TypeOK
BY Invariance, PTL DEF RoutesWhole

\* "The configured telemetry path exposes the registry", for every path that validation
\* accepts and however it is spelled: its pattern is its best one, because any other of
\* that length would have made newHandler panic.
THEOREM Served == Spec => []MetricsServed
<1>1. RoutesWhole => MetricsServed
  <2> SUFFICES ASSUME RoutesWhole, pc = "answered", request = telemetry, Clean(telemetry) = telemetry
               PROVE  response = "metrics"
    BY DEF MetricsServed
  <2>1. /\ telemetry \in Paths \cup {DefaultPath}
        /\ Registered /\ response = Response(telemetry)
    BY DEF RoutesWhole, TypeOK
  <2> DEFINE metrics == Pattern(telemetry, "metrics")
             best == Best(telemetry)
  <2>2. /\ metrics \in mux /\ metrics.handler = "metrics"
        /\ Exact(metrics, telemetry)
    BY <2>1 DEF Registered, Patterns, Pattern, Exact
  <2>3. Exact(best, telemetry) /\ best \in mux
    BY <2>1, <2>2, BestExact, BestIs
  <2>4. best \notin BuiltinPatterns
    BY <2>1, <2>3 DEF Registered, Conflict, Exact
  <2>5. best = metrics
    BY <2>1, <2>3, <2>4 DEF Registered, Patterns
  <2>6. Response(telemetry) = "metrics"
    BY <2>2, <2>3, <2>5 DEF Response
  <2> QED
    BY <2>1, <2>6
<1> QED
  BY <1>1, Invariance, PTL

\* A plainly spelled path that is accepted does not lie where validation forbids it.
LEMMA AcceptedApart ==
  ASSUME telemetry \in Paths \cup {DefaultPath}, PlainlySpelled(telemetry), Acceptable(telemetry)
  PROVE  /\ ~IsPrefix(<<"healthz">>, NamesOf(telemetry))
         /\ ~IsPrefix(<<"debug", "pprof">>, NamesOf(telemetry))
<1>1. <<"healthz">> \in Names /\ <<"debug", "pprof">> \in Names
  BY DEF Names, Name
<1> QED
  BY <1>1, PlainUnder DEF Acceptable

\* Prefixes by element, for the names of the built-in patterns.
LEMMA ReservedPrefixes ==
  ASSUME NEW names \in Names
  PROVE  /\ names = <<"healthz">> => IsPrefix(<<"healthz">>, names)
         /\ IsPrefix(<<"debug", "pprof">>, names) <=>
              Len(names) >= 2 /\ names[1] = "debug" /\ names[2] = "pprof"
<1>1. <<"healthz">> \in Names /\ <<"debug", "pprof">> \in Names /\ Len(names) \in Nat
  BY DEF Names, Name
<1>2. <<"healthz">> \in Seq(Name) /\ <<"debug", "pprof">> \in Seq(Name) /\ names \in Seq(Name)
  BY <1>1 DEF Names
<1>3. IsPrefix(<<"healthz">>, <<"healthz">>)
  <2>1. Len(<<"healthz">>) \in Nat
    OBVIOUS
  <2> QED
    BY <2>1 DEF IsPrefix
<1>4. IsPrefix(<<"debug", "pprof">>, names) <=>
        2 <= Len(names) /\ \A i \in 1 .. 2 : <<"debug", "pprof">>[i] = names[i]
  <2> DEFINE d == <<"debug", "pprof">>
  <2>1. Len(d) = 2 /\ d \in Seq(Name)
    BY <1>2
  <2> HIDE DEF d
  <2>2. IsPrefix(d, names) <=> Len(d) <= Len(names) /\ \A i \in 1 .. Len(d) : d[i] = names[i]
    <3>1. d \in Seq(Name) /\ names \in Seq(Name)
      BY <1>2, <2>1
    <3> QED
      BY ONLY <3>1, PrefixIs
  <2>3. IsPrefix(d, names) <=> 2 <= Len(names) /\ \A i \in 1 .. 2 : d[i] = names[i]
    BY <2>1, <2>2
  <2> QED
    BY <2>3 DEF d
<1>5. (\A i \in 1 .. 2 : <<"debug", "pprof">>[i] = names[i]) <=> names[1] = "debug" /\ names[2] = "pprof"
  OBVIOUS
<1> QED
  BY <1>1, <1>3, <1>4, <1>5

\* Then no pattern of newHandler is for it: the mux does not panic.
LEMMA NoConflict ==
  ASSUME telemetry \in Paths \cup {DefaultPath}, PlainlySpelled(telemetry), Acceptable(telemetry)
  PROVE  ~Conflict
<1> SUFFICES ASSUME NEW b \in BuiltinPatterns,
                    b.names = NamesOf(telemetry), b.slash = telemetry.slash
             PROVE  FALSE
  BY DEF Conflict
<1>1. /\ ~IsPrefix(<<"healthz">>, NamesOf(telemetry))
      /\ ~IsPrefix(<<"debug", "pprof">>, NamesOf(telemetry))
  BY AcceptedApart
<1>2. NamesOf(telemetry) \in Names
  BY NamesAre
<1>3. b.names # <<"healthz">>
  BY <1>1, <1>2, ReservedPrefixes
<1>4. b.names # <<"debug", "pprof">> /\ b.names # <<"debug", "pprof", "heap">>
  BY <1>1, <1>2, ReservedPrefixes
<1>5. telemetry # Root /\ b = Landing
  BY <1>3, <1>4, BuiltinsAre DEF Health, Index, Heap
<1>6. telemetry = Root
  <2>1. b.names = <<>> /\ b.slash = TRUE
    BY <1>5 DEF Landing
  <2>2. Len(telemetry.segments) = 0 /\ telemetry.segments \in Seq(Segment)
    <3>1. Len(telemetry.segments) = Len(NamesOf(telemetry)) /\ telemetry.segments \in Seq(Segment)
      BY NamesAre, PathIs
    <3>2. NamesOf(telemetry) = <<>>
      BY <2>1
    <3> QED
      BY <3>1, <3>2
  <2>3. telemetry = [segments |-> <<>>, slash |-> TRUE]
    BY <2>1, <2>2, PathIs
  <2> QED
    BY <2>3 DEF Root
<1> QED
  BY <1>5, <1>6

\* /healthz has no dot segments, and a pattern that is its best one.
LEMMA HealthAnswers ==
  ASSUME telemetry \in Paths \cup {DefaultPath}, PlainlySpelled(telemetry), Acceptable(telemetry),
         Registered, NEW p \in Paths \cup {DefaultPath}, NamesOf(p) = <<"healthz">>, ~p.slash
  PROVE  Response(p) = "health"
<1>1. Clean(p) = p
  <2>1. /\ p.segments \in Seq(Segment) /\ Len(p.segments) = Len(NamesOf(p))
        /\ \A i \in 1 .. Len(p.segments) : NamesOf(p)[i] = p.segments[i].name
    BY NamesAre, PathIs
  <2>2. Len(p.segments) = 1
    BY <2>1
  <2>3. \A i \in DOMAIN p.segments : p.segments[i].name = "healthz"
    BY <2>1, <2>2
  <2>4. \A i \in DOMAIN p.segments : ~Dot(p.segments[i])
    BY <2>3 DEF Dot
  <2> QED
    BY <2>4 DEF Clean
<1> DEFINE best == Best(p)
<1>2. Health \in mux /\ Health.names = <<"healthz">> /\ Health.slash = FALSE
  BY BuiltinsAre DEF Registered, Patterns, Health
<1>3. p.slash = FALSE
  BY PathIs
<1>4. Exact(Health, p)
  BY <1>2, <1>3 DEF Exact
<1>5. Exact(best, p) /\ best \in mux
  BY <1>2, <1>4, BestExact, BestIs
<1>6. best # Pattern(telemetry, "metrics")
  <2>1. NamesOf(telemetry) # <<"healthz">>
    BY AcceptedApart, NamesAre, ReservedPrefixes
  <2> QED
    BY <1>5, <2>1 DEF Exact, Pattern
<1>7. best \in {Health, Index, Heap, Landing}
  BY <1>5, <1>6, BuiltinsAre DEF Registered, Patterns
<1>8. best.names = <<"healthz">>
  BY <1>5 DEF Exact
<1>9. best = Health
  BY <1>7, <1>8 DEF Index, Heap, Landing
<1> QED
  BY <1>1, <1>5, <1>9 DEF Response, Health

\* Below /debug/pprof/ nothing else matches as well as the profiler's own patterns, and
\* /debug/pprof itself, for which there is no pattern, is redirected.
LEMMA ProfilerAnswers ==
  ASSUME telemetry \in Paths \cup {DefaultPath}, PlainlySpelled(telemetry), Acceptable(telemetry),
         Registered, NEW p \in Paths \cup {DefaultPath},
         IsPrefix(<<"debug", "pprof">>, NamesOf(p)), pprof \in BOOLEAN
  PROVE  Response(p) \in {"redirect", IF pprof THEN "pprof" ELSE "notFound"}
<1> SUFFICES ASSUME Response(p) # "redirect" PROVE Response(p) = Profile
  BY DEF Profile
<1> DEFINE best  == Best(p)
           names == NamesOf(p)
<1>1. /\ names \in Names /\ Len(names) \in Nat
      /\ Len(names) >= 2 /\ names[1] = "debug" /\ names[2] = "pprof"
  BY NamesAre, ReservedPrefixes DEF Names
<1>2. /\ Exact(best, p) \/ ~\E pat \in mux : Exact(pat, [p EXCEPT !.slash = TRUE])
      /\ Response(p) = IF best.handler = "landing" /\ p # Root THEN "notFound" ELSE best.handler
  BY Answers
<1>3. /\ best \in mux /\ Matches(best, p) /\ best.names \in Names /\ best.slash \in BOOLEAN
      /\ \A other \in mux : Matches(other, p) => Len(other.names) <= Len(best.names)
  BY BestIs, MuxTyped
<1>4. /\ Index \in mux /\ Index.names = <<"debug", "pprof">> /\ Index.slash = TRUE
      /\ Index.handler = Profile
  BY BuiltinsAre DEF Registered, Patterns, Index
<1> HIDE DEF best
<1>5. Len(best.names) >= 2
  <2>1. CASE Exact(best, p)
    BY <1>1, <2>1 DEF Exact
  <2>2. CASE ~Exact(best, p)
    <3>1. ~Exact(Index, [p EXCEPT !.slash = TRUE])
      BY <1>2, <1>4, <2>2
    <3>2. NamesOf([p EXCEPT !.slash = TRUE]) = names /\ [p EXCEPT !.slash = TRUE].slash = TRUE
      BY PathIs DEF NamesOf
    <3>3. names # <<"debug", "pprof">>
      BY <1>4, <3>1, <3>2 DEF Exact
    <3>4. Matches(Index, p)
      BY <1>4, <3>3 DEF Matches
    <3>5. Len(Index.names) = 2
      BY <1>4
    <3> QED
      BY <1>3, <1>4, <3>4, <3>5 DEF Names
  <2> QED
    BY <2>1, <2>2
<1>6. best.names[1] = "debug" /\ best.names[2] = "pprof"
  <2>1. \A i \in 1 .. Len(best.names) : best.names[i] = names[i]
    BY <1>3, MatchesIs
  <2>2. Len(best.names) \in Nat
    BY <1>3 DEF Names
  <2> QED
    BY <1>1, <1>5, <2>1, <2>2
<1>7. best # Pattern(telemetry, "metrics")
  <2>1. ~IsPrefix(<<"debug", "pprof">>, NamesOf(telemetry))
    BY AcceptedApart
  <2>2. IsPrefix(<<"debug", "pprof">>, best.names)
    BY <1>3, <1>5, <1>6, ReservedPrefixes
  <2>3. best.names # NamesOf(telemetry)
    BY <2>1, <2>2
  <2> QED
    BY <2>3 DEF Pattern
<1>8. best \in {Health, Index, Landing} \/ (pprof = TRUE /\ best = Heap)
  <2>1. best \in BuiltinPatterns
    BY <1>3, <1>7 DEF Registered, Patterns
  <2>2. CASE pprof = TRUE
    BY <2>1, <2>2, BuiltinsAre
  <2>3. CASE pprof = FALSE
    BY <2>1, <2>3, BuiltinsAre
  <2> QED
    BY <2>2, <2>3
<1>9. best # Health /\ best # Landing
  <2>1. Len(Health.names) = 1 /\ Len(Landing.names) = 0
    BY DEF Health, Landing
  <2>2. Len(best.names) \in Nat
    BY <1>3 DEF Names
  <2>3. \A n \in Nat : n >= 2 => n # 1 /\ n # 0
    OBVIOUS
  <2>4. Len(best.names) # 1 /\ Len(best.names) # 0
    BY <1>5, <2>2, <2>3, Zenon
  <2> QED
    BY <2>1, <2>4, Zenon
<1>10. best.handler = Profile
  <2>1. CASE best = Index
    BY <1>4, <2>1
  <2>2. CASE pprof = TRUE /\ best = Heap
    BY <2>2 DEF Heap, Profile
  <2> QED
    BY <1>8, <1>9, <2>1, <2>2
<1> QED
  BY <1>2, <1>10 DEF Profile

\* What validation does guarantee of the reserved paths: of the plainly spelled ones
\* none is accepted.
THEOREM PlainReservedRefused == Spec => [](PlainlySpelled(telemetry) => ReservedRefused)
<1>1. RoutesWhole => (PlainlySpelled(telemetry) => ReservedRefused)
  BY AcceptedApart DEF RoutesWhole, TypeOK, ReservedRefused
<1> QED
  BY <1>1, Invariance, PTL

\* A plainly spelled telemetry path leaves the built-in routes alone: with it newHandler
\* does not panic, and /healthz and what lies below /debug/pprof answer as built in.
THEOREM ReservedStayReserved == Spec => []RoutesInv
<1>1. RoutesWhole => RoutesInv
  <2> SUFFICES ASSUME RoutesWhole, PlainlySpelled(telemetry)
               PROVE  /\ pc # "panicked"
                      /\ pc = "answered" =>
                           /\ NamesOf(request) = <<"healthz">> /\ ~request.slash => response = "health"
                           /\ IsPrefix(<<"debug", "pprof">>, NamesOf(request)) =>
                                response \in {"redirect", IF pprof THEN "pprof" ELSE "notFound"}
    BY DEF RoutesWhole, RoutesInv, ReservedKept
  <2>1. telemetry \in Paths \cup {DefaultPath} /\ request \in Paths \cup {DefaultPath} /\ pprof \in BOOLEAN
    BY DEF RoutesWhole, TypeOK
  <2>2. pc # "panicked"
    BY <2>1, NoConflict DEF RoutesWhole
  <2>3. ASSUME pc = "answered", NamesOf(request) = <<"healthz">>, ~request.slash
        PROVE  response = "health"
    BY <2>1, <2>3, HealthAnswers DEF RoutesWhole
  <2>4. ASSUME pc = "answered", IsPrefix(<<"debug", "pprof">>, NamesOf(request))
        PROVE  response \in {"redirect", IF pprof THEN "pprof" ELSE "notFound"}
    <3>1. Acceptable(telemetry) /\ Registered /\ response = Response(request)
      BY <2>4 DEF RoutesWhole
    <3> QED
      BY <2>1, <2>4, <3>1, ProfilerAnswers
  <2> QED
    BY <2>2, <2>3, <2>4
<1> QED
  BY <1>1, Invariance, PTL

=============================================================================
