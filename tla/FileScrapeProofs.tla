-------------------------- MODULE FileScrapeProofs --------------------------
(***************************************************************************)
(* For any number of concurrent calls and of changes of the file: every    *)
(* failure is counted once, results never claim newer data than they       *)
(* parsed, and their totals never fall behind.                             *)
(*                                                                         *)
(* The file's modification times only grow, so that what is read is at     *)
(* least as new as what was statted (Older).  The counters only grow too;  *)
(* a call loads them after it has counted its own failure, and whatever an *)
(* earlier call returned was loaded before that (Ahead).                   *)
(***************************************************************************)
EXTENDS FileScrape, FiniteSetTheorems, TLAPS

\* The calls that failed are finitely many, and one more failure is one more.
LEMMA CountFailure ==
  ASSUME NEW A \in SUBSET Scrapes, NEW s \in Scrapes, s \notin A
  PROVE  Cardinality(A \cup {s}) = Cardinality(A) + 1
<1>1. IsFiniteSet(A)
  BY FS_Subset, ScrapeAssumption
<1> QED
  BY <1>1, FS_AddElement

\* No call has done anything at first.
LEMMA InitInv == Init => ScrapeInv
<1> SUFFICES ASSUME Init PROVE ScrapeInv
  OBVIOUS
<1> USE ScrapeAssumption DEF Init
<1>1. TypeOK
  <2>1. file \in Files
    <3>1. CASE file = Missing
      BY <3>1 DEF Files, Missing
    <3>2. CASE file \in [exists : {TRUE}, mtime : {1}, good : BOOLEAN]
      <4>1. file.exists \in BOOLEAN /\ file.mtime = 1 /\ file.good \in BOOLEAN
        BY <3>2
      <4>2. file = [exists |-> file.exists, mtime |-> file.mtime, good |-> file.good]
        BY <3>2
      <4> QED
        BY <4>1, <4>2 DEF Files
    <3> QED
      BY <3>1, <3>2
  <2> QED
    BY <2>1 DEF TypeOK, Files, Missing
<1>2. ErrorsCounted
  <2>1. Failed("read") = {} /\ Failed("parse") = {}
    BY DEF Failed
  <2> QED
    BY <2>1, FS_EmptySet DEF ErrorsCounted
<1>3. Fresh /\ Older /\ Ahead
  BY DEF Fresh, Older, Ahead, Own
<1> QED
  BY <1>1, <1>2, <1>3 DEF ScrapeInv

\* Returned calls stay returned: what was returned before this one began is final.
LEMMA StatFileInv ==
  ASSUME ScrapeInv, NEW s \in Scrapes, StatFile(s)
  PROVE  ScrapeInv'
<1> USE ScrapeAssumption DEF StatFile, Goto, Set, counters, ScrapeInv
<1>1. TypeOK'
  <2>1. result' \in [Scrapes -> [up : BOOLEAN, mtime : 0 .. rewrites + 1,
                                 err : {"none", "read", "parse"},
                                 readErrors : Nat, parseErrors : Nat]]
    BY ZenonT(30) DEF TypeOK, Files
  <2>2. Returned \subseteq Returned'
    BY DEF TypeOK, Returned
  <2>3. before' \in [Scrapes -> SUBSET Returned']
    BY <2>2 DEF TypeOK
  <2> QED
    BY <2>1, <2>3 DEF TypeOK, Files
<1>2. ErrorsCounted'
  <2>1. Failed("read")' = Failed("read") /\ Failed("parse")' = Failed("parse")
    BY DEF Failed, TypeOK
  <2> QED
    BY <2>1 DEF ErrorsCounted
<1>3. Fresh'
  BY DEF Fresh, TypeOK, Returned
<1>4. Older'
  BY DEF Older, Fresh, TypeOK, Files, Missing
<1>5. Ahead'
  BY DEF Ahead, Fresh, TypeOK, Own, Returned
<1> QED
  BY <1>1, <1>2, <1>3, <1>4, <1>5

\* The file read is the one statted, or a newer one.
LEMMA ReadFileInv ==
  ASSUME ScrapeInv, NEW s \in Scrapes, ReadFile(s)
  PROVE  ScrapeInv'
<1> USE ScrapeAssumption DEF ReadFile, Goto, Set, counters, ScrapeInv
<1>1. TypeOK'
  BY ZenonT(30) DEF TypeOK, Files, Missing, Returned
<1>2. ErrorsCounted'
  <2>1. Failed("read")' = Failed("read") /\ Failed("parse")' = Failed("parse")
    BY DEF Failed, TypeOK
  <2> QED
    BY <2>1 DEF ErrorsCounted
<1>3. Fresh'
  BY DEF Fresh, TypeOK, Returned
<1>4. Older'
  BY DEF Older, Fresh, TypeOK, Files, Missing
<1>5. Ahead'
  BY DEF Ahead, Fresh, TypeOK, Own, Returned
<1> QED
  BY <1>1, <1>2, <1>3, <1>4, <1>5

\* A failure is counted, and it is the call's only one.
LEMMA ReadFailsInv ==
  ASSUME ScrapeInv, NEW s \in Scrapes, ReadFails(s)
  PROVE  ScrapeInv'
<1> USE ScrapeAssumption DEF ReadFails, Goto, Set, counters, ScrapeInv
<1>1. TypeOK'
  BY DEF TypeOK, Files, Missing, Returned
<1>2. ErrorsCounted'
  <2>1. s \notin Failed("read")
    BY DEF Failed, Fresh, TypeOK
  <2>2. Failed("read")' = Failed("read") \cup {s} /\ Failed("parse")' = Failed("parse")
    BY DEF Failed, Fresh, TypeOK
  <2>3. Failed("read") \in SUBSET Scrapes
    BY DEF Failed
  <2> QED
    BY <2>1, <2>2, <2>3, CountFailure DEF ErrorsCounted
<1>3. Fresh'
  BY DEF Fresh, TypeOK, Returned
<1>4. Older'
  BY DEF Older, Fresh, TypeOK, Files, Missing
<1>5. Ahead'
  BY DEF Ahead, Fresh, TypeOK, Own, Returned
<1> QED
  BY <1>1, <1>2, <1>3, <1>4, <1>5

\* Parsing changes nothing.
LEMMA ParseOKInv ==
  ASSUME ScrapeInv, NEW s \in Scrapes, ParseOK(s)
  PROVE  ScrapeInv'
<1> USE ScrapeAssumption DEF ParseOK, Goto, Set, counters, ScrapeInv
<1>1. TypeOK'
  BY DEF TypeOK, Files, Missing, Returned
<1>2. ErrorsCounted'
  <2>1. Failed("read")' = Failed("read") /\ Failed("parse")' = Failed("parse")
    BY DEF Failed, TypeOK
  <2> QED
    BY <2>1 DEF ErrorsCounted
<1>3. Fresh'
  BY DEF Fresh, TypeOK, Returned
<1>4. Older'
  BY DEF Older, Fresh, TypeOK, Files, Missing
<1>5. Ahead'
  BY DEF Ahead, Fresh, TypeOK, Own, Returned
<1> QED
  BY <1>1, <1>2, <1>3, <1>4, <1>5

\* As for a failure to read.
LEMMA ParseFailsInv ==
  ASSUME ScrapeInv, NEW s \in Scrapes, ParseFails(s)
  PROVE  ScrapeInv'
<1> USE ScrapeAssumption DEF ParseFails, Goto, Set, counters, ScrapeInv
<1>1. TypeOK'
  BY DEF TypeOK, Files, Missing, Returned
<1>2. ErrorsCounted'
  <2>1. s \notin Failed("parse")
    BY DEF Failed, Fresh, TypeOK
  <2>2. Failed("parse")' = Failed("parse") \cup {s} /\ Failed("read")' = Failed("read")
    BY DEF Failed, Fresh, TypeOK
  <2>3. Failed("parse") \in SUBSET Scrapes
    BY DEF Failed
  <2> QED
    BY <2>1, <2>2, <2>3, CountFailure DEF ErrorsCounted
<1>3. Fresh'
  BY DEF Fresh, TypeOK, Returned
<1>4. Older'
  BY DEF Older, Fresh, TypeOK, Files, Missing
<1>5. Ahead'
  BY DEF Ahead, Fresh, TypeOK, Own, Returned
<1> QED
  BY <1>1, <1>2, <1>3, <1>4, <1>5

\* The total loaded is at least those of earlier calls and the own failure.
LEMMA LoadReadErrorsInv ==
  ASSUME ScrapeInv, NEW s \in Scrapes, LoadReadErrors(s)
  PROVE  ScrapeInv'
<1> USE ScrapeAssumption DEF LoadReadErrors, Goto, Set, counters, ScrapeInv
<1>1. TypeOK'
  <2>1. result' \in [Scrapes -> [up : BOOLEAN, mtime : 0 .. rewrites + 1,
                                 err : {"none", "read", "parse"},
                                 readErrors : Nat, parseErrors : Nat]]
    BY ZenonT(30) DEF TypeOK, Files
  <2>2. Returned \subseteq Returned'
    BY DEF TypeOK, Returned
  <2>3. before' \in [Scrapes -> SUBSET Returned']
    BY <2>2 DEF TypeOK
  <2> QED
    BY <2>1, <2>3 DEF TypeOK, Files
<1>2. ErrorsCounted'
  <2>1. Failed("read")' = Failed("read") /\ Failed("parse")' = Failed("parse")
    BY DEF Failed, TypeOK
  <2> QED
    BY <2>1 DEF ErrorsCounted
<1>3. Fresh'
  BY DEF Fresh, TypeOK, Returned
<1>4. Older'
  BY DEF Older, Fresh, TypeOK, Files, Missing
<1>5. Ahead'
  BY DEF Ahead, Fresh, TypeOK, Own, Returned
<1> QED
  BY <1>1, <1>2, <1>3, <1>4, <1>5

\* As for the other total; the call returns.
LEMMA LoadParseErrorsInv ==
  ASSUME ScrapeInv, NEW s \in Scrapes, LoadParseErrors(s)
  PROVE  ScrapeInv'
<1> USE ScrapeAssumption DEF LoadParseErrors, Goto, Set, counters, ScrapeInv
<1>1. TypeOK'
  <2>1. result' \in [Scrapes -> [up : BOOLEAN, mtime : 0 .. rewrites + 1,
                                 err : {"none", "read", "parse"},
                                 readErrors : Nat, parseErrors : Nat]]
    BY ZenonT(30) DEF TypeOK, Files
  <2>2. Returned \subseteq Returned'
    BY DEF TypeOK, Returned
  <2>3. before' \in [Scrapes -> SUBSET Returned']
    BY <2>2 DEF TypeOK
  <2> QED
    BY <2>1, <2>3 DEF TypeOK, Files
<1>2. ErrorsCounted'
  <2>1. Failed("read")' = Failed("read") /\ Failed("parse")' = Failed("parse")
    BY DEF Failed, TypeOK
  <2> QED
    BY <2>1 DEF ErrorsCounted
<1>3. Fresh'
  BY DEF Fresh, TypeOK, Returned
<1>4. Older'
  BY DEF Older, Fresh, TypeOK, Files, Missing
<1>5. Ahead'
  BY DEF Ahead, Fresh, TypeOK, Own, Returned
<1> QED
  BY <1>1, <1>2, <1>3, <1>4, <1>5

\* A file that is written has a modification time of its own, later than all before.
LEMMA RewriteInv == ScrapeInv /\ Rewrite => ScrapeInv'
<1> SUFFICES ASSUME ScrapeInv, Rewrite PROVE ScrapeInv'
  OBVIOUS
<1> USE ScrapeAssumption DEF Rewrite, counters, ScrapeInv
<1>1. TypeOK'
  <2>1. rewrites \in Nat /\ rewrites' \in 0 .. MaxRewrites /\ rewrites' = rewrites + 1
    BY DEF TypeOK
  <2>2. file' \in Files'
    <3>1. CASE file' = Missing
      BY <3>1, <2>1 DEF Files, Missing
    <3>2. CASE file' \in {[exists |-> TRUE, mtime |-> rewrites + 2, good |-> g] : g \in BOOLEAN}
      <4>1. PICK g \in BOOLEAN :
              file' = [exists |-> TRUE, mtime |-> rewrites + 2, good |-> g]
        BY <3>2
      <4> QED
        BY <4>1, <2>1 DEF Files
    <3> QED
      BY <3>1, <3>2
  <2>3. Files \subseteq Files'
    BY <2>1 DEF TypeOK, Files, Missing
  <2>4. result' \in [Scrapes -> [up : BOOLEAN, mtime : 0 .. rewrites' + 1,
                                 err : {"none", "read", "parse"},
                                 readErrors : Nat, parseErrors : Nat]]
    BY <2>1 DEF TypeOK
  <2> QED
    BY <2>1, <2>2, <2>3, <2>4 DEF TypeOK, Returned
<1>2. ErrorsCounted'
  BY DEF ErrorsCounted, Failed
<1>3. Fresh'
  BY DEF Fresh
<1>4. Older'
  BY DEF Older, TypeOK, Missing
<1>5. Ahead'
  BY DEF Ahead, Own
<1> QED
  BY <1>1, <1>2, <1>3, <1>4, <1>5

\* The invariant holds in all states.
THEOREM Invariance == Spec => []ScrapeInv
<1>1. ScrapeInv /\ [Next]_vars => ScrapeInv'
  <2> SUFFICES ASSUME ScrapeInv, [Next]_vars PROVE ScrapeInv'
    OBVIOUS
  <2>1. CASE \E s \in Scrapes : Step(s)
    BY <2>1, StatFileInv, ReadFileInv, ReadFailsInv, ParseOKInv, ParseFailsInv,
       LoadReadErrorsInv, LoadParseErrorsInv DEF Step
  <2>2. CASE Rewrite
    BY <2>2, RewriteInv
  <2>3. CASE AllReturned \/ UNCHANGED vars
    <3> USE <2>3 DEF AllReturned, vars, counters, ScrapeInv
    <3>1. TypeOK'
      BY DEF TypeOK, Files, Returned
    <3>2. ErrorsCounted' /\ Fresh' /\ Older' /\ Ahead'
      BY DEF ErrorsCounted, Failed, Fresh, Older, Ahead, Own
    <3> QED
      BY <3>1, <3>2
  <2> QED
    BY <2>1, <2>2, <2>3 DEF Next
<1> QED
  BY InitInv, <1>1, PTL DEF Spec

\* However often the file is replaced while calls stat and read it, no result makes its
\* data look newer than it is.
THEOREM NeverNewer == Spec => []MTimeNotNewer
<1>1. ScrapeInv => MTimeNotNewer
  BY DEF ScrapeInv, Older, MTimeNotNewer, Returned
<1> QED
  BY <1>1, Invariance, PTL

\* Whatever fails meanwhile, the totals of a result are at least those of every call
\* that had returned before it began, and count its own failure.
THEOREM TotalsAdvance == Spec => []ErrorsAdvance
<1>1. ScrapeInv => ErrorsAdvance
  BY DEF ScrapeInv, TypeOK, Ahead, ErrorsAdvance, Returned, Own
<1> QED
  BY <1>1, Invariance, PTL

=============================================================================
