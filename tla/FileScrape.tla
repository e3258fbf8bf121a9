------------------------------ MODULE FileScrape ------------------------------
(***************************************************************************)
(* FileScraper.Scrape of exporter/internal/files/file_scrape.go: one       *)
(* scraper, with its two cumulative counters, used by several goroutines   *)
(* on a file that is rewritten, removed and restored meanwhile.  A system  *)
(* call and an atomic counter operation are one step each.                 *)
(***************************************************************************)
EXTENDS Naturals, FiniteSets

CONSTANTS
  Scrapes,     \* calls of Scrape
  MaxRewrites  \* bound on the changes of the file

ASSUME ScrapeAssumption == MaxRewrites \in Nat /\ IsFiniteSet(Scrapes)

VARIABLES
  file,     \* [exists, mtime, good]: whether its content parses
  rewrites,
  readErrors, parseErrors,  \* the scraper's counters
  pc,
  content,  \* the file as the call read it, with the time it was written
  result,
  before    \* history: the calls that had returned when a call began

counters == <<readErrors, parseErrors>>
vars     == <<file, rewrites, counters, pc, content, result, before>>

Missing == [exists |-> FALSE, mtime |-> 0, good |-> FALSE]

Init ==
  /\ file \in [exists : {TRUE}, mtime : {1}, good : BOOLEAN] \cup {Missing}
  /\ rewrites = 0
  /\ readErrors = 0 /\ parseErrors = 0
  /\ pc = [s \in Scrapes |-> "start"]
  /\ content = [s \in Scrapes |-> Missing]
  /\ result = [s \in Scrapes |->
       [up |-> FALSE, mtime |-> 0, err |-> "none", readErrors |-> 0, parseErrors |-> 0]]
  /\ before = [s \in Scrapes |-> {}]

Returned == {s \in Scrapes : pc[s] = "returned"}
Goto(s, label) == pc' = [pc EXCEPT ![s] = label]
Set(s, field, x) == result' = [result EXCEPT ![s][field] = x]

-----------------------------------------------------------------------------
\* os.Stat: a file that cannot be statted has the modification time 0.
StatFile(s) ==
  /\ pc[s] = "start"
  /\ Set(s, "mtime", file.mtime)
  /\ before' = [before EXCEPT ![s] = Returned]
  /\ Goto(s, "read")
  /\ UNCHANGED <<file, rewrites, counters, content>>

\* os.ReadFile, which may fail on a file that is there.
ReadFile(s) ==
  /\ pc[s] = "read"
  /\ file.exists
  /\ content' = [content EXCEPT ![s] = file]
  /\ Set(s, "up", TRUE)
  /\ Goto(s, "parse")
  /\ UNCHANGED <<file, rewrites, counters, before>>

\* Variant: the caller counts the error that Scrape has counted.
ReadFailsTwice(s) ==
  /\ pc[s] = "read"
  /\ readErrors' = readErrors + 2
  /\ Set(s, "err", "read")
  /\ Goto(s, "load")
  /\ UNCHANGED <<file, rewrites, parseErrors, content, before>>

\* Variant: a file that is not there is no read error.
ReadFailsIfThere(s) ==
  /\ pc[s] = "read"
  /\ readErrors' = IF file.exists THEN readErrors + 1 ELSE readErrors
  /\ Set(s, "err", "read")
  /\ Goto(s, "load")
  /\ UNCHANGED <<file, rewrites, parseErrors, content, before>>

ReadFails(s) ==
  /\ pc[s] = "read"
  /\ readErrors' = readErrors + 1
  /\ Set(s, "err", "read")
  /\ Goto(s, "load")
  /\ UNCHANGED <<file, rewrites, parseErrors, content, before>>

ParseOK(s) ==
  /\ pc[s] = "parse"
  /\ content[s].good
  /\ Goto(s, "load")
  /\ UNCHANGED <<file, rewrites, counters, content, result, before>>

ParseFails(s) ==
  /\ pc[s] = "parse"
  /\ ~content[s].good
  /\ parseErrors' = parseErrors + 1
  /\ Set(s, "err", "parse")
  /\ Goto(s, "load")
  /\ UNCHANGED <<file, rewrites, readErrors, content, before>>

\* Variant: the modification time is taken at the end, with the counters.
LoadStatting(s) ==
  /\ pc[s] = "load"
  /\ result' = [result EXCEPT ![s].readErrors = readErrors, ![s].mtime = file.mtime]
  /\ Goto(s, "loadParse")
  /\ UNCHANGED <<file, rewrites, counters, content, before>>

\* The deferred function: the counters are loaded one after the other.
LoadReadErrors(s) ==
  /\ pc[s] = "load"
  /\ Set(s, "readErrors", readErrors)
  /\ Goto(s, "loadParse")
  /\ UNCHANGED <<file, rewrites, counters, content, before>>

LoadParseErrors(s) ==
  /\ pc[s] = "loadParse"
  /\ Set(s, "parseErrors", parseErrors)
  /\ Goto(s, "returned")
  /\ UNCHANGED <<file, rewrites, counters, content, before>>

-----------------------------------------------------------------------------
\* Somebody writes the file, or moves a newer one over it, or removes it.
Rewrite ==
  /\ rewrites < MaxRewrites
  /\ rewrites' = rewrites + 1
  /\ file' \in {[exists |-> TRUE, mtime |-> rewrites + 2, good |-> g] : g \in BOOLEAN}
               \cup {Missing}
  /\ file' # file
  /\ UNCHANGED <<counters, pc, content, result, before>>

AllReturned ==
  /\ \A s \in Scrapes : pc[s] = "returned"
  /\ UNCHANGED vars

Step(s) ==
  \/ StatFile(s) \/ ReadFile(s) \/ ReadFails(s) \/ ParseOK(s) \/ ParseFails(s)
  \/ LoadReadErrors(s) \/ LoadParseErrors(s)

Next == (\E s \in Scrapes : Step(s)) \/ Rewrite \/ AllReturned

Spec == Init /\ [][Next]_vars

-----------------------------------------------------------------------------
(* Properties *)

Files == [exists : BOOLEAN, mtime : 0 .. rewrites + 1, good : BOOLEAN]
Failed(err) == {s \in Scrapes : result[s].err = err}
Own(s, err) == IF result[s].err = err THEN 1 ELSE 0

TypeOK ==
  /\ rewrites \in 0 .. MaxRewrites
  /\ file \in Files
  /\ readErrors \in Nat /\ parseErrors \in Nat
  /\ pc \in [Scrapes -> {"start", "read", "parse", "load", "loadParse", "returned"}]
  /\ content \in [Scrapes -> Files]
  /\ result \in [Scrapes -> [up : BOOLEAN, mtime : 0 .. rewrites + 1,
                             err : {"none", "read", "parse"},
                             readErrors : Nat, parseErrors : Nat]]
  /\ before \in [Scrapes -> SUBSET Returned]

\* The counters of a scraper tell how many of its calls failed, and why: every failure
\* is counted once, by the call it ends.
ErrorsCounted ==
  /\ readErrors = Cardinality(Failed("read"))
  /\ parseErrors = Cardinality(Failed("parse"))

\* The modification time of a result is never later than that of the content it
\* was parsed from: a file replaced during a scrape makes the data look older than
\* it is, never newer.
MTimeNotNewer ==
  \A s \in Returned : result[s].up => result[s].mtime <= content[s].mtime

\* The totals of a result are at least those of every scrape that had returned
\* before it began, and more by its own failure, whoever else fails meanwhile.
ErrorsAdvance ==
  \A t \in Returned : \A s \in before[t] :
    /\ result[t].readErrors >= result[s].readErrors + Own(t, "read")
    /\ result[t].parseErrors >= result[s].parseErrors + Own(t, "parse")

-----------------------------------------------------------------------------
(* Why they hold *)

\* Nothing has happened yet to a call that has not read or parsed.
Fresh ==
  \A s \in Scrapes :
    /\ pc[s] = "start" => before[s] = {}
    /\ pc[s] \in {"start", "read"} => ~result[s].up
    /\ pc[s] \in {"start", "read", "parse"} => result[s].err = "none"

\* Between the stat and the read the file is only replaced by newer ones.
Older ==
  \A s \in Scrapes :
    /\ pc[s] = "read" /\ file.exists => result[s].mtime <= file.mtime
    /\ result[s].up => result[s].mtime <= content[s].mtime

\* The counters are ahead of every total that was loaded, by the failures since.
Ahead ==
  \A s \in Scrapes :
    /\ result[s].readErrors <= readErrors /\ result[s].parseErrors <= parseErrors
    /\ \A t \in Scrapes : s \in before[t] =>
         /\ result[s].readErrors + Own(t, "read") <= readErrors
         /\ result[s].parseErrors + Own(t, "parse") <= parseErrors
         /\ pc[t] \in {"loadParse", "returned"} =>
              result[s].readErrors + Own(t, "read") <= result[t].readErrors
         /\ pc[t] = "returned" =>
              result[s].parseErrors + Own(t, "parse") <= result[t].parseErrors

ScrapeInv == TypeOK /\ ErrorsCounted /\ Fresh /\ Older /\ Ahead

=============================================================================
