------------------------------- MODULE Routes -------------------------------
(***************************************************************************)
(* The routes of an exporter: which telemetry paths                        *)
(* exporter/internal/app/telemetry_path.go accepts, the patterns that      *)
(* handler.go then registers with a ServeMux, and what the mux answers.    *)
(*                                                                         *)
(* A path is a sequence of segments, with or without a trailing slash.  A  *)
(* segment is a name, spelled plainly or with a percent escape: validation *)
(* compares paths as they are spelled, the mux compares names.             *)
(***************************************************************************)
EXTENDS Naturals, SequencesExt

CONSTANTS
  Segments,     \* [name, escaped]; "." and ".." are what they are in a URL
  Unset,        \* the setting "" of Options or HandlerOptions
  Empty,        \* the setting "" of --web.telemetry-path
  Malformed,    \* any setting that is not a literal URL path
  MaxSegments   \* bound on the length of a path

ASSUME RoutesAssumption ==
  /\ Segments \subseteq [name : STRING, escaped : BOOLEAN]
  /\ Unset \notin {Empty, Malformed}
  /\ MaxSegments \in Nat

Root == [segments |-> <<>>, slash |-> TRUE]
Paths == {p \in [segments : SeqOf(Segments, MaxSegments), slash : BOOLEAN] :
            p.segments = <<>> => p.slash}

PlainlySpelled(p) == \A i \in DOMAIN p.segments : ~p.segments[i].escaped
PlainPaths == {p \in Paths : PlainlySpelled(p)}

Plain(names, slash) ==
  [segments |-> [i \in DOMAIN names |-> [name |-> names[i], escaped |-> FALSE]],
   slash    |-> slash]

DefaultPath == Plain(<<"metrics">>, FALSE)

\* What --web.telemetry-path or MetricsPath may say.
Settings == Paths \cup {Unset, Empty, Malformed}

VARIABLES
  setting,
  pprof,      \* EnablePprof
  pc,
  telemetry,  \* the metrics path that newHandler gets
  mux,        \* the patterns registered so far
  request,
  response

vars == <<setting, pprof, pc, telemetry, mux, request, response>>

Init ==
  /\ setting \in Settings
  /\ pprof \in BOOLEAN
  /\ pc = "validate"
  /\ telemetry = DefaultPath
  /\ mux = {}
  /\ request = Root
  /\ response = "none"

-----------------------------------------------------------------------------
(* Validation *)

\* Options and HandlerOptions replace an empty path, the flag does not.
Normalized == IF setting = Unset THEN DefaultPath ELSE setting

\* As spelled, p is /a/b/... itself or lies below it.
Under(p, names) == IsPrefix(Plain(names, FALSE).segments, p.segments)

\* validateMetricsPath.
Acceptable(p) ==
  /\ p \notin {Empty, Malformed}
  /\ ~Under(p, <<"healthz">>)
  /\ ~Under(p, <<"debug", "pprof">>)

Reject ==
  /\ pc = "validate"
  /\ ~Acceptable(Normalized)
  /\ pc' = "rejected"
  /\ UNCHANGED <<setting, pprof, telemetry, mux, request, response>>

Accept ==
  /\ pc = "validate"
  /\ Acceptable(Normalized)
  /\ telemetry' = Normalized
  /\ pc' = "newHandler"
  /\ UNCHANGED <<setting, pprof, mux, request, response>>

-----------------------------------------------------------------------------
(* The mux *)

NamesOf(p) == [i \in DOMAIN p.segments |-> p.segments[i].name]

\* ServeMux unescapes the segments of a pattern; a trailing slash makes it match
\* everything below.
Pattern(p, handler) == [names |-> NamesOf(p), slash |-> p.slash, handler |-> handler]

\* Variant: a disabled profiler has no route of its own.
PprofPatternsIfEnabled ==
  IF pprof THEN {Pattern(Plain(<<"debug", "pprof">>, TRUE), "pprof")} ELSE {}

\* registerPprofHandlers: the profiles, of which heap stands for all, are below.
PprofPatterns ==
  IF pprof
  THEN {Pattern(Plain(<<"debug", "pprof">>, TRUE), "pprof"),
        Pattern(Plain(<<"debug", "pprof", "heap">>, FALSE), "pprof")}
  ELSE {Pattern(Plain(<<"debug", "pprof">>, TRUE), "notFound")}

LandingPatterns == IF telemetry = Root THEN {} ELSE {Pattern(Root, "landing")}

BuiltinPatterns ==
  {Pattern(Plain(<<"healthz">>, FALSE), "health")} \cup PprofPatterns \cup LandingPatterns

\* Handle panics on a pattern that matches the same requests as an earlier one.
Conflict ==
  \E b \in BuiltinPatterns : b.names = NamesOf(telemetry) /\ b.slash = telemetry.slash

NewHandlerPanics ==
  /\ pc = "newHandler"
  /\ Conflict
  /\ pc' = "panicked"
  /\ UNCHANGED <<setting, pprof, telemetry, mux, request, response>>

\* Variant: a trailing slash of the telemetry path is lost.
NewHandlerTrimming ==
  /\ pc = "newHandler"
  /\ ~Conflict
  /\ mux' = {Pattern([telemetry EXCEPT !.slash = telemetry = Root], "metrics")} \cup BuiltinPatterns
  /\ pc' = "serving"
  /\ UNCHANGED <<setting, pprof, telemetry, request, response>>

NewHandler ==
  /\ pc = "newHandler"
  /\ ~Conflict
  /\ mux' = {Pattern(telemetry, "metrics")} \cup BuiltinPatterns
  /\ pc' = "serving"
  /\ UNCHANGED <<setting, pprof, telemetry, request, response>>

-----------------------------------------------------------------------------
(* Requests *)

Dot(s) == ~s.escaped /\ s.name \in {".", ".."}

\* The mux removes dot segments from the path as spelled, and redirects there.
Clean(p) ==
  LET Step(done, s) ==
        IF ~Dot(s) THEN Append(done, s)
        ELSE IF s.name = ".." /\ done # <<>> THEN Front(done) ELSE done
      rest == FoldLeft(Step, <<>>, p.segments)
  IN IF \E i \in DOMAIN p.segments : Dot(p.segments[i])
     THEN [segments |-> rest, slash |-> p.slash \/ rest = <<>>]
     ELSE p

Matches(pat, p) ==
  IF pat.slash
  THEN IsPrefix(pat.names, NamesOf(p)) /\ (p.slash \/ pat.names # NamesOf(p))
  ELSE pat.names = NamesOf(p) /\ ~p.slash

\* The most specific pattern that matches; the root matches everything.
Best(p) ==
  CHOOSE pat \in mux : /\ Matches(pat, p)
                       /\ \A other \in mux : Matches(other, p) => Len(other.names) <= Len(pat.names)

Exact(pat, p) == pat.names = NamesOf(p) /\ pat.slash = p.slash

\* The landing page is shown at the root only.
Response(p) ==
  LET clean     == Clean(p)
      withSlash == [clean EXCEPT !.slash = TRUE]
      best      == Best(clean)
  IN IF clean # p \/ (~Exact(best, clean) /\ \E pat \in mux : Exact(pat, withSlash)) THEN "redirect"
     ELSE IF best.handler = "landing" /\ p # Root THEN "notFound"
     ELSE best.handler

\* Requests for any path, plainly spelled, and for the path as configured.
Get(p) ==
  /\ pc = "serving"
  /\ request' = p
  /\ response' = Response(p)
  /\ pc' = "answered"
  /\ UNCHANGED <<setting, pprof, telemetry, mux>>

Ended ==
  /\ pc \in {"rejected", "panicked", "answered"}
  /\ UNCHANGED vars

Next ==
  \/ Reject \/ Accept
  \/ NewHandlerPanics \/ NewHandler
  \/ \E p \in PlainPaths \cup {telemetry} : Get(p)
  \/ Ended

Spec == Init /\ [][Next]_vars

-----------------------------------------------------------------------------
(* Properties *)

TypeOK ==
  /\ setting \in Settings
  /\ pprof \in BOOLEAN
  /\ pc \in {"validate", "rejected", "newHandler", "panicked", "serving", "answered"}
  /\ telemetry \in Paths \cup {DefaultPath}
  /\ \A pat \in mux : pat.handler \in {"metrics", "health", "pprof", "notFound", "landing"}
  /\ request \in Paths \cup {DefaultPath}
  /\ response \in {"none", "redirect", "metrics", "health", "pprof", "notFound", "landing"}

\* "/healthz and /debug/pprof/* are reserved for built-in handlers and cannot be
\* used as telemetry paths": a path that is accepted does not lie there for the mux.
ReservedRefused ==
  pc \in {"newHandler", "panicked", "serving", "answered"} =>
    /\ ~IsPrefix(<<"healthz">>, NamesOf(telemetry))
    /\ ~IsPrefix(<<"debug", "pprof">>, NamesOf(telemetry))

\* "The configured telemetry path exposes the registry": a request for the path
\* as configured is answered with metrics, whatever else is routed, unless the mux
\* cleans dot segments out of it.
MetricsServed ==
  pc = "answered" /\ request = telemetry /\ Clean(telemetry) = telemetry =>
    response = "metrics"

\* A plainly spelled telemetry path leaves the built-in handlers alone: it neither
\* makes the mux panic, from which NewHandlerChecked is to protect its callers, nor
\* does it, the root included, answer in their place, also while profiling is off.
ReservedKept ==
  PlainlySpelled(telemetry) =>
    /\ pc # "panicked"
    /\ pc = "answered" =>
         /\ NamesOf(request) = <<"healthz">> /\ ~request.slash => response = "health"
         /\ IsPrefix(<<"debug", "pprof">>, NamesOf(request)) =>
              response \in {"redirect", IF pprof THEN "pprof" ELSE "notFound"}

\* What every state of the routes has, whatever is asked for.
RoutesInv == TypeOK /\ ReservedKept

=============================================================================
