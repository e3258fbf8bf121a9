------------------------------ MODULE Smoketest ------------------------------
(***************************************************************************)
(* The server part of the binary smoke test,                               *)
(* exporter/exportertest/smoketest/smoketest.go: the test starts the       *)
(* binary on a port that was free a moment ago, tries again if it exits    *)
(* at once, polls it over HTTP, and cleans up.  A goroutine waits for each *)
(* server and passes its exit on through waitCh, a channel with room for   *)
(* one value that is closed afterwards.                                    *)
(***************************************************************************)
EXTENDS Naturals

CONSTANT Attempts  \* serverStartAttempts

ASSUME SmokeAssumption == Attempts \in Nat \ {0}

Tries == 1 .. Attempts

VARIABLES
  attempt,
  pc,         \* where the test is
  verdict,    \* "none", "pass", "fail" or "exhausted"
  cleanup,    \* whether t.Cleanup knows of the server of the current attempt
  late,       \* whether the deadline of the current wait has passed
  lost,       \* whether somebody else has the port
  server,     \* of each attempt: "none", "starting", "serving" or "exited"
  cancelled,  \* whether its context is cancelled
  waiter,     \* its goroutine: "none", "waiting", "sent" or "closed"
  exit        \* whether waitCh holds a value

test == <<attempt, pc, verdict, cleanup, late>>
vars == <<test, lost, server, cancelled, waiter, exit>>

Init ==
  /\ attempt = 1
  /\ pc = "start"
  /\ verdict = "none"
  /\ cleanup = FALSE
  /\ late = FALSE
  /\ lost = FALSE
  /\ server = [n \in Tries |-> "none"]
  /\ cancelled = [n \in Tries |-> FALSE]
  /\ waiter = [n \in Tries |-> "none"]
  /\ exit = [n \in Tries |-> FALSE]

Alive(n) == server[n] \in {"starting", "serving"}

\* <-waitCh goes on at a value, and for ever after the close.
CanReceive == exit[attempt] \/ waiter[attempt] = "closed"
Receive == exit' = [exit EXCEPT ![attempt] = FALSE]

\* t.Fatal and the end of the test both lead to the cleanup.
Finish(v) == verdict' = v /\ pc' = "cleanup"

-----------------------------------------------------------------------------
(* Starting *)

StartServer ==
  /\ pc = "start"
  /\ server' = [server EXCEPT ![attempt] = "starting"]
  /\ waiter' = [waiter EXCEPT ![attempt] = "waiting"]
  /\ lost' = FALSE
  /\ pc' = "window"
  /\ UNCHANGED <<attempt, verdict, cleanup, late, cancelled, exit>>

StartFails ==
  /\ pc = "start"
  /\ Finish("fail")
  /\ cancelled' = [cancelled EXCEPT ![attempt] = TRUE]
  /\ UNCHANGED <<attempt, cleanup, late, lost, server, waiter, exit>>

\* The server exits in the first 50 ms.
ExitInWindow ==
  /\ pc = "window"
  /\ CanReceive
  /\ Receive
  /\ cancelled' = [cancelled EXCEPT ![attempt] = TRUE]
  /\ IF attempt < Attempts
     THEN attempt' = attempt + 1 /\ pc' = "start" /\ UNCHANGED verdict
     ELSE Finish("exhausted") /\ UNCHANGED attempt
  /\ UNCHANGED <<cleanup, late, lost, server, waiter>>

\* Variant: the cleanup is not registered before the server has proved healthy.
WindowEndsUnregistered ==
  /\ pc = "window"
  /\ late' = FALSE
  /\ pc' = "health"
  /\ UNCHANGED <<attempt, verdict, cleanup, lost, server, cancelled, waiter, exit>>

\* The window is over, and select may choose so although the server has exited.
WindowEnds ==
  /\ pc = "window"
  /\ cleanup' = TRUE
  /\ late' = FALSE
  /\ pc' = "health"
  /\ UNCHANGED <<attempt, verdict, lost, server, cancelled, waiter, exit>>

-----------------------------------------------------------------------------
(* Polling *)

\* waitForHealth and waitForMetrics give up at the deadline, ...
TimesOut ==
  /\ pc \in {"health", "metrics"}
  /\ late
  /\ Finish("fail")
  /\ UNCHANGED <<attempt, cleanup, late, lost, server, cancelled, waiter, exit>>

\* ... or when failIfExited finds that the server is gone, ...
FailIfExited ==
  /\ pc \in {"health", "metrics"}
  /\ ~late
  /\ CanReceive
  /\ Receive
  /\ Finish("fail")
  /\ UNCHANGED <<attempt, cleanup, late, lost, server, cancelled, waiter>>

\* ... and ask otherwise.
Ask ==
  /\ pc \in {"health", "metrics"}
  /\ ~late
  /\ ~CanReceive
  /\ pc' = IF pc = "health" THEN "getHealth" ELSE "getMetrics"
  /\ UNCHANGED <<attempt, verdict, cleanup, late, lost, server, cancelled, waiter, exit>>

\* Somebody answers on the port: our server, or whoever took the port.
Answered == server[attempt] = "serving" \/ lost

HealthUp ==
  /\ pc = "getHealth"
  /\ Answered
  /\ pc' = "checkHealth"
  /\ UNCHANGED <<attempt, verdict, cleanup, late, lost, server, cancelled, waiter, exit>>

HealthNotYet ==
  /\ pc = "getHealth"
  /\ pc' = "health"
  /\ UNCHANGED <<attempt, verdict, cleanup, late, lost, server, cancelled, waiter, exit>>

\* The body of a second answer is compared.
HealthOK ==
  /\ pc = "checkHealth"
  /\ Answered
  /\ late' = FALSE
  /\ pc' = "metrics"
  /\ UNCHANGED <<attempt, verdict, cleanup, lost, server, cancelled, waiter, exit>>

\* httpGet fails the test when a request fails, or its answer is not as wanted.
GetFails ==
  /\ pc \in {"checkHealth", "getMetrics"}
  /\ Finish("fail")
  /\ UNCHANGED <<attempt, cleanup, late, lost, server, cancelled, waiter, exit>>

MetricsNotYet ==
  /\ pc = "getMetrics"
  /\ Answered
  /\ pc' = "metrics"
  /\ UNCHANGED <<attempt, verdict, cleanup, late, lost, server, cancelled, waiter, exit>>

\* All the wanted metrics are there; a rejected one fails the test still.
MetricsComplete ==
  /\ pc = "getMetrics"
  /\ Answered
  /\ \E v \in {"pass", "fail"} : Finish(v)
  /\ UNCHANGED <<attempt, cleanup, late, lost, server, cancelled, waiter, exit>>

-----------------------------------------------------------------------------
(* Cleaning up *)

NothingToClean ==
  /\ pc = "cleanup"
  /\ ~cleanup
  /\ pc' = "done"
  /\ UNCHANGED <<attempt, verdict, cleanup, late, lost, server, cancelled, waiter, exit>>

\* Cancelling the context kills the server.
CancelServer ==
  /\ pc = "cleanup"
  /\ cleanup
  /\ cancelled' = [cancelled EXCEPT ![attempt] = TRUE]
  /\ pc' = "await"
  /\ UNCHANGED <<attempt, verdict, cleanup, late, lost, server, waiter, exit>>

\* After five seconds Kill is tried as well, and the exit awaited without a limit.
KillServer ==
  /\ pc = "await"
  /\ pc' = "awaitKilled"
  /\ UNCHANGED <<attempt, verdict, cleanup, late, lost, server, cancelled, waiter, exit>>

ServerGone ==
  /\ pc \in {"await", "awaitKilled"}
  /\ CanReceive
  /\ Receive
  /\ pc' = "done"
  /\ UNCHANGED <<attempt, verdict, cleanup, late, lost, server, cancelled, waiter>>

-----------------------------------------------------------------------------
(* The goroutines that wait *)

\* cmd.Wait returns, and the send does not block.
WaitReturns(n) ==
  /\ waiter[n] = "waiting"
  /\ server[n] = "exited"
  /\ exit' = [exit EXCEPT ![n] = TRUE]
  /\ waiter' = [waiter EXCEPT ![n] = "sent"]
  /\ UNCHANGED <<test, lost, server, cancelled>>

\* Variant: the channel is not closed.
LeaveOpen(n) == waiter[n] = "sent" /\ UNCHANGED vars

CloseChannel(n) ==
  /\ waiter[n] = "sent"
  /\ waiter' = [waiter EXCEPT ![n] = "closed"]
  /\ UNCHANGED <<test, lost, server, cancelled, exit>>

-----------------------------------------------------------------------------
(* Servers, the clock and other programs *)

Bind(n) ==
  /\ server[n] = "starting"
  /\ ~lost
  /\ server' = [server EXCEPT ![n] = "serving"]
  /\ UNCHANGED <<test, lost, cancelled, waiter, exit>>

\* The port is taken, a flag is wrong, or the server breaks down later.
ServerExits(n) ==
  /\ Alive(n)
  /\ server' = [server EXCEPT ![n] = "exited"]
  /\ UNCHANGED <<test, lost, cancelled, waiter, exit>>

Killed(n) == cancelled[n] /\ ServerExits(n)

\* Another program takes the port, which freeAddress has given back.
LosePort ==
  /\ pc \notin {"start", "done"}
  /\ ~lost
  /\ server[attempt] # "serving"
  /\ lost' = TRUE
  /\ UNCHANGED <<test, server, cancelled, waiter, exit>>

DeadlinePasses ==
  /\ pc \in {"health", "getHealth", "metrics", "getMetrics"}
  /\ ~late
  /\ late' = TRUE
  /\ UNCHANGED <<attempt, pc, verdict, cleanup, lost, server, cancelled, waiter, exit>>

Done == pc = "done" /\ UNCHANGED vars

-----------------------------------------------------------------------------
TestStep ==
  \/ StartServer \/ StartFails \/ ExitInWindow \/ WindowEnds
  \/ TimesOut \/ FailIfExited \/ Ask
  \/ HealthUp \/ HealthNotYet \/ HealthOK \/ GetFails \/ MetricsNotYet \/ MetricsComplete
  \/ NothingToClean \/ CancelServer \/ KillServer \/ ServerGone

WaiterStep(n) == WaitReturns(n) \/ CloseChannel(n)

Next ==
  \/ TestStep
  \/ \E n \in Tries : WaiterStep(n) \/ Bind(n) \/ ServerExits(n)
  \/ LosePort
  \/ DeadlinePasses
  \/ Done

Spec == Init /\ [][Next]_vars

-----------------------------------------------------------------------------
(* Properties *)

TypeOK ==
  /\ attempt \in Tries
  /\ pc \in {"start", "window", "health", "getHealth", "checkHealth", "metrics",
             "getMetrics", "cleanup", "await", "awaitKilled", "done"}
  /\ verdict \in {"none", "pass", "fail", "exhausted"}
  /\ cleanup \in BOOLEAN /\ late \in BOOLEAN /\ lost \in BOOLEAN
  /\ server \in [Tries -> {"none", "starting", "serving", "exited"}]
  /\ cancelled \in [Tries -> BOOLEAN]
  /\ waiter \in [Tries -> {"none", "waiting", "sent", "closed"}]
  /\ exit \in [Tries -> BOOLEAN]

\* However the test ends, by a verdict or by t.Fatal in the middle of a wait, no
\* server outlives it, and none is left for the system to reap.  Nor do attempts
\* overlap: a server is started only when the one before is gone.
NoOrphans ==
  /\ pc = "done" => \A n \in Tries : ~Alive(n) /\ waiter[n] # "waiting"
  /\ \A m, n \in Tries : Alive(m) /\ Alive(n) => m = n

=============================================================================
