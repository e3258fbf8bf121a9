-------------------------- MODULE SnapshotRegister --------------------------
(***************************************************************************)
(* What a SnapshotCollector promises its callers, without its mutex, its   *)
(* waiting and its loop: an atomic register of collection outcomes.        *)
(*                                                                         *)
(* Outcomes are published one after the other and numbered.  A scrape is   *)
(* answered, at one instant of its stay, with the register of that         *)
(* instant: either the outcome it has just published itself, or an outcome *)
(* published before, provided the background loop is live or the outcome   *)
(* was younger than RefreshInterval at some time since the scrape arrived. *)
(***************************************************************************)
EXTENDS Integers

CONSTANTS
  Scrapes,          \* the Collect calls
  Publishers,       \* who may collect: the scrapes and the loops
  Nobody,           \* who published the empty register
  RefreshInterval,
  MaxTime

VARIABLES
  clock,
  live,      \* a background loop is running
  register,  \* the outcome last published
  asked,     \* when each scrape arrived; 0 outside its stay
  phase,     \* "idle", "asked", "answered" or "done"
  answer     \* the outcome a scrape was answered with

vars == <<clock, live, register, asked, phase, answer>>

Empty == [version |-> 0, by |-> Nobody, success |-> FALSE, attempt |-> 0,
          lastSuccessful |-> 0]

\* The register after p publishes an outcome with this flag and attempt time.
Published(p, success, attempt) ==
  [version        |-> register.version + 1,
   by             |-> p,
   success        |-> success,
   attempt        |-> attempt,
   lastSuccessful |-> IF success THEN attempt ELSE register.lastSuccessful]

Init ==
  /\ clock = 1
  /\ live = FALSE
  /\ register = Empty
  /\ asked = [s \in Scrapes |-> 0]
  /\ phase = [s \in Scrapes |-> "idle"]
  /\ answer = [s \in Scrapes |-> Empty]

Ask(s) ==
  /\ phase[s] = "idle"
  /\ phase' = [phase EXCEPT ![s] = "asked"]
  /\ asked' = [asked EXCEPT ![s] = clock]
  /\ UNCHANGED <<clock, live, register, answer>>

Publish(p) ==
  /\ \E success \in BOOLEAN, attempt \in 1 .. clock :
       register' = Published(p, success, attempt)
  /\ UNCHANGED <<clock, live, asked, phase, answer>>

Answer(s) ==
  /\ phase[s] = "asked"
  /\ register.version > 0
  /\ \/ live
     \/ \E t \in asked[s] .. clock : t - register.attempt < RefreshInterval
  /\ phase' = [phase EXCEPT ![s] = "answered"]
  /\ answer' = [answer EXCEPT ![s] = register]
  /\ UNCHANGED <<clock, live, register, asked>>

PublishAndAnswer(s) ==
  /\ phase[s] = "asked"
  /\ \E success \in BOOLEAN, attempt \in 1 .. clock :
       register' = Published(s, success, attempt)
  /\ phase' = [phase EXCEPT ![s] = "answered"]
  /\ answer' = [answer EXCEPT ![s] = register']
  /\ UNCHANGED <<clock, live, asked>>

Leave(s) ==
  /\ phase[s] = "answered"
  /\ phase' = [phase EXCEPT ![s] = "done"]
  /\ asked' = [asked EXCEPT ![s] = 0]
  /\ answer' = [answer EXCEPT ![s] = Empty]
  /\ UNCHANGED <<clock, live, register>>

Toggle ==
  /\ live' = ~live
  /\ UNCHANGED <<clock, register, asked, phase, answer>>

Tick ==
  /\ clock < MaxTime
  /\ clock' = clock + 1
  /\ UNCHANGED <<live, register, asked, phase, answer>>

Next ==
  \/ \E s \in Scrapes : Ask(s) \/ Answer(s) \/ PublishAndAnswer(s) \/ Leave(s)
  \/ \E p \in Publishers \ Scrapes : Publish(p)
  \/ Toggle
  \/ Tick

Spec == Init /\ [][Next]_vars

=============================================================================
