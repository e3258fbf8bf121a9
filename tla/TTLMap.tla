------------------------------- MODULE TTLMap -------------------------------
(***************************************************************************)
(* What TTLCache promises: a map from keys to values whose entries vanish  *)
(* by themselves when their time is over, and lookups that are answered at *)
(* one instant.  No entry vanishes before its time except by a Delete, a   *)
(* Clear or a Set, and these are counted when they happen.                 *)
(***************************************************************************)
EXTENDS Naturals

CONSTANTS Keys, Values, Callers, Absent, MaxTime, MaxTTL

VARIABLES
  clock,
  entries,  \* [value, expiresAt] of each key, or Absent
  puts, removals, clears,  \* calls that changed something
  answer    \* what a caller's lookup found: <<>> or <<an entry or Absent>>

counts == <<puts, removals, clears>>
vars == <<clock, entries, counts, answer>>

Init ==
  /\ clock = 1
  /\ entries = [k \in Keys |-> Absent]
  /\ puts = 0 /\ removals = 0 /\ clears = 0
  /\ answer = [c \in Callers |-> <<>>]

Put(k) ==
  /\ \E v \in Values, t \in clock + 1 .. clock + MaxTTL :
       entries' = [entries EXCEPT ![k] = [value |-> v, expiresAt |-> t]]
  /\ puts' = puts + 1
  /\ UNCHANGED <<clock, removals, clears, answer>>

Remove(k) ==
  /\ entries' = [entries EXCEPT ![k] = Absent]
  /\ removals' = removals + 1
  /\ UNCHANGED <<clock, puts, clears, answer>>

RemoveAll ==
  /\ entries' = [k \in Keys |-> Absent]
  /\ clears' = clears + 1
  /\ UNCHANGED <<clock, puts, removals, answer>>

Lookup(c, k) ==
  /\ answer[c] = <<>>
  /\ answer' = [answer EXCEPT ![c] = <<entries[k]>>]
  /\ UNCHANGED <<clock, entries, counts>>

Reply(c) ==
  /\ answer[c] # <<>>
  /\ answer' = [answer EXCEPT ![c] = <<>>]
  /\ UNCHANGED <<clock, entries, counts>>

Tick ==
  /\ clock < MaxTime
  /\ clock' = clock + 1
  /\ entries' = [k \in Keys |->
       IF entries[k] # Absent /\ entries[k].expiresAt > clock' THEN entries[k] ELSE Absent]
  /\ UNCHANGED <<counts, answer>>

Next ==
  \/ \E k \in Keys : Put(k) \/ Remove(k)
  \/ RemoveAll
  \/ \E c \in Callers : Reply(c) \/ \E k \in Keys : Lookup(c, k)
  \/ Tick

Spec == Init /\ [][Next]_vars

=============================================================================
