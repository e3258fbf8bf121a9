---------------------------- MODULE FeatureConfig ----------------------------
(***************************************************************************)
(* The configuration of a featurekit feature: exporter/featurekit/         *)
(* {feature,extension}.go.  RuntimeConfig (the startup log) and            *)
(* RegisterCollectors both call prepareConfig, which resolves the          *)
(* configuration once, under configMu, and keeps it.  Where the            *)
(* configuration came from is kept apart, in the extension's               *)
(* configState under a mutex of its own.  The file may change at any time, *)
(* and an embedding program may make the calls from several goroutines.    *)
(*                                                                         *)
(* Flags are parsed before the first call.  What a concrete exporter's     *)
(* ResolveConfigFunc does is taken from the scaffold's: it loads the file  *)
(* with LoadFeatureConfigFile and lays it over the flags.                  *)
(***************************************************************************)
EXTENDS Naturals

CONSTANTS
  Callers,    \* calls of RuntimeConfig or RegisterCollectors
  Contents,   \* configurations that a file can hold
  Raw,        \* the configuration of the flags and defaults alone
  Valid,      \* the configurations that ValidateConfigFunc accepts
  None,       \* nobody, nothing
  MaxChanges  \* bound on the changes of the file

Configs == Contents \cup {Raw}
Bad     == {"unreadable", "malformed"}
Disk    == Contents \cup Bad \cup {"missing", "empty"}

\* What prepareConfig returns, and what a call does.
Preparations == [ok : BOOLEAN, config : Configs]
Outcomes == [ok : BOOLEAN, config : Configs, file : {None, "explicit", "default"},
             loaded : BOOLEAN]

ASSUME ConfigAssumption ==
  /\ Raw \notin Contents /\ Valid \subseteq Configs
  /\ Contents \cap (Bad \cup {"missing", "empty"}) = {}
  /\ None \notin Callers \cup Disk \cup {Raw} \cup Preparations \cup Outcomes
  /\ MaxChanges \in Nat

VARIABLES
  resolver,  \* "load", "path" (ConfigFileFunc alone) or "none"
  explicit,  \* whether --<feature>.config-file was given
  disk,      \* the file: "missing", "unreadable", "malformed", "empty" or its content
  changes,
  configMu,  \* who holds it, or None
  prepared, preparedConfig,                    \* Feature.configPrepared, preparedConfig
  stateFile, stateLoaded, statePrepared,       \* snapshotExtensionConfigState
  pc, operation,
  found,     \* what a caller read of the file
  config,    \* [ok, config] that prepareConfig returned to it
  outcome    \* what the call returned

world    == <<resolver, explicit>>
file     == <<disk, changes>>
feature  == <<configMu, prepared, preparedConfig>>
state    == <<stateFile, stateLoaded, statePrepared>>
call     == <<operation, found, config, outcome>>
vars     == <<world, file, feature, state, pc, call>>

Path == IF explicit THEN "explicit" ELSE "default"

Init ==
  /\ resolver \in {"load", "path", "none"}
  /\ explicit \in BOOLEAN
  /\ disk \in Disk
  /\ changes = 0
  /\ configMu = None
  /\ prepared = FALSE /\ preparedConfig = None
  /\ stateFile = None /\ stateLoaded = FALSE /\ statePrepared = FALSE
  /\ pc = [c \in Callers |-> "start"]
  /\ operation \in [Callers -> {"report", "register"}]
  /\ found = [c \in Callers |-> None]
  /\ config = [c \in Callers |-> None]
  /\ outcome = [c \in Callers |-> None]

Goto(c, label) == pc' = [pc EXCEPT ![c] = label]

\* prepareConfig returns to the caller.
Returns(c, ok, value) ==
  /\ config' = [config EXCEPT ![c] = [ok |-> ok, config |-> value]]
  /\ Goto(c, operation[c])

-----------------------------------------------------------------------------
(* LoadFeatureConfigFile *)

\* Variant: a file that is not there is never an error.
FailsUnlessMissing(found_) == found_ \in Bad

Fails(found_) == found_ \in Bad \/ (found_ = "missing" /\ explicit)

\* An empty file is a file, and leaves the configuration as it was.
Loaded(found_) == found_ # "missing"

\* Variant: whatever was found is the configuration.
MergedBlindly(found_) == found_

Merged(found_) == IF found_ \in Contents THEN found_ ELSE Raw

-----------------------------------------------------------------------------
(* prepareConfig *)

PrepareCached(c) ==
  /\ pc[c] = "start"
  /\ configMu = None
  /\ prepared
  /\ Returns(c, TRUE, preparedConfig)
  /\ UNCHANGED <<world, file, feature, state, operation, found, outcome>>

\* Without a PrepareConfigFunc the flags are the configuration.
PrepareNothing(c) ==
  /\ pc[c] = "start"
  /\ configMu = None
  /\ ~prepared
  /\ resolver = "none"
  /\ prepared' = TRUE
  /\ preparedConfig' = Raw
  /\ Returns(c, TRUE, Raw)
  /\ UNCHANGED <<world, file, configMu, state, operation, found, outcome>>

\* Variant: the configuration is resolved before the mutex is taken.
ResolveUnlocked(c) ==
  /\ pc[c] = "start"
  /\ configMu = None
  /\ ~prepared
  /\ resolver # "none"
  /\ found' = [found EXCEPT ![c] = IF resolver = "load" THEN disk ELSE None]
  /\ Goto(c, "resolved")
  /\ UNCHANGED <<world, file, feature, state, operation, config, outcome>>

\* The mutex is taken and the file read, when there is a resolver that reads it.
Resolve(c) ==
  /\ pc[c] = "start"
  /\ configMu = None
  /\ ~prepared
  /\ resolver # "none"
  /\ configMu' = c
  /\ found' = [found EXCEPT ![c] = IF resolver = "load" THEN disk ELSE None]
  /\ Goto(c, "resolved")
  /\ UNCHANGED <<world, file, prepared, preparedConfig, state, operation, config, outcome>>

\* Variant: the way out with an error forgets to unlock.
PrepareFailsHolding(c) ==
  /\ pc[c] = "resolved"
  /\ found[c] # None
  /\ Fails(found[c])
  /\ Returns(c, FALSE, Raw)
  /\ UNCHANGED <<world, file, feature, state, operation, found, outcome>>

\* A failure is not kept: the next call tries again.
PrepareFails(c) ==
  /\ pc[c] = "resolved"
  /\ found[c] # None
  /\ Fails(found[c])
  /\ configMu' = None
  /\ Returns(c, FALSE, Raw)
  /\ UNCHANGED <<world, file, prepared, preparedConfig, state, operation, found, outcome>>

\* The section of configState's mutex; with ConfigFileFunc alone nothing is loaded.
RecordState(c) ==
  /\ pc[c] = "resolved"
  /\ found[c] # None => ~Fails(found[c])
  /\ stateFile' = Path
  /\ stateLoaded' = (found[c] # None /\ Loaded(found[c]))
  /\ statePrepared' = TRUE
  /\ Goto(c, "recorded")
  /\ UNCHANGED <<world, file, feature, call>>

\* Variant: the configuration is not kept.
FinishUncached(c) ==
  /\ pc[c] = "recorded"
  /\ configMu' = None
  /\ Returns(c, TRUE, Merged(found[c]))
  /\ UNCHANGED <<world, file, prepared, preparedConfig, state, operation, found, outcome>>

FinishPrepare(c) ==
  /\ pc[c] = "recorded"
  /\ preparedConfig' = Merged(found[c])
  /\ prepared' = TRUE
  /\ configMu' = None
  /\ Returns(c, TRUE, Merged(found[c]))
  /\ UNCHANGED <<world, file, state, operation, found, outcome>>

-----------------------------------------------------------------------------
(* The rest of RuntimeConfig and of RegisterCollectors *)

\* configSnapshot, then the record of the startup log.  A configuration that could
\* not be prepared is reported as the flags have it, with its error.
Report(c) ==
  /\ pc[c] = "report"
  /\ outcome' = [outcome EXCEPT ![c] =
       [ok     |-> config[c].ok,
        config |-> config[c].config,
        file   |-> IF resolver = "none" THEN None
                   ELSE IF statePrepared THEN stateFile ELSE Path,
        loaded |-> stateLoaded]]
  /\ Goto(c, "returned")
  /\ UNCHANGED <<world, file, feature, state, operation, found, config>>

\* Variant: what was refused is forgotten, so that the next call reads the file again.
RefuseForgetting(c) ==
  /\ pc[c] = "register"
  /\ prepared' = FALSE /\ preparedConfig' = None
  /\ Goto(c, "returned")
  /\ UNCHANGED <<world, file, configMu, state, call>>

\* The configuration is refused, or the snapshotter cannot be built from it.
RegisterFails(c) ==
  /\ pc[c] = "register"
  /\ Goto(c, "returned")
  /\ UNCHANGED <<world, file, feature, state, call>>

\* A collector is built from the configuration, registered and started.
Register(c) ==
  /\ pc[c] = "register"
  /\ config[c].ok
  /\ config[c].config \in Valid
  /\ outcome' = [outcome EXCEPT ![c] =
       [ok |-> TRUE, config |-> config[c].config, file |-> None, loaded |-> FALSE]]
  /\ Goto(c, "returned")
  /\ UNCHANGED <<world, file, feature, state, operation, found, config>>

-----------------------------------------------------------------------------
\* Somebody edits, removes or replaces the file.
ChangeFile ==
  /\ changes < MaxChanges
  /\ disk' \in Disk \ {disk}
  /\ changes' = changes + 1
  /\ UNCHANGED <<world, feature, state, pc, call>>

AllReturned ==
  /\ \A c \in Callers : pc[c] = "returned"
  /\ UNCHANGED vars

Step(c) ==
  \/ PrepareCached(c) \/ PrepareNothing(c)
  \/ Resolve(c) \/ PrepareFails(c) \/ RecordState(c) \/ FinishPrepare(c)
  \/ Report(c)
  \/ RegisterFails(c) \/ Register(c)

Next == (\E c \in Callers : Step(c)) \/ ChangeFile \/ AllReturned

Spec == Init /\ [][Next]_vars

\* Every goroutine runs on when it can.
FairSpec == Spec /\ \A c \in Callers : WF_vars(Step(c))

-----------------------------------------------------------------------------
(* Properties *)

TypeOK ==
  /\ resolver \in {"load", "path", "none"}
  /\ explicit \in BOOLEAN
  /\ disk \in Disk
  /\ changes \in 0 .. MaxChanges
  /\ configMu \in Callers \cup {None}
  /\ prepared \in BOOLEAN
  /\ preparedConfig \in Configs \cup {None}
  /\ stateFile \in {None, "explicit", "default"}
  /\ stateLoaded \in BOOLEAN
  /\ statePrepared \in BOOLEAN
  /\ pc \in [Callers -> {"start", "resolved", "recorded", "report", "register", "returned"}]
  /\ operation \in [Callers -> {"report", "register"}]
  /\ found \in [Callers -> Disk \cup {None}]
  /\ config \in [Callers -> Preparations \cup {None}]
  /\ outcome \in [Callers -> Outcomes \cup {None}]

Succeeded(c) == outcome[c] # None /\ outcome[c].ok

\* Whatever happens to the file, the startup log and every collector of a feature
\* go by one configuration.
OneConfig ==
  \A c, d \in Callers :
    Succeeded(c) /\ Succeeded(d) => outcome[c].config = outcome[d].config

\* A report without an error names where the configuration it shows came from:
\* a configuration of a file is reported as loaded, and one that was not loaded is
\* the flags' own, although the two are kept under different mutexes.
ReportTruthful ==
  \A c \in Callers : operation[c] = "report" /\ Succeeded(c) =>
    /\ outcome[c].config # Raw => outcome[c].loaded
    /\ outcome[c].loaded => outcome[c].file = Path /\ resolver = "load"

\* A configuration file that was asked for is not ignored: no collector runs on
\* the flags alone because the file is missing, unreadable or wrong.
ExplicitFileUsed ==
  \A c \in Callers :
    operation[c] = "register" /\ Succeeded(c) /\ explicit /\ resolver = "load" =>
      \E d \in Callers : found[d] \in Contents \cup {"empty"} /\ outcome[c].config = Merged(found[d])

\* A refusal is final.  A configuration is kept before it is validated, so once one that
\* validation refuses was prepared, by a report or by a registration that then fails, no
\* call ever registers a collector, although the file was corrected in between: what is
\* refused and what runs are never two versions of the file.
RefusedForGood ==
  \A c, d \in Callers :
    /\ config[c] # None /\ config[c].ok /\ config[c].config \notin Valid
    /\ operation[d] = "register"
    => ~Succeeded(d)

\* Once a call has prepared the configuration, neither it nor its origin changes.
PreparedStays == [][prepared => UNCHANGED <<prepared, preparedConfig, state>>]_vars

\* Every call returns, whatever the file does: an error gives the mutex back.
CallsReturn == \A c \in Callers : <>(pc[c] = "returned")

=============================================================================
