------------------------- MODULE FeatureConfigProofs -------------------------
(***************************************************************************)
(* For any number of concurrent calls and changes of the file: the startup *)
(* log and all collectors go by one configuration, which is reported with  *)
(* its origin, and which stays, refused for good if it is not valid.       *)
(*                                                                         *)
(* The invariant below says why.  A call inside prepareConfig holds        *)
(* configMu, and nothing is prepared while one does (Exclusive); so the    *)
(* origin that the holder has recorded is still there when it stores the   *)
(* configuration it belongs to (Origin), and what calls have returned is   *)
(* what is prepared (Kept).                                                *)
(***************************************************************************)
EXTENDS FeatureConfig, TLAPS

Exclusive ==
  /\ \A c \in Callers : pc[c] \in {"resolved", "recorded"} => configMu = c
  /\ configMu # None => ~prepared
  /\ prepared => preparedConfig \in Configs

Origin ==
  /\ statePrepared => stateFile = Path
  /\ stateLoaded => statePrepared /\ resolver = "load"
  /\ \A c \in Callers : found[c] # None => resolver = "load"
  /\ \A c \in Callers : pc[c] = "recorded" /\ found[c] \in Contents => stateLoaded
  /\ prepared /\ preparedConfig # Raw => stateLoaded

Kept ==
  /\ \A c \in Callers : pc[c] \in {"report", "register"} =>
       config[c] \in Preparations /\ pc[c] = operation[c]
  /\ \A c \in Callers : config[c] # None /\ config[c].ok =>
       prepared /\ config[c].config = preparedConfig
  /\ \A c \in Callers : outcome[c] # None /\ outcome[c].ok =>
       prepared /\ outcome[c].config = preparedConfig

Truthful ==
  \A c \in Callers : operation[c] = "report" /\ outcome[c] # None /\ outcome[c].ok =>
    /\ outcome[c].config # Raw => outcome[c].loaded
    /\ outcome[c].loaded => outcome[c].file = Path /\ resolver = "load"

Validated ==
  \A c \in Callers : operation[c] = "register" /\ outcome[c] # None /\ outcome[c].ok =>
    outcome[c].config \in Valid

ConfigInv == TypeOK /\ Exclusive /\ Origin /\ Kept /\ Truthful /\ Validated

-----------------------------------------------------------------------------
\* Nothing is prepared and nobody has called at first.
LEMMA InitInv == Init => ConfigInv
<1> SUFFICES ASSUME Init PROVE ConfigInv
  OBVIOUS
<1> USE ConfigAssumption DEF Init
<1>1. TypeOK
  <2>1. changes \in 0..MaxChanges
    OBVIOUS
  <2>2. /\ pc \in [Callers -> {"start", "resolved", "recorded", "report", "register", "returned"}]
        /\ found \in [Callers -> Disk \cup {None}]
        /\ config \in [Callers -> Preparations \cup {None}]
        /\ outcome \in [Callers -> Outcomes \cup {None}]
    OBVIOUS
  <2> QED
    BY <2>1, <2>2 DEF TypeOK
<1>2. Exclusive /\ Origin
  BY DEF Exclusive, Origin
<1>3. Kept /\ Truthful /\ Validated
  BY DEF Kept, Truthful, Validated
<1> QED
  BY <1>1, <1>2, <1>3 DEF ConfigInv

\* Every step keeps the invariant.
LEMMA StepInv == ConfigInv /\ [Next]_vars => ConfigInv'
<1> SUFFICES ASSUME ConfigInv, [Next]_vars PROVE ConfigInv'
  OBVIOUS
<1> USE ConfigAssumption
<1>1. ASSUME NEW c \in Callers, PrepareCached(c) PROVE ConfigInv'
  <2> USE <1>1 DEF PrepareCached, Goto, world, file, feature, state, call, Returns, ConfigInv, Path
  <2>1. TypeOK'
    BY DEF TypeOK, Disk, Configs, Preparations, Outcomes, Exclusive, Kept
  <2>2. Exclusive'
    BY DEF Exclusive, TypeOK, Configs
  <2>3. Origin'
    BY DEF Origin, Exclusive, TypeOK, Disk, Configs, Loaded, Fails, Bad
  <2>4. Kept'
    BY DEF Kept, Exclusive, TypeOK, Preparations, Configs
  <2>5. Truthful'
    BY DEF Truthful, Origin, Kept, TypeOK, Exclusive, Preparations
  <2>6. Validated'
    BY DEF Validated, Kept, TypeOK
  <2> QED
    BY <2>1, <2>2, <2>3, <2>4, <2>5, <2>6 DEF ConfigInv
<1>2. ASSUME NEW c \in Callers, PrepareNothing(c) PROVE ConfigInv'
  <2> USE <1>2 DEF PrepareNothing, Goto, world, file, feature, state, call, Returns, ConfigInv, Path
  <2>1. TypeOK'
    BY DEF TypeOK, Disk, Configs, Preparations, Outcomes, Exclusive, Kept
  <2>2. Exclusive'
    BY DEF Exclusive, TypeOK, Configs
  <2>3. Origin'
    BY DEF Origin, Exclusive, TypeOK, Disk, Configs, Loaded, Fails, Bad
  <2>4. Kept'
    BY DEF Kept, Exclusive, TypeOK, Preparations, Configs
  <2>5. Truthful'
    BY DEF Truthful, Origin, Kept, TypeOK, Exclusive, Preparations
  <2>6. Validated'
    BY DEF Validated, Kept, TypeOK
  <2> QED
    BY <2>1, <2>2, <2>3, <2>4, <2>5, <2>6 DEF ConfigInv
<1>3. ASSUME NEW c \in Callers, Resolve(c) PROVE ConfigInv'
  <2> USE <1>3 DEF Resolve, Goto, world, file, feature, state, call, ConfigInv, Path
  <2>1. TypeOK'
    BY DEF TypeOK, Disk, Configs, Preparations, Outcomes, Exclusive, Kept
  <2>2. Exclusive'
    BY DEF Exclusive, TypeOK, Configs
  <2>3. Origin'
    BY DEF Origin, Exclusive, TypeOK, Disk, Configs, Loaded, Fails, Bad
  <2>4. Kept'
    BY DEF Kept, Exclusive, TypeOK, Preparations, Configs
  <2>5. Truthful'
    BY DEF Truthful, Origin, Kept, TypeOK, Exclusive, Preparations
  <2>6. Validated'
    BY DEF Validated, Kept, TypeOK
  <2> QED
    BY <2>1, <2>2, <2>3, <2>4, <2>5, <2>6 DEF ConfigInv
<1>4. ASSUME NEW c \in Callers, PrepareFails(c) PROVE ConfigInv'
  <2> USE <1>4 DEF PrepareFails, Goto, world, file, feature, state, call, Returns, ConfigInv, Path
  <2>1. TypeOK'
    BY DEF TypeOK, Disk, Configs, Preparations, Outcomes, Exclusive, Kept
  <2>2. Exclusive'
    BY DEF Exclusive, TypeOK, Configs
  <2>3. Origin'
    BY DEF Origin, Exclusive, TypeOK, Disk, Configs, Loaded, Fails, Bad
  <2>4. Kept'
    BY DEF Kept, Exclusive, TypeOK, Preparations, Configs
  <2>5. Truthful'
    BY DEF Truthful, Origin, Kept, TypeOK, Exclusive, Preparations
  <2>6. Validated'
    BY DEF Validated, Kept, TypeOK
  <2> QED
    BY <2>1, <2>2, <2>3, <2>4, <2>5, <2>6 DEF ConfigInv
<1>5. ASSUME NEW c \in Callers, RecordState(c) PROVE ConfigInv'
  <2> USE <1>5 DEF RecordState, Goto, world, file, feature, state, call, ConfigInv, Path
  <2>1. TypeOK'
    BY DEF TypeOK, Disk, Configs, Preparations, Outcomes, Exclusive, Kept
  <2>2. Exclusive'
    BY DEF Exclusive, TypeOK, Configs
  <2>3. Origin'
    BY ZenonT(30) DEF Origin, Exclusive, TypeOK, Disk, Configs, Loaded, Fails, Bad
  <2>4. Kept'
    BY DEF Kept, Exclusive, TypeOK, Preparations, Configs
  <2>5. Truthful'
    BY DEF Truthful, Origin, Kept, TypeOK, Exclusive, Preparations
  <2>6. Validated'
    BY DEF Validated, Kept, TypeOK
  <2> QED
    BY <2>1, <2>2, <2>3, <2>4, <2>5, <2>6 DEF ConfigInv
<1>6. ASSUME NEW c \in Callers, FinishPrepare(c) PROVE ConfigInv'
  <2> USE <1>6 DEF FinishPrepare, Goto, world, file, feature, state, call, Returns, Merged, ConfigInv, Path
  <2>1. TypeOK'
    BY DEF TypeOK, Disk, Configs, Preparations, Outcomes, Exclusive, Kept
  <2>2. Exclusive'
    BY DEF Exclusive, TypeOK, Configs
  <2>3. Origin'
    BY DEF Origin, Exclusive, TypeOK, Disk, Configs, Loaded, Fails, Bad
  <2>4. Kept'
    BY DEF Kept, Exclusive, TypeOK, Preparations, Configs
  <2>5. Truthful'
    BY DEF Truthful, Origin, Kept, TypeOK, Exclusive, Preparations
  <2>6. Validated'
    BY DEF Validated, Kept, TypeOK
  <2> QED
    BY <2>1, <2>2, <2>3, <2>4, <2>5, <2>6 DEF ConfigInv
<1>7. ASSUME NEW c \in Callers, Report(c) PROVE ConfigInv'
  <2> USE <1>7 DEF Report, Goto, world, file, feature, state, call, ConfigInv, Path
  <2>1. TypeOK'
    BY DEF TypeOK, Disk, Configs, Preparations, Outcomes, Exclusive, Kept
  <2>2. Exclusive'
    BY DEF Exclusive, TypeOK, Configs
  <2>3. Origin'
    BY DEF Origin, Exclusive, TypeOK, Disk, Configs, Loaded, Fails, Bad
  <2>4. Kept'
    BY DEF Kept, Exclusive, TypeOK, Preparations, Configs
  <2>5. Truthful'
    BY DEF Truthful, Origin, Kept, TypeOK, Exclusive, Preparations
  <2>6. Validated'
    BY DEF Validated, Kept, TypeOK
  <2> QED
    BY <2>1, <2>2, <2>3, <2>4, <2>5, <2>6 DEF ConfigInv
<1>8. ASSUME NEW c \in Callers, RegisterFails(c) PROVE ConfigInv'
  <2> USE <1>8 DEF RegisterFails, Goto, world, file, feature, state, call, ConfigInv, Path
  <2>1. TypeOK'
    BY DEF TypeOK, Disk, Configs, Preparations, Outcomes, Exclusive, Kept
  <2>2. Exclusive'
    BY DEF Exclusive, TypeOK, Configs
  <2>3. Origin'
    BY DEF Origin, Exclusive, TypeOK, Disk, Configs, Loaded, Fails, Bad
  <2>4. Kept'
    BY DEF Kept, Exclusive, TypeOK, Preparations, Configs
  <2>5. Truthful'
    BY DEF Truthful, Origin, Kept, TypeOK, Exclusive, Preparations
  <2>6. Validated'
    BY DEF Validated, Kept, TypeOK
  <2> QED
    BY <2>1, <2>2, <2>3, <2>4, <2>5, <2>6 DEF ConfigInv
<1>9. ASSUME NEW c \in Callers, Register(c) PROVE ConfigInv'
  <2> USE <1>9 DEF Register, Goto, world, file, feature, state, call, ConfigInv, Path
  <2>1. TypeOK'
    BY DEF TypeOK, Disk, Configs, Preparations, Outcomes, Exclusive, Kept
  <2>2. Exclusive'
    BY DEF Exclusive, TypeOK, Configs
  <2>3. Origin'
    BY DEF Origin, Exclusive, TypeOK, Disk, Configs, Loaded, Fails, Bad
  <2>4. Kept'
    BY DEF Kept, Exclusive, TypeOK, Preparations, Configs
  <2>5. Truthful'
    BY DEF Truthful, Origin, Kept, TypeOK, Exclusive, Preparations
  <2>6. Validated'
    BY DEF Validated, Kept, TypeOK
  <2> QED
    BY <2>1, <2>2, <2>3, <2>4, <2>5, <2>6 DEF ConfigInv
<1>10. CASE ChangeFile
  <2> USE <1>10 DEF ChangeFile, world, file, feature, state, call, ConfigInv, Path
  <2>1. TypeOK'
    BY DEF TypeOK
  <2>2. Exclusive' /\ Origin'
    BY DEF Exclusive, Origin
  <2>3. Kept' /\ Truthful' /\ Validated'
    BY DEF Kept, Truthful, Validated
  <2> QED
    BY <2>1, <2>2, <2>3 DEF ConfigInv
<1>11. CASE UNCHANGED vars
  <2> USE <1>11 DEF vars, world, file, feature, state, call, ConfigInv, Path
  <2>1. TypeOK'
    BY DEF TypeOK
  <2>2. Exclusive' /\ Origin'
    BY DEF Exclusive, Origin
  <2>3. Kept' /\ Truthful' /\ Validated'
    BY DEF Kept, Truthful, Validated
  <2> QED
    BY <2>1, <2>2, <2>3 DEF ConfigInv
<1> QED
  BY <1>1, <1>2, <1>3, <1>4, <1>5, <1>6, <1>7, <1>8, <1>9, <1>10, <1>11 DEF Next, Step, AllReturned

-----------------------------------------------------------------------------
\* The invariant holds in every reachable state.
THEOREM Invariance == Spec => []ConfigInv
  BY InitInv, StepInv, PTL DEF Spec

\* Every variable has its type.
THEOREM TypeCorrect == Spec => []TypeOK
<1>1. ConfigInv => TypeOK
  BY DEF ConfigInv
<1> QED
  BY <1>1, Invariance, PTL

\* The startup log and every collector of a feature go by one configuration:
\* what a successful call returned is what is prepared.
THEOREM SingleConfiguration == Spec => []OneConfig
<1>1. ConfigInv => OneConfig
  BY DEF ConfigInv, Kept, OneConfig, Succeeded
<1> QED
  BY <1>1, Invariance, PTL

\* A report without an error names the origin of the configuration it shows.
THEOREM HonestReports == Spec => []ReportTruthful
<1>1. ConfigInv => ReportTruthful
  BY DEF ConfigInv, Truthful, ReportTruthful, Succeeded
<1> QED
  BY <1>1, Invariance, PTL

\* A refused configuration is refused for good: it is the one that is prepared, and what
\* a registration succeeds with is the prepared one too, and valid.
THEOREM RefusalIsFinal == Spec => []RefusedForGood
<1>1. ConfigInv => RefusedForGood
  BY DEF ConfigInv, Kept, Validated, RefusedForGood, Succeeded
<1> QED
  BY <1>1, Invariance, PTL

\* A prepared configuration and its origin never change: whoever could change
\* them would hold configMu, and then nothing is prepared.
THEOREM PreparationIsFinal == Spec => PreparedStays
<1>1. ConfigInv /\ [Next]_vars => [prepared => UNCHANGED <<prepared, preparedConfig, state>>]_vars
  <2> SUFFICES ASSUME ConfigInv, Next, prepared
               PROVE UNCHANGED <<prepared, preparedConfig, state>>
    OBVIOUS
  <2> USE ConfigAssumption DEF ConfigInv, Exclusive, feature, state
  <2>1. CASE ChangeFile \/ AllReturned
    BY <2>1 DEF ChangeFile, AllReturned, vars
  <2>2. ASSUME NEW c \in Callers, Step(c) PROVE UNCHANGED <<prepared, preparedConfig, state>>
    BY <2>2 DEF Step, PrepareCached, PrepareNothing, Resolve, PrepareFails, RecordState,
                FinishPrepare, Report, RegisterFails, Register
  <2> QED
    BY <2>1, <2>2 DEF Next
<1> QED
  BY <1>1, Invariance, PTL DEF Spec, PreparedStays

-----------------------------------------------------------------------------
\* Between the calls that prepare and the configuration they leave: a call that has read a
\* usable file is still there as a witness, for found changes only in calls that begin.
Used(d) == found[d] # None /\ ~Fails(found[d])

FromFile ==
  resolver = "load" =>
    /\ \A c \in Callers : pc[c] = "resolved" => found[c] # None
    /\ \A c \in Callers : pc[c] = "recorded" => Used(c)
    /\ prepared => \E d \in Callers : pc[d] # "start" /\ Used(d) /\ preparedConfig = Merged(found[d])

LEMMA FromFileStep == ConfigInv /\ FromFile /\ [Next]_vars => FromFile'
<1> SUFFICES ASSUME ConfigInv, FromFile, [Next]_vars, resolver = "load" PROVE FromFile'
  BY DEF FromFile, Next, Step, vars, world, ChangeFile, AllReturned, PrepareCached, PrepareNothing,
         Resolve, PrepareFails, RecordState, FinishPrepare, Report, RegisterFails, Register
<1> USE ConfigAssumption DEF FromFile, Used, Fails, Goto, Returns, world, file, feature, state, call
<1>1. ASSUME NEW c \in Callers, Resolve(c) PROVE FromFile'
  BY <1>1 DEF Resolve, ConfigInv, TypeOK
<1>2. ASSUME NEW c \in Callers, PrepareFails(c) PROVE FromFile'
  BY <1>2 DEF PrepareFails, ConfigInv, TypeOK
<1>3. ASSUME NEW c \in Callers, RecordState(c) PROVE FromFile'
  BY <1>3 DEF RecordState, ConfigInv, TypeOK
<1>4. ASSUME NEW c \in Callers, FinishPrepare(c) PROVE FromFile'
  <2>1. found[c] # None /\ ~Fails(found[c]) /\ preparedConfig' = Merged(found[c])
    BY <1>4 DEF FinishPrepare
  <2>2. pc'[c] # "start"
    BY <1>4 DEF FinishPrepare, ConfigInv, TypeOK
  <2> QED
    BY <1>4, <2>1, <2>2 DEF FinishPrepare, ConfigInv, TypeOK, Merged
<1>5. ASSUME NEW c \in Callers,
             PrepareCached(c) \/ Report(c) \/ RegisterFails(c) \/ Register(c)
      PROVE  FromFile'
  BY <1>5 DEF PrepareCached, Report, RegisterFails, Register, ConfigInv, TypeOK
<1>6. CASE ChangeFile \/ UNCHANGED vars
  BY <1>6 DEF ChangeFile, vars
<1> QED
  BY <1>1, <1>2, <1>3, <1>4, <1>5, <1>6 DEF Next, Step, AllReturned, PrepareNothing

\* A configuration file that was asked for is not ignored.
THEOREM ExplicitFileHonored == Spec => []ExplicitFileUsed
<1>1. Init => FromFile
  BY DEF Init, FromFile
<1>2. ConfigInv /\ FromFile => ExplicitFileUsed
  BY DEF ConfigInv, TypeOK, Kept, FromFile, Used, Fails, ExplicitFileUsed, Succeeded, Disk
<1> QED
  BY <1>1, <1>2, FromFileStep, Invariance, PTL DEF Spec

=============================================================================
