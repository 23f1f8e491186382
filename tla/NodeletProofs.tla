---------------------------- MODULE NodeletProofs ----------------------------
(***************************************************************************)
(* Proofs about the reconciliation loop, for any number of phases, any      *)
(* retry counts and any set of configurations.                              *)
(***************************************************************************)
EXTENDS Nodelet, TLAPS

USE DEF Phases, Roles, NodeStates

\* Write() only derives the node state; it keeps every other field.
LEMMA PopulateKeeps ==
    ASSUME NEW c \in Configs, NEW s \in States
    PROVE  /\ populateExtraFields(c, s) \in States
           /\ populateExtraFields(c, s).ServiceState = s.ServiceState
           /\ populateExtraFields(c, s).StartAttempts = s.StartAttempts
           /\ populateExtraFields(c, s).ClusterID = s.ClusterID
           /\ populateExtraFields(c, s).ClusterRole = s.ClusterRole
           /\ populateExtraFields(c, s).CompletedPhases = s.CompletedPhases
           /\ populateExtraFields(c, s).Operation = s.Operation
           /\ populateExtraFields(c, s).KubeRunning = s.KubeRunning
           /\ populateExtraFields(c, s).FailedStatusCheck = s.FailedStatusCheck
           /\ populateExtraFields(c, s).StartFailStep = s.StartFailStep
  BY DEF populateExtraFields, attemptsState, States

LEMMA StoredType ==
    ASSUME NEW s \in States
    PROVE  Stored(s) \in StoredStates
  BY DEF Stored, States, StoredStates

\* Load keeps the recorded cluster, and a new process starts from a sound state.
LEMMA InitialState ==
    ASSUME NEW f \in StoredStates
    PROVE  /\ constructInitialCurrentState(f) \in States
           /\ constructInitialCurrentState(f).ClusterID = f.ClusterID
           /\ constructInitialCurrentState(f).ClusterRole = f.ClusterRole
           /\ constructInitialCurrentState(f).ServiceState = FALSE
           /\ constructInitialCurrentState(f).KubeRunning = FALSE
           /\ constructInitialCurrentState(f).FailedStatusCheck = 0
           /\ constructInitialCurrentState(f).StartFailStep = -1
           /\ constructInitialCurrentState(f).CompletedPhases = 0
  <1>1. /\ Load(f) \in StoredStates
        /\ Load(f).ClusterID = f.ClusterID /\ Load(f).ClusterRole = f.ClusterRole
    BY DEF Load, StoredStates
  <1>2. 0 \in Phases /\ 0 \in 0 .. N
    BY PhasesAssumption
  <1>. QED
    BY <1>1, <1>2 DEF constructInitialCurrentState, StoredStates, States

LEMMA NumPhasesRange ==
    ASSUME NEW c \in Configs
    PROVE  NumPhases(c) \in 1 .. N
  BY PhasesAssumption DEF NumPhases

LEMMA NoFileType == NoFile \in StoredStates
  <1>1. 0 \in 0 .. N
    BY PhasesAssumption
  <1>2. "" \in Ids
    BY ConfigsAssumption
  <1>. QED
    BY <1>1, <1>2 DEF NoFile, StoredStates

LEMMA NextAttemptType ==
    ASSUME NEW a \in Nat
    PROVE  NextAttempt(a) \in Nat
  BY RetryAssumption DEF NextAttempt

LEMMA ConfigFields ==
    ASSUME NEW c \in Configs
    PROVE  c.id \in Ids /\ c.role \in Roles /\ c.svc \in {"true", "false", "ignore"}
  BY ConfigsAssumption

-----------------------------------------------------------------------------
(* Type correctness *)

\* A chain that persists s leaves well-typed states in memory and on disk.
LEMMA PersistType ==
    ASSUME cfg \in Configs, NEW s \in States, tryToPersistStatus(s)
    PROVE  st' \in States /\ file' \in StoredStates
  BY PopulateKeeps, StoredType DEF tryToPersistStatus

LEMMA PhaseOpsType ==
    ASSUME TypeOK, NEW i \in Phases,
           PhaseStartOk(i) \/ PhaseStartFail(i) \/ PhaseStopOk(i) \/ PhaseStopFail(i)
    PROVE  /\ up' \subseteq Phases /\ certs' \in Ids \X (Roles \cup {""})
           /\ hist' \in [Phases -> {"none", "ran", "seen"}]
  <1>1. Identity(cfg) \in Ids \X (Roles \cup {""}) /\ NoCerts \in Ids \X (Roles \cup {""})
    BY ConfigFields, ConfigsAssumption DEF TypeOK, Identity, NoCerts
  <1>2. /\ up \subseteq Phases /\ certs \in Ids \X (Roles \cup {""})
        /\ hist \in [Phases -> {"none", "ran", "seen"}]
    BY DEF TypeOK
  <1>h. /\ [hist EXCEPT ![i] = "ran"] \in [Phases -> {"none", "ran", "seen"}]
        /\ [hist EXCEPT ![i] = "none"] \in [Phases -> {"none", "ran", "seen"}]
    BY <1>2
  <1>u. up \cup {i} \subseteq Phases
    BY <1>2
  <1>3. CASE PhaseStartOk(i)
    <2>1. CASE cfg.role = "none"
      BY <1>2, <1>3, <2>1 DEF PhaseStartOk
    <2>2. CASE cfg.role # "none"
      BY <1>1, <1>2, <1>3, <1>h, <1>u, <2>2 DEF PhaseStartOk
    <2>. QED
      BY <2>1, <2>2
  <1>4. CASE PhaseStartFail(i)
    <2>1. CASE cfg.role = "none"
      BY <1>2, <1>4, <2>1 DEF PhaseStartFail
    <2>2. CASE cfg.role # "none"
      BY <1>1, <1>2, <1>4, <1>h, <1>u, <2>2 DEF PhaseStartFail, host
    <2>. QED
      BY <2>1, <2>2
  <1>5. CASE PhaseStopOk(i)
    BY <1>1, <1>2, <1>5 DEF PhaseStopOk
  <1>6. CASE PhaseStopFail(i)
    BY <1>1, <1>2, <1>6 DEF PhaseStopFail, host
  <1>. QED
    BY <1>3, <1>4, <1>5, <1>6

LEMMA TypeInit == Init => TypeOK
  <1>. SUFFICES ASSUME Init PROVE TypeOK
    OBVIOUS
  <1>1. st \in States /\ file \in StoredStates
    BY NoFileType, InitialState DEF Init
  <1>2. 0 \in Phases /\ 0 \in -1 .. N /\ Threshold \in 0 .. Threshold
    BY PhasesAssumption, ThresholdAssumption
  <1>3. NoCerts \in Ids \X (Roles \cup {""})
    BY ConfigsAssumption DEF NoCerts
  <1>. QED
    BY <1>1, <1>2, <1>3 DEF Init, TypeOK

LEMMA TypeStep == TypeOK /\ IndicesInRange /\ [Next]_vars => TypeOK'
  <1>. SUFFICES ASSUME TypeOK, IndicesInRange, [Next]_vars PROVE TypeOK'
    OBVIOUS
  <1>a. N \in Nat \ {0} /\ 0 \in Phases /\ 0 \in 0 .. N /\ Threshold \in Nat
    BY PhasesAssumption, ThresholdAssumption
  <1>b. NumPhases(cfg) \in 1 .. N
    BY NumPhasesRange DEF TypeOK
  <1>c. cfg.id \in Ids /\ cfg.role \in Roles /\ "" \in Ids
    BY ConfigFields, ConfigsAssumption DEF TypeOK
  <1>d. cfg \in Configs /\ st \in States /\ file \in StoredStates
    BY DEF TypeOK
  <1>e. populateExtraFields(cfg, st) \in States
    BY <1>d, PopulateKeeps
  <1>f. /\ idx \in -1 .. N /\ (pc \in {"idle", "status", "start"} => idx >= 0)
        /\ goal \in Phases /\ age \in 0 .. Threshold
    BY DEF TypeOK
  <1>j. /\ hist \in [Phases -> {"none", "ran", "seen"}]
        /\ certs \in Ids \X (Roles \cup {""})
    BY DEF TypeOK
  <1>g. /\ goal \in 0 .. N /\ 0 \in -1 .. N /\ 0 >= 0 /\ NumPhases(cfg) - 1 \in -1 .. N
        /\ NumPhases(cfg) \in 0 .. N /\ 0 \in 0 .. Threshold /\ Threshold \in 0 .. Threshold
    BY <1>a, <1>b, <1>f
  <1>h. ASSUME pc \in {"status", "start"}, idx < NumPhases(cfg)
        PROVE  idx \in Phases /\ idx + 1 \in -1 .. N /\ idx + 1 \in 0 .. N /\ idx + 1 >= 0
    BY <1>a, <1>b, <1>f, <1>h
  <1>i. ASSUME pc = "stop", idx >= goal
        PROVE  idx \in Phases /\ idx - 1 \in -1 .. N
    <2>1. idx < NumPhases(cfg)
      BY <1>i DEF IndicesInRange
    <2>. QED
      BY <1>a, <1>b, <1>f, <1>i, <2>1
  <1>1. CASE Launch
    <2>1. PICK c \in Configs :
            LET s == populateExtraFields(c, constructInitialCurrentState(file)) IN
            /\ cfg' = c
            /\ st' = IF c.id = "" THEN [s EXCEPT !.NodeState = "ok", !.StartAttempts = 0] ELSE s
            /\ file' = Stored(s)
            /\ intact' = (intact /\ c = cfg)
      BY <1>1 DEF Launch
    <2>2. populateExtraFields(c, constructInitialCurrentState(file)) \in States
      BY <1>d, InitialState, PopulateKeeps
    <2>3. st' \in States /\ file' \in StoredStates
      BY <2>1, <2>2, StoredType DEF States
    <2>. QED
      BY <1>1, <1>a, <1>g, <2>1, <2>3 DEF Launch, TypeOK, host
  <1>2. CASE Status
    <2>1. [st EXCEPT !.Operation = "status", !.KubeRunning = FALSE] \in States
      BY <1>d DEF States
    <2>2. st' \in States /\ file' \in StoredStates
      <3>1. CASE st.StartFailStep # -1
        <4>1. st.StartFailStep \in Phases
          BY <1>d, <3>1 DEF States
        <4>2. populateExtraFields(cfg, [st EXCEPT !.Operation = "status", !.KubeRunning = FALSE]) \in States
          BY <1>d, <2>1, PopulateKeeps
        <4>. QED
          BY <1>2, <3>1, <4>1, <4>2, StoredType DEF Status, States
      <3>2. CASE st.StartFailStep = -1
        BY <1>2, <1>d, <2>1, <3>2 DEF Status
      <3>. QED
        BY <3>1, <3>2
    <2>3. pc' = "handle" \/ (pc' = "status" /\ st.StartFailStep = -1)
      BY <1>2 DEF Status
    <2>4. idx >= 0 \/ pc' = "handle"
      BY <1>2, <1>f DEF Status
    <2>. QED
      BY <1>2, <2>2, <2>3, <2>4 DEF Status, TypeOK, host
  <1>3. CASE StatusPass
    <2>1. idx \in Phases /\ idx + 1 \in -1 .. N /\ idx + 1 >= 0
      BY <1>3, <1>h DEF StatusPass
    <2>2. hist' \in [Phases -> {"none", "ran", "seen"}]
      BY <1>3, <1>j, <2>1 DEF StatusPass, Seen
    <2>. QED
      BY <1>3, <2>1, <2>2 DEF StatusPass, TypeOK, host
  <1>4. CASE StatusAllPassed
    <2>1. st' \in States
      BY <1>4, <1>a, <1>e DEF StatusAllPassed, States
    <2>2. file' \in StoredStates
      BY <1>4, <1>e, StoredType DEF StatusAllPassed
    <2>3. age' \in 0 .. Threshold
      BY <1>4, <1>a DEF StatusAllPassed
    <2>. QED
      BY <1>4, <2>1, <2>2, <2>3 DEF StatusAllPassed, TypeOK, host
  <1>5. CASE StatusFail
    <2>1. idx \in Phases
      BY <1>5, <1>h DEF StatusFail
    <2>2. failedStatus(populateExtraFields(cfg, st), idx) \in States
      BY <1>a, <1>e, <2>1 DEF failedStatus, States
    <2>3. file' \in StoredStates
      BY <1>5, <1>e, StoredType DEF StatusFail
    <2>4. age' \in 0 .. Threshold
      BY <1>5, <1>f, <1>g DEF StatusFail
    <2>5. hist' \in [Phases -> {"none", "ran", "seen"}]
      BY <1>5, <1>j, <2>1 DEF StatusFail
    <2>. QED
      BY <1>5, <2>2, <2>3, <2>4, <2>5 DEF StatusFail, TypeOK, host
  <1>6. CASE AlreadyRunning
    <2>1. [st EXCEPT !.Operation = "start", !.StartAttempts = 0, !.ServiceState = TRUE,
             !.StartFailStep = -1, !.CompletedPhases = NumPhases(cfg)] \in States
      BY <1>d, <1>g DEF States
    <2>2. st' \in States /\ file' \in StoredStates
      BY <1>6, <1>d, <2>1, PersistType DEF AlreadyRunning
    <2>3. intact' \in BOOLEAN
      BY <1>6 DEF AlreadyRunning
    <2>. QED
      BY <1>6, <2>2, <2>3 DEF AlreadyRunning, TypeOK, host
  <1>7. CASE Restart
    <2>1. st' \in States
      BY <1>7, <1>d, NextAttemptType DEF Restart, States
    <2>2. goal' \in Phases /\ idx' \in -1 .. N
      <3>1. st.FailedStatusCheck \in Phases
        BY <1>d DEF States
      <3>. QED
        BY <1>7, <1>a, <1>g, <3>1 DEF Restart, failedCheck
    <2>. QED
      BY <1>7, <2>1, <2>2 DEF Restart, TypeOK, host
  <1>8. CASE handleServiceStopState
    <2>1. st' \in States
      BY <1>8, <1>d DEF handleServiceStopState, States
    <2>2. goal' \in Phases /\ idx' \in -1 .. N /\ pc' \in {"stop", "end"}
      BY <1>8, <1>a, <1>f, <1>g DEF handleServiceStopState
    <2>. QED
      BY <1>8, <2>1, <2>2 DEF handleServiceStopState, TypeOK, host
  <1>9. CASE IgnoreState
    BY <1>9 DEF IgnoreState, TypeOK, host
  <1>10. CASE StopSkipsGenCerts
    BY <1>10 DEF StopSkipsGenCerts, TypeOK, host
  <1>s. stopState(st) \in States
    BY <1>a, <1>c, <1>d, <1>g DEF stopState, States
  <1>11. CASE StopPhase
    <2>1. idx \in Phases /\ idx - 1 \in -1 .. N
      BY <1>11, <1>i DEF StopPhase
    <2>2. /\ up' \subseteq Phases /\ certs' \in Ids \X (Roles \cup {""})
          /\ hist' \in [Phases -> {"none", "ran", "seen"}]
      BY <1>11, <2>1, PhaseOpsType DEF StopPhase
    <2>. QED
      BY <1>11, <2>1, <2>2 DEF StopPhase, TypeOK
  <1>12. CASE StopPhaseFails
    <2>1. idx \in Phases
      BY <1>12, <1>i DEF StopPhaseFails
    <2>2. /\ up' \subseteq Phases /\ certs' \in Ids \X (Roles \cup {""})
          /\ hist' \in [Phases -> {"none", "ran", "seen"}]
      BY <1>12, <2>1, PhaseOpsType DEF StopPhaseFails
    <2>3. st' \in States /\ file' \in StoredStates
      BY <1>12, <1>d, <1>s, PersistType DEF StopPhaseFails
    <2>. QED
      BY <1>12, <2>2, <2>3 DEF StopPhaseFails, TypeOK
  <1>13. CASE StopReturns
    <2>1. st' \in States /\ file' \in StoredStates
      BY <1>13, <1>d, <1>s, PersistType DEF StopReturns
    <2>. QED
      BY <1>13, <2>1 DEF StopReturns, TypeOK, host
  <1>14. CASE ServiceStopped
    <2>1. st' \in States
      BY <1>14, <1>d DEF ServiceStopped, States
    <2>. QED
      BY <1>14, <2>1 DEF ServiceStopped, TypeOK, host
  <1>15. CASE BeginStart
    <2>1. goal \in 0 .. N /\ goal \in -1 .. N /\ goal >= 0
      BY <1>a, <1>f
    <2>2. [st EXCEPT !.ClusterID = cfg.id, !.ClusterRole = cfg.role, !.CompletedPhases = goal] \in States
      BY <1>c, <1>d, <2>1 DEF States
    <2>3. st' \in States /\ file' \in StoredStates
      BY <1>15, <1>d, <2>2, PersistType DEF BeginStart
    <2>4. idx' \in -1 .. N /\ idx' >= 0
      BY <1>15, <2>1 DEF BeginStart
    <2>. QED
      BY <1>15, <2>3, <2>4 DEF BeginStart, TypeOK, host
  <1>16. CASE StartPhase
    <2>1. idx \in Phases /\ idx + 1 \in 0 .. N /\ idx + 1 \in -1 .. N /\ idx + 1 >= 0
      BY <1>16, <1>h DEF StartPhase, IndicesInRange
    <2>2. /\ up' \subseteq Phases /\ certs' \in Ids \X (Roles \cup {""})
          /\ hist' \in [Phases -> {"none", "ran", "seen"}]
      BY <1>16, <2>1, PhaseOpsType DEF StartPhase
    <2>3. [st EXCEPT !.CompletedPhases = idx + 1] \in States
      BY <1>d, <2>1 DEF States
    <2>4. st' \in States /\ file' \in StoredStates
      BY <1>16, <1>d, <2>3, PersistType DEF StartPhase
    <2>. QED
      BY <1>16, <2>1, <2>2, <2>4 DEF StartPhase, TypeOK
  <1>17. CASE StartLastPhase
    <2>1. idx \in Phases /\ idx + 1 \in 0 .. N
      BY <1>17, <1>h DEF StartLastPhase, IndicesInRange
    <2>2. /\ up' \subseteq Phases /\ certs' \in Ids \X (Roles \cup {""})
          /\ hist' \in [Phases -> {"none", "ran", "seen"}]
      BY <1>17, <2>1, PhaseOpsType DEF StartLastPhase
    <2>3. [st EXCEPT !.CompletedPhases = idx + 1, !.StartAttempts = 0,
             !.ServiceState = TRUE, !.StartFailStep = -1] \in States
      BY <1>d, <2>1 DEF States
    <2>4. st' \in States /\ file' \in StoredStates
      BY <1>17, <1>d, <2>3, PersistType DEF StartLastPhase
    <2>5. intact' \in BOOLEAN
      BY <1>17 DEF StartLastPhase, Healthy
    <2>. QED
      BY <1>17, <2>2, <2>4, <2>5 DEF StartLastPhase, TypeOK
  <1>18. CASE StartPhaseFails
    <2>1. idx \in Phases
      BY <1>18, <1>h DEF StartPhaseFails, IndicesInRange
    <2>2. /\ up' \subseteq Phases /\ certs' \in Ids \X (Roles \cup {""})
          /\ hist' \in [Phases -> {"none", "ran", "seen"}]
      BY <1>18, <2>1, PhaseOpsType DEF StartPhaseFails
    <2>3. [st EXCEPT !.ServiceState = FALSE, !.StartFailStep = idx] \in States
      BY <1>d, <2>1 DEF States
    <2>4. st' \in States /\ file' \in StoredStates
      BY <1>18, <1>d, <2>3, PersistType DEF StartPhaseFails
    <2>. QED
      BY <1>18, <2>2, <2>4 DEF StartPhaseFails, TypeOK
  <1>19. CASE ReconcileDone
    <2>1. st' \in States /\ file' \in StoredStates
      BY <1>19, <1>d, PersistType DEF ReconcileDone
    <2>. QED
      BY <1>19, <1>a, <1>g, <2>1 DEF ReconcileDone, TypeOK, host
  <1>20. CASE Tick
    <2>1. age' \in 0 .. Threshold
      BY <1>20, <1>a, <1>f DEF Tick
    <2>. QED
      BY <1>20, <2>1 DEF Tick, TypeOK
  <1>21. CASE PhaseDies
    <2>1. certs' \in Ids \X (Roles \cup {""})
      <3>1. NoCerts \in Ids \X (Roles \cup {""})
        BY <1>c DEF NoCerts
      <3>2. certs' = NoCerts \/ certs' = certs
        BY <1>21 DEF PhaseDies
      <3>. QED
        BY <1>j, <3>1, <3>2
    <2>2. up' \subseteq Phases
      BY <1>21 DEF PhaseDies, TypeOK
    <2>. QED
      BY <1>21, <2>1, <2>2 DEF PhaseDies, TypeOK, proc
  <1>22. CASE Crash
    BY <1>22 DEF Crash, TypeOK, host
  <1>23. CASE CrashInWrite
    BY <1>23, NoFileType DEF CrashInWrite, TypeOK, host
  <1>24. CASE BecomeCalm
    BY <1>24 DEF BecomeCalm, TypeOK, host, proc
  <1>25. CASE UNCHANGED vars
    BY <1>25 DEF vars, TypeOK
  <1>. QED
    BY <1>1, <1>2, <1>3, <1>4, <1>5, <1>6, <1>7, <1>8, <1>9, <1>10, <1>11, <1>12, <1>13, <1>14,
       <1>15, <1>16, <1>17, <1>18, <1>19, <1>20, <1>21, <1>22, <1>23, <1>24, <1>25 DEF Next, Reconcile

-----------------------------------------------------------------------------
(* What the actions do to the fields of the state, in memory and on disk *)

\* Persisting s changes nothing but the node state.
LEMMA Persisted ==
    ASSUME cfg \in Configs, NEW s \in States, tryToPersistStatus(s)
    PROVE  /\ st'.ServiceState = s.ServiceState /\ st'.StartAttempts = s.StartAttempts
           /\ st'.ClusterID = s.ClusterID /\ st'.ClusterRole = s.ClusterRole
           /\ st'.CompletedPhases = s.CompletedPhases /\ st'.Operation = s.Operation
           /\ st'.KubeRunning = s.KubeRunning /\ st'.FailedStatusCheck = s.FailedStatusCheck
           /\ st'.StartFailStep = s.StartFailStep /\ file'.ServiceState = s.ServiceState
           /\ file'.ClusterID = s.ClusterID /\ file'.ClusterRole = s.ClusterRole
           /\ file'.CompletedPhases = s.CompletedPhases
  <1>1. st' = populateExtraFields(cfg, s) /\ file' = Stored(populateExtraFields(cfg, s))
    BY DEF tryToPersistStatus
  <1>. QED
    BY <1>1, PopulateKeeps DEF Stored

\* A running service is recorded as such.
LEMMA AlreadyRunningEffect ==
    ASSUME TypeOK, IndicesInRange, AlreadyRunning
    PROVE  /\ st'.ServiceState = TRUE /\ st'.StartAttempts = 0 /\ st'.ClusterID = st.ClusterID
           /\ st'.ClusterRole = st.ClusterRole /\ st'.CompletedPhases = NumPhases(cfg)
           /\ st'.Operation = "start" /\ st'.KubeRunning = st.KubeRunning
           /\ st'.FailedStatusCheck = st.FailedStatusCheck /\ st'.StartFailStep = -1
           /\ file'.ServiceState = TRUE /\ file'.ClusterID = st.ClusterID
           /\ file'.ClusterRole = st.ClusterRole /\ file'.CompletedPhases = NumPhases(cfg)
  <1>1. cfg \in Configs /\ st \in States
    BY DEF TypeOK
  <1>2. [st EXCEPT !.Operation = "start", !.StartAttempts = 0, !.ServiceState = TRUE,
           !.StartFailStep = -1, !.CompletedPhases = NumPhases(cfg)] \in States
    <2>1. NumPhases(cfg) \in 0 .. N
      BY <1>1, NumPhasesRange, PhasesAssumption
    <2>. QED
      BY <1>1, <2>1 DEF States
  <1>3. tryToPersistStatus([st EXCEPT !.Operation = "start", !.StartAttempts = 0, !.ServiceState = TRUE,
           !.StartFailStep = -1, !.CompletedPhases = NumPhases(cfg)])
    BY DEF AlreadyRunning
  <1>4. PICK s \in States : s = [st EXCEPT !.Operation = "start", !.StartAttempts = 0, !.ServiceState = TRUE,
           !.StartFailStep = -1, !.CompletedPhases = NumPhases(cfg)] /\ tryToPersistStatus(s)
    BY <1>2, <1>3
  <1>5. /\ st'.ServiceState = s.ServiceState /\ st'.StartAttempts = s.StartAttempts
        /\ st'.ClusterID = s.ClusterID /\ st'.ClusterRole = s.ClusterRole
        /\ st'.CompletedPhases = s.CompletedPhases /\ st'.Operation = s.Operation
        /\ st'.KubeRunning = s.KubeRunning /\ st'.FailedStatusCheck = s.FailedStatusCheck
        /\ st'.StartFailStep = s.StartFailStep /\ file'.ServiceState = s.ServiceState
        /\ file'.ClusterID = s.ClusterID /\ file'.ClusterRole = s.ClusterRole
        /\ file'.CompletedPhases = s.CompletedPhases
    BY <1>1, <1>4, Persisted
  <1>. QED
    BY <1>1, <1>4, <1>5 DEF States

\* Start records the cluster before the first phase runs.
LEMMA BeginStartEffect ==
    ASSUME TypeOK, IndicesInRange, BeginStart
    PROVE  /\ st'.ServiceState = st.ServiceState /\ st'.StartAttempts = st.StartAttempts
           /\ st'.ClusterID = cfg.id /\ st'.ClusterRole = cfg.role /\ st'.CompletedPhases = goal
           /\ st'.Operation = st.Operation /\ st'.KubeRunning = st.KubeRunning
           /\ st'.FailedStatusCheck = st.FailedStatusCheck /\ st'.StartFailStep = st.StartFailStep
           /\ file'.ServiceState = st.ServiceState /\ file'.ClusterID = cfg.id
           /\ file'.ClusterRole = cfg.role /\ file'.CompletedPhases = goal
  <1>1. cfg \in Configs /\ st \in States
    BY DEF TypeOK
  <1>2. [st EXCEPT !.ClusterID = cfg.id, !.ClusterRole = cfg.role,
           !.CompletedPhases = goal] \in States
    <2>1. goal \in Phases
      BY DEF TypeOK
    <2>2. goal \in 0 .. N
      BY <2>1, PhasesAssumption
    <2>3. cfg.id \in Ids /\ cfg.role \in Roles
      BY <1>1, ConfigFields
    <2>. QED
      BY <1>1, <2>2, <2>3 DEF States
  <1>3. tryToPersistStatus([st EXCEPT !.ClusterID = cfg.id, !.ClusterRole = cfg.role,
           !.CompletedPhases = goal])
    BY DEF BeginStart
  <1>4. PICK s \in States : s = [st EXCEPT !.ClusterID = cfg.id, !.ClusterRole = cfg.role,
           !.CompletedPhases = goal] /\ tryToPersistStatus(s)
    BY <1>2, <1>3
  <1>5. /\ st'.ServiceState = s.ServiceState /\ st'.StartAttempts = s.StartAttempts
        /\ st'.ClusterID = s.ClusterID /\ st'.ClusterRole = s.ClusterRole
        /\ st'.CompletedPhases = s.CompletedPhases /\ st'.Operation = s.Operation
        /\ st'.KubeRunning = s.KubeRunning /\ st'.FailedStatusCheck = s.FailedStatusCheck
        /\ st'.StartFailStep = s.StartFailStep /\ file'.ServiceState = s.ServiceState
        /\ file'.ClusterID = s.ClusterID /\ file'.ClusterRole = s.ClusterRole
        /\ file'.CompletedPhases = s.CompletedPhases
    BY <1>1, <1>4, Persisted
  <1>. QED
    BY <1>1, <1>4, <1>5 DEF States

\* A started phase is counted.
LEMMA StartPhaseEffect ==
    ASSUME TypeOK, IndicesInRange, StartPhase
    PROVE  /\ st'.ServiceState = st.ServiceState /\ st'.StartAttempts = st.StartAttempts
           /\ st'.ClusterID = st.ClusterID /\ st'.ClusterRole = st.ClusterRole
           /\ st'.CompletedPhases = idx + 1 /\ st'.Operation = st.Operation
           /\ st'.KubeRunning = st.KubeRunning /\ st'.FailedStatusCheck = st.FailedStatusCheck
           /\ st'.StartFailStep = st.StartFailStep /\ file'.ServiceState = st.ServiceState
           /\ file'.ClusterID = st.ClusterID /\ file'.ClusterRole = st.ClusterRole
           /\ file'.CompletedPhases = idx + 1
  <1>1. cfg \in Configs /\ st \in States
    BY DEF TypeOK
  <1>2. [st EXCEPT !.CompletedPhases = idx + 1] \in States
    <2>1. idx \in -1 .. N /\ idx >= 0 /\ idx < NumPhases(cfg)
      BY DEF TypeOK, IndicesInRange, StartPhase
    <2>2. idx \in Phases /\ idx + 1 \in 0 .. N
      BY <1>1, <2>1, NumPhasesRange, PhasesAssumption
    <2>. QED
      BY <1>1, <2>2 DEF States
  <1>3. tryToPersistStatus([st EXCEPT !.CompletedPhases = idx + 1])
    BY DEF StartPhase
  <1>. QED
    BY <1>1, <1>2, <1>3, Persisted DEF States

\* The last started phase makes the service run.
LEMMA StartLastPhaseEffect ==
    ASSUME TypeOK, IndicesInRange, StartLastPhase
    PROVE  /\ st'.ServiceState = TRUE /\ st'.StartAttempts = 0 /\ st'.ClusterID = st.ClusterID
           /\ st'.ClusterRole = st.ClusterRole /\ st'.CompletedPhases = idx + 1
           /\ st'.Operation = st.Operation /\ st'.KubeRunning = st.KubeRunning
           /\ st'.FailedStatusCheck = st.FailedStatusCheck /\ st'.StartFailStep = -1
           /\ file'.ServiceState = TRUE /\ file'.ClusterID = st.ClusterID
           /\ file'.ClusterRole = st.ClusterRole /\ file'.CompletedPhases = idx + 1
  <1>1. cfg \in Configs /\ st \in States
    BY DEF TypeOK
  <1>2. [st EXCEPT !.CompletedPhases = idx + 1, !.StartAttempts = 0,
           !.ServiceState = TRUE, !.StartFailStep = -1] \in States
    <2>1. idx \in -1 .. N /\ idx >= 0 /\ idx < NumPhases(cfg)
      BY DEF TypeOK, IndicesInRange, StartLastPhase
    <2>2. idx \in Phases /\ idx + 1 \in 0 .. N
      BY <1>1, <2>1, NumPhasesRange, PhasesAssumption
    <2>. QED
      BY <1>1, <2>2 DEF States
  <1>3. tryToPersistStatus([st EXCEPT !.CompletedPhases = idx + 1, !.StartAttempts = 0,
           !.ServiceState = TRUE, !.StartFailStep = -1])
    BY DEF StartLastPhase
  <1>4. PICK s \in States : s = [st EXCEPT !.CompletedPhases = idx + 1, !.StartAttempts = 0,
           !.ServiceState = TRUE, !.StartFailStep = -1] /\ tryToPersistStatus(s)
    BY <1>2, <1>3
  <1>5. /\ st'.ServiceState = s.ServiceState /\ st'.StartAttempts = s.StartAttempts
        /\ st'.ClusterID = s.ClusterID /\ st'.ClusterRole = s.ClusterRole
        /\ st'.CompletedPhases = s.CompletedPhases /\ st'.Operation = s.Operation
        /\ st'.KubeRunning = s.KubeRunning /\ st'.FailedStatusCheck = s.FailedStatusCheck
        /\ st'.StartFailStep = s.StartFailStep /\ file'.ServiceState = s.ServiceState
        /\ file'.ClusterID = s.ClusterID /\ file'.ClusterRole = s.ClusterRole
        /\ file'.CompletedPhases = s.CompletedPhases
    BY <1>1, <1>4, Persisted
  <1>. QED
    BY <1>1, <1>4, <1>5 DEF States

\* A failed start is where the next loop resumes.
LEMMA StartPhaseFailsEffect ==
    ASSUME TypeOK, IndicesInRange, StartPhaseFails
    PROVE  /\ st'.ServiceState = FALSE /\ st'.StartAttempts = st.StartAttempts
           /\ st'.ClusterID = st.ClusterID /\ st'.ClusterRole = st.ClusterRole
           /\ st'.CompletedPhases = st.CompletedPhases /\ st'.Operation = st.Operation
           /\ st'.KubeRunning = st.KubeRunning /\ st'.FailedStatusCheck = st.FailedStatusCheck
           /\ st'.StartFailStep = idx /\ file'.ServiceState = FALSE /\ file'.ClusterID = st.ClusterID
           /\ file'.ClusterRole = st.ClusterRole /\ file'.CompletedPhases = st.CompletedPhases
  <1>1. cfg \in Configs /\ st \in States
    BY DEF TypeOK
  <1>2. [st EXCEPT !.ServiceState = FALSE, !.StartFailStep = idx] \in States
    <2>1. idx \in -1 .. N /\ idx >= 0 /\ idx < NumPhases(cfg)
      BY DEF TypeOK, IndicesInRange, StartPhaseFails
    <2>2. idx \in Phases /\ idx + 1 \in 0 .. N
      BY <1>1, <2>1, NumPhasesRange, PhasesAssumption
    <2>. QED
      BY <1>1, <2>2 DEF States
  <1>3. tryToPersistStatus([st EXCEPT !.ServiceState = FALSE, !.StartFailStep = idx])
    BY DEF StartPhaseFails
  <1>. QED
    BY <1>1, <1>2, <1>3, Persisted DEF States

\* The end of a loop writes what is in memory.
LEMMA ReconcileDoneEffect ==
    ASSUME TypeOK, IndicesInRange, ReconcileDone
    PROVE  /\ st'.ServiceState = st.ServiceState /\ st'.StartAttempts = st.StartAttempts
           /\ st'.ClusterID = st.ClusterID /\ st'.ClusterRole = st.ClusterRole
           /\ st'.CompletedPhases = st.CompletedPhases /\ st'.Operation = st.Operation
           /\ st'.KubeRunning = st.KubeRunning /\ st'.FailedStatusCheck = st.FailedStatusCheck
           /\ st'.StartFailStep = st.StartFailStep /\ file'.ServiceState = st.ServiceState
           /\ file'.ClusterID = st.ClusterID /\ file'.ClusterRole = st.ClusterRole
           /\ file'.CompletedPhases = st.CompletedPhases
  <1>1. cfg \in Configs /\ st \in States
    BY DEF TypeOK
  <1>2. st \in States
    BY <1>1
  <1>3. tryToPersistStatus(st)
    BY DEF ReconcileDone
  <1>. QED
    BY <1>1, <1>2, <1>3, Persisted DEF States

\* A new process keeps the recorded cluster and nothing else the proofs rest on.
LEMMA LaunchEffect ==
    ASSUME TypeOK, Launch
    PROVE  /\ cfg' \in Configs /\ (intact' => intact /\ cfg' = cfg)
           /\ st'.ServiceState = FALSE /\ st'.FailedStatusCheck = 0 /\ st'.StartFailStep = -1
           /\ st'.ClusterID = file.ClusterID /\ st'.ClusterRole = file.ClusterRole
           /\ file'.ServiceState = FALSE
           /\ file'.ClusterID = file.ClusterID /\ file'.ClusterRole = file.ClusterRole
  <1>1. file \in StoredStates
    BY DEF TypeOK
  <1>2. PICK c \in Configs :
          LET s == populateExtraFields(c, constructInitialCurrentState(file)) IN
          /\ cfg' = c
          /\ st' = IF c.id = "" THEN [s EXCEPT !.NodeState = "ok", !.StartAttempts = 0] ELSE s
          /\ file' = Stored(s)
          /\ intact' = (intact /\ c = cfg)
    BY DEF Launch
  <1>a. PICK i \in States : i = constructInitialCurrentState(file)
    BY <1>1, InitialState
  <1>b. PICK s \in States : s = populateExtraFields(c, i)
    BY PopulateKeeps
  <1>c. /\ i.ServiceState = FALSE /\ i.FailedStatusCheck = 0 /\ i.StartFailStep = -1
        /\ i.ClusterID = file.ClusterID /\ i.ClusterRole = file.ClusterRole
    BY <1>1, <1>a, InitialState
  <1>d. /\ s.ServiceState = i.ServiceState /\ s.FailedStatusCheck = i.FailedStatusCheck
        /\ s.StartFailStep = i.StartFailStep
        /\ s.ClusterID = i.ClusterID /\ s.ClusterRole = i.ClusterRole
    BY <1>b, PopulateKeeps
  <1>3. /\ s.ServiceState = FALSE /\ s.FailedStatusCheck = 0 /\ s.StartFailStep = -1
        /\ s.ClusterID = file.ClusterID /\ s.ClusterRole = file.ClusterRole
    BY <1>c, <1>d
  <1>4. /\ st' = IF c.id = "" THEN [s EXCEPT !.NodeState = "ok", !.StartAttempts = 0] ELSE s
        /\ file' = Stored(s)
    BY <1>2, <1>a, <1>b
  <1>5. /\ st'.ServiceState = s.ServiceState /\ st'.FailedStatusCheck = s.FailedStatusCheck
        /\ st'.StartFailStep = s.StartFailStep
        /\ st'.ClusterID = s.ClusterID /\ st'.ClusterRole = s.ClusterRole
    BY <1>4 DEF States
  <1>6. /\ file'.ServiceState = s.ServiceState
        /\ file'.ClusterID = s.ClusterID /\ file'.ClusterRole = s.ClusterRole
    BY <1>4 DEF Stored
  <1>. QED
    BY <1>2, <1>3, <1>5, <1>6

\* Status begins; an incomplete start is its failed check.
LEMMA StatusEffect ==
    ASSUME TypeOK, Status
    PROVE  /\ st'.ServiceState = st.ServiceState /\ st'.StartAttempts = st.StartAttempts
           /\ st'.ClusterID = st.ClusterID /\ st'.ClusterRole = st.ClusterRole
           /\ st'.CompletedPhases = st.CompletedPhases /\ st'.StartFailStep = st.StartFailStep
           /\ st'.Operation = "status" /\ st'.KubeRunning = FALSE
           /\ \/ /\ st.StartFailStep = -1 /\ st'.FailedStatusCheck = st.FailedStatusCheck
                 /\ pc' = "status" /\ file' = file
              \/ /\ st.StartFailStep # -1 /\ st'.FailedStatusCheck = st.StartFailStep
                 /\ pc' = "handle"
                 /\ file'.ServiceState = st.ServiceState /\ file'.ClusterID = st.ClusterID
                 /\ file'.ClusterRole = st.ClusterRole /\ file'.CompletedPhases = st.CompletedPhases
  <1>1. cfg \in Configs /\ st \in States
    BY DEF TypeOK
  <1>2. PICK s \in States :
          s = [st EXCEPT !.Operation = "status", !.KubeRunning = FALSE]
    BY <1>1 DEF States
  <1>3. /\ s.ServiceState = st.ServiceState /\ s.StartAttempts = st.StartAttempts
        /\ s.ClusterID = st.ClusterID /\ s.ClusterRole = st.ClusterRole
        /\ s.CompletedPhases = st.CompletedPhases /\ s.FailedStatusCheck = st.FailedStatusCheck
        /\ s.StartFailStep = st.StartFailStep
        /\ s.Operation = "status" /\ s.KubeRunning = FALSE
    BY <1>1, <1>2 DEF States
  <1>4. PICK q \in States : q = populateExtraFields(cfg, s)
    BY <1>1, PopulateKeeps
  <1>5. /\ q.ServiceState = s.ServiceState /\ q.StartAttempts = s.StartAttempts
        /\ q.ClusterID = s.ClusterID /\ q.ClusterRole = s.ClusterRole
        /\ q.CompletedPhases = s.CompletedPhases /\ q.Operation = s.Operation
        /\ q.KubeRunning = s.KubeRunning /\ q.FailedStatusCheck = s.FailedStatusCheck
        /\ q.StartFailStep = s.StartFailStep
    BY <1>1, <1>4, PopulateKeeps
  <1>6. CASE st.StartFailStep = -1
    <2>1. st' = s /\ pc' = "status" /\ file' = file
      BY <1>2, <1>6 DEF Status
    <2>. QED
      BY <1>3, <1>6, <2>1
  <1>7. CASE st.StartFailStep # -1
    <2>1. /\ st' = [q EXCEPT !.FailedStatusCheck = st.StartFailStep] /\ pc' = "handle"
          /\ file' = Stored(q)
      BY <1>2, <1>4, <1>7 DEF Status
    <2>2. /\ st'.ServiceState = q.ServiceState /\ st'.StartAttempts = q.StartAttempts
          /\ st'.ClusterID = q.ClusterID /\ st'.ClusterRole = q.ClusterRole
          /\ st'.CompletedPhases = q.CompletedPhases /\ st'.Operation = q.Operation
          /\ st'.KubeRunning = q.KubeRunning /\ st'.StartFailStep = q.StartFailStep
          /\ st'.FailedStatusCheck = st.StartFailStep
      BY <2>1 DEF States
    <2>3. /\ file'.ServiceState = q.ServiceState /\ file'.ClusterID = q.ClusterID
          /\ file'.ClusterRole = q.ClusterRole /\ file'.CompletedPhases = q.CompletedPhases
      BY <2>1 DEF Stored
    <2>. QED
      BY <1>3, <1>5, <1>7, <2>1, <2>2, <2>3
  <1>. QED
    BY <1>6, <1>7

\* All checks passed.
LEMMA StatusAllPassedEffect ==
    ASSUME TypeOK, StatusAllPassed
    PROVE  /\ st'.ServiceState = st.ServiceState /\ st'.StartAttempts = st.StartAttempts
           /\ st'.ClusterID = st.ClusterID /\ st'.ClusterRole = st.ClusterRole
           /\ st'.CompletedPhases = st.CompletedPhases /\ st'.Operation = st.Operation
           /\ st'.StartFailStep = st.StartFailStep /\ file'.ServiceState = st.ServiceState
           /\ file'.ClusterID = st.ClusterID /\ file'.ClusterRole = st.ClusterRole
           /\ file'.CompletedPhases = st.CompletedPhases
           /\ st'.KubeRunning = TRUE /\ st'.FailedStatusCheck = 0
  <1>1. cfg \in Configs /\ st \in States
    BY DEF TypeOK
  <1>2. PICK q \in States : q = populateExtraFields(cfg, st)
    BY <1>1, PopulateKeeps
  <1>3. /\ q.ServiceState = st.ServiceState /\ q.StartAttempts = st.StartAttempts
        /\ q.ClusterID = st.ClusterID /\ q.ClusterRole = st.ClusterRole
        /\ q.CompletedPhases = st.CompletedPhases /\ q.Operation = st.Operation
        /\ q.KubeRunning = st.KubeRunning /\ q.FailedStatusCheck = st.FailedStatusCheck
        /\ q.StartFailStep = st.StartFailStep
    BY <1>1, <1>2, PopulateKeeps
  <1>4. /\ st' = [q EXCEPT !.KubeRunning = TRUE, !.FailedStatusCheck = 0]
        /\ file' = Stored(q)
    BY <1>2 DEF StatusAllPassed
  <1>. QED
    BY <1>3, <1>4 DEF States, Stored

\* A check failed: tolerated, counted, or expected.
LEMMA StatusFailEffect ==
    ASSUME TypeOK, StatusFail
    PROVE  /\ st'.ServiceState = st.ServiceState /\ st'.StartAttempts = st.StartAttempts
           /\ st'.ClusterID = st.ClusterID /\ st'.ClusterRole = st.ClusterRole
           /\ st'.CompletedPhases = st.CompletedPhases /\ st'.Operation = st.Operation
           /\ st'.StartFailStep = st.StartFailStep /\ file'.ServiceState = st.ServiceState
           /\ file'.ClusterID = st.ClusterID /\ file'.ClusterRole = st.ClusterRole
           /\ file'.CompletedPhases = st.CompletedPhases
           /\ st'.FailedStatusCheck \in {0, idx}
           /\ st.ServiceState /\ ~st'.KubeRunning => age' >= Threshold
  <1>1. cfg \in Configs /\ st \in States
    BY DEF TypeOK
  <1>2. PICK q \in States : q = populateExtraFields(cfg, st)
    BY <1>1, PopulateKeeps
  <1>3. /\ q.ServiceState = st.ServiceState /\ q.StartAttempts = st.StartAttempts
        /\ q.ClusterID = st.ClusterID /\ q.ClusterRole = st.ClusterRole
        /\ q.CompletedPhases = st.CompletedPhases /\ q.Operation = st.Operation
        /\ q.KubeRunning = st.KubeRunning /\ q.FailedStatusCheck = st.FailedStatusCheck
        /\ q.StartFailStep = st.StartFailStep
    BY <1>1, <1>2, PopulateKeeps
  <1>4. /\ st' = failedStatus(q, idx) /\ file' = Stored(q)
        /\ age' = IF st.ServiceState THEN age ELSE 0
    BY <1>2 DEF StatusFail
  <1>5. \/ /\ q.ServiceState /\ age < Threshold
           /\ st' = [q EXCEPT !.KubeRunning = TRUE, !.FailedStatusCheck = 0]
        \/ /\ ~(q.ServiceState /\ age < Threshold)
           /\ st' = [q EXCEPT !.FailedStatusCheck = IF q.ServiceState THEN idx ELSE 0]
    BY <1>4 DEF failedStatus
  <1>6. /\ st'.ServiceState = q.ServiceState /\ st'.StartAttempts = q.StartAttempts
        /\ st'.ClusterID = q.ClusterID /\ st'.ClusterRole = q.ClusterRole
        /\ st'.CompletedPhases = q.CompletedPhases /\ st'.Operation = q.Operation
        /\ st'.StartFailStep = q.StartFailStep
        /\ st'.FailedStatusCheck \in {0, idx}
        /\ st'.KubeRunning \/ ~(q.ServiceState /\ age < Threshold)
    BY <1>5 DEF States
  <1>7. age \in Int /\ Threshold \in Int
    <2>1. age \in 0 .. Threshold
      BY DEF TypeOK
    <2>. QED
      BY <2>1, ThresholdAssumption
  <1>8. st.ServiceState /\ ~st'.KubeRunning => age' >= Threshold
    BY <1>3, <1>4, <1>6, <1>7
  <1>. QED
    BY <1>3, <1>4, <1>6, <1>8 DEF Stored

\* Stop, however it ends, reports the service as down.
LEMMA StopTailEffect ==
    ASSUME TypeOK, StopPhaseFails \/ StopReturns
    PROVE  /\ st'.ServiceState = FALSE /\ st'.Operation = st.Operation
           /\ st'.KubeRunning = st.KubeRunning /\ st'.FailedStatusCheck = st.FailedStatusCheck
           /\ st'.StartFailStep = st.StartFailStep /\ file'.ServiceState = FALSE
  <1>1. cfg \in Configs /\ st \in States /\ goal \in Phases
    BY DEF TypeOK
  <1>2. goal \in 0 .. N /\ 0 \in 0 .. N
    BY <1>1, PhasesAssumption
  <1>3. "" \in Ids
    BY ConfigsAssumption
  <1>4. PICK s \in States : s = stopState(st) /\ tryToPersistStatus(s)
    <2>1. stopState(st) \in States
      BY <1>1, <1>2, <1>3 DEF stopState, States
    <2>. QED
      BY <2>1 DEF StopPhaseFails, StopReturns
  <1>5. /\ s.ServiceState = FALSE /\ s.Operation = st.Operation
        /\ s.KubeRunning = st.KubeRunning /\ s.FailedStatusCheck = st.FailedStatusCheck
        /\ s.StartFailStep = st.StartFailStep
    BY <1>1, <1>4 DEF stopState, States
  <1>. QED
    BY <1>1, <1>4, <1>5, Persisted

\* The three steps that change the state in memory only.
LEMMA RestartEffect ==
    ASSUME TypeOK, Restart
    PROVE  /\ st'.ServiceState = st.ServiceState /\ st'.ClusterID = st.ClusterID
           /\ st'.ClusterRole = st.ClusterRole /\ st'.CompletedPhases = st.CompletedPhases
           /\ st'.KubeRunning = st.KubeRunning /\ st'.FailedStatusCheck = st.FailedStatusCheck
           /\ st'.StartFailStep = st.StartFailStep
           /\ st'.Operation = "start" /\ st'.StartAttempts = NextAttempt(st.StartAttempts)
           /\ \/ goal' = 0 /\ NextAttempt(st.StartAttempts) % FullRetryCount = 0
              \/ goal' = st.FailedStatusCheck
  <1>1. st \in States
    BY DEF TypeOK
  <1>2. st' = [st EXCEPT !.Operation = "start", !.StartAttempts = NextAttempt(@)]
    BY DEF Restart
  <1>3. \/ goal' = 0 /\ NextAttempt(st.StartAttempts) % FullRetryCount = 0
        \/ goal' = st.FailedStatusCheck
    BY DEF Restart, failedCheck
  <1>. QED
    BY <1>1, <1>2, <1>3 DEF States

LEMMA StopStateEffect ==
    ASSUME TypeOK, handleServiceStopState
    PROVE  /\ st'.ServiceState = st.ServiceState /\ st'.StartAttempts = st.StartAttempts
           /\ st'.ClusterID = st.ClusterID /\ st'.ClusterRole = st.ClusterRole
           /\ st'.CompletedPhases = st.CompletedPhases /\ st'.KubeRunning = st.KubeRunning
           /\ st'.FailedStatusCheck = st.FailedStatusCheck /\ st'.StartFailStep = st.StartFailStep
           /\ st'.Operation = "stop"
           /\ \/ pc' = "stop" /\ idx' = NumPhases(cfg) - 1 /\ goal' = 0
              \/ pc' = "end" /\ idx' = idx /\ goal' = goal
  <1>1. st \in States
    BY DEF TypeOK
  <1>. QED
    BY <1>1 DEF handleServiceStopState, States

LEMMA ServiceStoppedEffect ==
    ASSUME TypeOK, ServiceStopped
    PROVE  /\ st'.ServiceState = st.ServiceState /\ st'.StartAttempts = st.StartAttempts
           /\ st'.ClusterID = st.ClusterID /\ st'.ClusterRole = st.ClusterRole
           /\ st'.CompletedPhases = st.CompletedPhases /\ st'.Operation = st.Operation
           /\ st'.KubeRunning = st.KubeRunning /\ st'.FailedStatusCheck = st.FailedStatusCheck
           /\ st'.StartFailStep = -1
  <1>1. st \in States
    BY DEF TypeOK
  <1>. QED
    BY <1>1 DEF ServiceStopped, States

-----------------------------------------------------------------------------
(* The indices *)

LEMMA Indices ==
    ASSUME TypeOK
    PROVE  /\ NumPhases(cfg) \in Nat \ {0} /\ idx \in Int /\ goal \in Nat
           /\ st.FailedStatusCheck \in Nat /\ st.StartFailStep \in Int
  <1>1. cfg \in Configs /\ st \in States /\ idx \in -1 .. N /\ goal \in Phases
    BY DEF TypeOK
  <1>2. st.FailedStatusCheck \in Phases /\ st.StartFailStep \in Phases \cup {-1}
    BY <1>1 DEF States
  <1>. QED
    BY <1>1, <1>2, NumPhasesRange, PhasesAssumption

LEMMA IndicesStep == TypeOK /\ IndicesInRange /\ [Next]_vars => IndicesInRange'
  <1>. SUFFICES ASSUME TypeOK, IndicesInRange, [Next]_vars, pc' # "off"
                PROVE  /\ goal' < NumPhases(cfg')
                       /\ st'.FailedStatusCheck < NumPhases(cfg') /\ st'.StartFailStep < NumPhases(cfg')
                       /\ idx' <= NumPhases(cfg')
                       /\ pc' \in {"stop", "start"} => idx' < NumPhases(cfg')
    BY DEF IndicesInRange, NumPhases
  <1>a. /\ NumPhases(cfg) \in Nat \ {0} /\ idx \in Int /\ goal \in Nat
        /\ st.FailedStatusCheck \in Nat /\ st.StartFailStep \in Int
    BY Indices
  <1>1. CASE Launch
    <2>1. NumPhases(cfg') \in Nat \ {0}
      BY <1>1, LaunchEffect, NumPhasesRange, PhasesAssumption
    <2>2. /\ goal' = 0 /\ idx' = 0 /\ pc' = "idle"
          /\ st'.FailedStatusCheck = 0 /\ st'.StartFailStep = -1
      BY <1>1, LaunchEffect DEF Launch
    <2>. QED
      BY <2>1, <2>2
  <1>2. CASE Status
    BY <1>2, <1>a, StatusEffect DEF Status, IndicesInRange
  <1>3. CASE StatusPass
    BY <1>3, <1>a DEF StatusPass, IndicesInRange
  <1>4. CASE StatusAllPassed
    BY <1>4, <1>a, StatusAllPassedEffect DEF StatusAllPassed, IndicesInRange
  <1>5. CASE StatusFail
    <2>1. /\ goal' = goal /\ idx' = idx /\ cfg' = cfg /\ pc' = "handle"
          /\ st'.FailedStatusCheck \in {0, idx} /\ st'.StartFailStep = st.StartFailStep
          /\ idx < NumPhases(cfg) /\ pc = "status"
      BY <1>5, StatusFailEffect DEF StatusFail
    <2>. QED
      BY <1>a, <2>1 DEF IndicesInRange
  <1>6. CASE AlreadyRunning
    <2>1. /\ goal' = goal /\ idx' = idx /\ cfg' = cfg /\ pc' = "end" /\ pc = "handle"
          /\ st'.FailedStatusCheck = st.FailedStatusCheck /\ st'.StartFailStep = -1
      BY <1>6, AlreadyRunningEffect DEF AlreadyRunning
    <2>. QED
      BY <1>a, <2>1 DEF IndicesInRange
  <1>7. CASE Restart
    <2>1. /\ idx' = NumPhases(cfg) - 1 /\ cfg' = cfg /\ pc = "handle"
          /\ goal' = 0 \/ goal' = st.FailedStatusCheck
          /\ st'.FailedStatusCheck = st.FailedStatusCheck /\ st'.StartFailStep = st.StartFailStep
      BY <1>7, RestartEffect DEF Restart
    <2>. QED
      BY <1>a, <2>1 DEF IndicesInRange
  <1>8. CASE handleServiceStopState
    <2>1. /\ cfg' = cfg /\ pc = "handle"
          /\ st'.FailedStatusCheck = st.FailedStatusCheck /\ st'.StartFailStep = st.StartFailStep
          /\ \/ pc' = "stop" /\ idx' = NumPhases(cfg) - 1 /\ goal' = 0
             \/ pc' = "end" /\ idx' = idx /\ goal' = goal
      BY <1>8, StopStateEffect DEF handleServiceStopState
    <2>. QED
      BY <1>a, <2>1 DEF IndicesInRange
  <1>9. CASE IgnoreState \/ StopSkipsGenCerts \/ StopPhase
    BY <1>9, <1>a DEF IgnoreState, StopSkipsGenCerts, StopPhase, IndicesInRange
  <1>10. CASE StopPhaseFails \/ StopReturns
    BY <1>10, <1>a, StopTailEffect DEF StopPhaseFails, StopReturns, IndicesInRange
  <1>11. CASE ServiceStopped
    <2>1. /\ goal' = goal /\ idx' = idx /\ cfg' = cfg /\ pc' = "end" /\ pc = "stopped"
          /\ st'.FailedStatusCheck = st.FailedStatusCheck /\ st'.StartFailStep = -1
      BY <1>11, ServiceStoppedEffect DEF ServiceStopped
    <2>. QED
      BY <1>a, <2>1 DEF IndicesInRange
  <1>12. CASE BeginStart
    BY <1>12, <1>a, BeginStartEffect DEF BeginStart, IndicesInRange
  <1>13. CASE StartPhase
    BY <1>13, <1>a, StartPhaseEffect DEF StartPhase, IndicesInRange
  <1>14. CASE StartLastPhase
    <2>1. /\ goal' = goal /\ idx' = idx /\ cfg' = cfg /\ pc' = "end" /\ pc = "start"
          /\ st'.FailedStatusCheck = st.FailedStatusCheck /\ st'.StartFailStep = -1
      BY <1>14, StartLastPhaseEffect DEF StartLastPhase
    <2>. QED
      BY <1>a, <2>1 DEF IndicesInRange
  <1>15. CASE StartPhaseFails
    BY <1>15, <1>a, StartPhaseFailsEffect DEF StartPhaseFails, IndicesInRange
  <1>16. CASE ReconcileDone
    BY <1>16, <1>a, ReconcileDoneEffect DEF ReconcileDone, IndicesInRange
  <1>17. CASE Tick \/ PhaseDies \/ Crash \/ CrashInWrite \/ BecomeCalm \/ UNCHANGED vars
    BY <1>17, <1>a DEF Tick, PhaseDies, Crash, CrashInWrite, BecomeCalm, vars, proc, IndicesInRange
  <1>. QED
    BY <1>1, <1>2, <1>3, <1>4, <1>5, <1>6, <1>7, <1>8, <1>9, <1>10, <1>11, <1>12, <1>13, <1>14,
       <1>15, <1>16, <1>17 DEF Next, Reconcile

-----------------------------------------------------------------------------
(* The safety properties *)

LEMMA StopsStep ==
    TypeOK /\ IndicesInRange /\ StopsFromTheTop /\ [Next]_vars => StopsFromTheTop'
  <1>. SUFFICES ASSUME TypeOK, IndicesInRange, StopsFromTheTop, [Next]_vars,
                       pc' = "stop", cfg'.role # "none", NEW j \in up'
                PROVE  j <= idx'
    BY DEF StopsFromTheTop
  <1>a. idx \in Int /\ N \in Nat \ {0}
    BY Indices, PhasesAssumption
  <1>b. up \subseteq Phases
    BY DEF TypeOK
  <1>1. CASE Restart \/ handleServiceStopState
    <2>1. idx' = NumPhases(cfg) - 1 /\ up' = up /\ cfg' = cfg
      BY <1>1, StopStateEffect DEF Restart, handleServiceStopState, host
    <2>2. NumPhases(cfg) = N
      BY <2>1 DEF NumPhases
    <2>3. j \in Phases
      BY <1>b, <2>1
    <2>. QED
      BY <1>a, <2>1, <2>2, <2>3
  <1>2. CASE StopPhase
    <2>1. cfg' = cfg /\ pc = "stop" /\ idx' = idx - 1 /\ up' = up \ {idx}
      BY <1>2 DEF StopPhase, PhaseStopOk
    <2>2. j \in Int /\ j <= idx /\ j # idx
      BY <1>a, <1>b, <2>1 DEF StopsFromTheTop
    <2>. QED
      BY <1>a, <2>1, <2>2
  <1>3. CASE Tick \/ PhaseDies \/ BecomeCalm \/ UNCHANGED vars
    BY <1>3 DEF Tick, PhaseDies, BecomeCalm, vars, proc, host, StopsFromTheTop
  <1>4. pc' # "stop" \/ Restart \/ handleServiceStopState \/ StopPhase
        \/ Tick \/ PhaseDies \/ BecomeCalm \/ UNCHANGED vars
    BY DEF Next, Reconcile, Launch, Status, StatusPass, StatusAllPassed, StatusFail,
       AlreadyRunning, IgnoreState, StopSkipsGenCerts, StopPhaseFails, StopReturns,
       ServiceStopped, BeginStart, StartPhase, StartLastPhase, StartPhaseFails, ReconcileDone,
       Crash, CrashInWrite
  <1>. QED
    BY <1>1, <1>2, <1>3, <1>4

LEMMA ServesStep ==
    TypeOK /\ IndicesInRange /\ ServesInv /\ ReportInv /\ [Next]_vars => ServesInv'
  <1>. SUFFICES ASSUME TypeOK, IndicesInRange, ServesInv, ReportInv, [Next]_vars
                PROVE  ServesInv'
    OBVIOUS
  <1>. USE DEF ServesInv, ServesItsCluster, Matches, Identity
  <1>1. CASE Launch
    BY <1>1, LaunchEffect DEF Launch
  <1>2. CASE Status
    BY <1>2, StatusEffect DEF Status
  <1>3. CASE StatusAllPassed
    BY <1>3, StatusAllPassedEffect DEF StatusAllPassed
  <1>4. CASE StatusFail
    BY <1>4, StatusFailEffect DEF StatusFail
  <1>5. CASE AlreadyRunning
    BY <1>5, AlreadyRunningEffect DEF AlreadyRunning
  <1>6. CASE Restart
    BY <1>6, RestartEffect DEF Restart
  <1>7. CASE handleServiceStopState
    BY <1>7, StopStateEffect DEF handleServiceStopState
  <1>8. CASE StopPhaseFails \/ StopReturns
    BY <1>8, StopTailEffect DEF StopPhaseFails, StopReturns
  <1>9. CASE ServiceStopped
    BY <1>9, ServiceStoppedEffect DEF ServiceStopped
  <1>10. CASE BeginStart
    BY <1>10, BeginStartEffect DEF BeginStart
  <1>11. CASE StartPhase
    BY <1>11, StartPhaseEffect DEF StartPhase
  <1>12. CASE StartLastPhase
    BY <1>12, StartLastPhaseEffect DEF StartLastPhase
  <1>13. CASE StartPhaseFails
    BY <1>13, StartPhaseFailsEffect DEF StartPhaseFails
  <1>14. CASE ReconcileDone
    BY <1>14, ReconcileDoneEffect DEF ReconcileDone
  <1>15. CASE StatusPass \/ IgnoreState \/ StopSkipsGenCerts \/ StopPhase
    BY <1>15 DEF StatusPass, IgnoreState, StopSkipsGenCerts, StopPhase
  <1>16. CASE Tick \/ PhaseDies \/ Crash \/ CrashInWrite \/ BecomeCalm \/ UNCHANGED vars
    BY <1>16 DEF Tick, PhaseDies, Crash, CrashInWrite, BecomeCalm, vars, proc
  <1>. QED
    BY <1>1, <1>2, <1>3, <1>4, <1>5, <1>6, <1>7, <1>8, <1>9, <1>10, <1>11, <1>12, <1>13, <1>14,
       <1>15, <1>16 DEF Next, Reconcile

\* The first attempt after a running service is never a full restart.
LEMMA FirstAttempt == NextAttempt(0) = 1 /\ 1 % FullRetryCount # 0
  <1>1. FullRetryCount \in Nat /\ FullRetryCount > 1 /\ NumRetriesForErrorState \in Nat
    BY RetryAssumption
  <1>2. 1 % FullRetryCount = 1
    BY <1>1
  <1>. QED
    BY <1>1, <1>2 DEF NextAttempt

LEMMA ReportStep ==
    TypeOK /\ IndicesInRange /\ ReportInv /\ [Next]_vars => ReportInv'
  <1>. SUFFICES ASSUME TypeOK, IndicesInRange, ReportInv, [Next]_vars
                PROVE  ReportInv'
    OBVIOUS
  <1>a. /\ NumPhases(cfg) \in Nat \ {0} /\ idx \in Int /\ goal \in Nat
        /\ st.FailedStatusCheck \in Nat /\ st.StartFailStep \in Int
    BY Indices
  <1>. USE DEF ReportInv, ReportIsConsistent, Restarting, NumPhases
  <1>1. CASE Launch
    BY <1>1, LaunchEffect DEF Launch
  <1>2. CASE Status
    BY <1>2, StatusEffect DEF Status
  <1>3. CASE StatusAllPassed
    BY <1>3, StatusAllPassedEffect DEF StatusAllPassed
  <1>4. CASE StatusFail
    BY <1>4, StatusFailEffect DEF StatusFail
  <1>5. CASE AlreadyRunning
    BY <1>5, AlreadyRunningEffect DEF AlreadyRunning
  <1>6. CASE Restart
    BY <1>6, RestartEffect, FirstAttempt DEF Restart
  <1>7. CASE handleServiceStopState
    BY <1>7, StopStateEffect DEF handleServiceStopState
  <1>8. CASE StopSkipsGenCerts
    <2>1. Restarting /\ st.FailedStatusCheck # 0 /\ goal = 0
      BY <1>8, <1>a DEF StopSkipsGenCerts, SkipsGenCerts
    <2>2. ~st.ServiceState
      BY <1>8, <2>1 DEF StopSkipsGenCerts
    <2>. QED
      BY <1>8, <2>2 DEF StopSkipsGenCerts
  <1>9. CASE StopPhaseFails \/ StopReturns
    BY <1>9, StopTailEffect DEF StopPhaseFails, StopReturns
  <1>10. CASE ServiceStopped
    BY <1>10, ServiceStoppedEffect DEF ServiceStopped
  <1>11. CASE BeginStart
    BY <1>11, BeginStartEffect DEF BeginStart
  <1>12. CASE StartPhase
    BY <1>12, StartPhaseEffect DEF StartPhase
  <1>13. CASE StartLastPhase
    BY <1>13, StartLastPhaseEffect DEF StartLastPhase
  <1>14. CASE StartPhaseFails
    BY <1>14, StartPhaseFailsEffect DEF StartPhaseFails
  <1>15. CASE ReconcileDone
    BY <1>15, ReconcileDoneEffect DEF ReconcileDone
  <1>16. CASE StatusPass \/ IgnoreState \/ StopPhase
    BY <1>16 DEF StatusPass, IgnoreState, StopPhase
  <1>17. CASE Tick \/ PhaseDies \/ Crash \/ BecomeCalm \/ UNCHANGED vars
    BY <1>17 DEF Tick, PhaseDies, Crash, BecomeCalm, vars, proc
  <1>18. CASE CrashInWrite
    BY <1>18 DEF CrashInWrite, NoFile
  <1>. QED
    BY <1>1, <1>2, <1>3, <1>4, <1>5, <1>6, <1>7, <1>8, <1>9, <1>10, <1>11, <1>12, <1>13, <1>14,
       <1>15, <1>16, <1>17, <1>18 DEF Next, Reconcile

LEMMA TolerateStep ==
    TypeOK /\ IndicesInRange /\ ReportInv /\ ServesInv /\ TolerateInv /\ [Next]_vars => TolerateInv'
  <1>. SUFFICES ASSUME TypeOK, IndicesInRange, ReportInv, ServesInv, TolerateInv, [Next]_vars,
                       pc' # "off", st'.ServiceState,
                       Restarting' \/ (pc' = "handle" /\ ~st'.KubeRunning)
                PROVE  age' >= Threshold
    BY DEF TolerateInv
  <1>a. age \in Int /\ Threshold \in Int
    <2>1. age \in 0 .. Threshold
      BY DEF TypeOK
    <2>. QED
      BY <2>1, ThresholdAssumption
  <1>. USE DEF TolerateInv, Restarting
  <1>2. CASE Status
    BY <1>2, StatusEffect DEF Status, ReportInv
  <1>3. CASE StatusAllPassed
    BY <1>3, StatusAllPassedEffect DEF StatusAllPassed
  <1>4. CASE StatusFail
    BY <1>4, StatusFailEffect DEF StatusFail
  <1>5. CASE Restart
    <2>1. st.ServiceState /\ pc = "handle" /\ age' = age /\ ~(st.KubeRunning /\ Matches)
      BY <1>5, RestartEffect DEF Restart
    <2>2. ~st.KubeRunning
      BY <2>1 DEF ServesInv, ServesItsCluster, Matches
    <2>. QED
      BY <2>1, <2>2
  <1>6. CASE handleServiceStopState
    BY <1>6, StopStateEffect DEF handleServiceStopState
  <1>7. CASE StopPhaseFails \/ StopReturns
    BY <1>7, StopTailEffect DEF StopPhaseFails, StopReturns
  <1>8. CASE StopPhase \/ StopSkipsGenCerts \/ PhaseDies \/ BecomeCalm \/ UNCHANGED vars
    BY <1>8 DEF StopPhase, StopSkipsGenCerts, PhaseDies, BecomeCalm, vars, proc
  <1>9. CASE Tick
    BY <1>9, <1>a DEF Tick
  <1>10. pc' \notin {"stop", "stopped", "handle"} \/ Status \/ StatusAllPassed \/ StatusFail
         \/ Restart \/ handleServiceStopState \/ StopPhaseFails \/ StopReturns \/ StopPhase
         \/ StopSkipsGenCerts \/ PhaseDies \/ BecomeCalm \/ Tick \/ UNCHANGED vars
    BY DEF Next, Reconcile, Launch, StatusPass, AlreadyRunning, IgnoreState, ServiceStopped,
       BeginStart, StartPhase, StartLastPhase, StartPhaseFails, ReconcileDone, Crash, CrashInWrite
  <1>. QED
    BY <1>2, <1>3, <1>4, <1>5, <1>6, <1>7, <1>8, <1>9, <1>10

LEMMA ReadyStep ==
    TypeOK /\ IndicesInRange /\ ReadyInv /\ [Next]_vars => ReadyInv'
  <1>. SUFFICES ASSUME TypeOK, IndicesInRange, ReadyInv, [Next]_vars, cfg'.role # "none"
                PROVE  ReadyInv'
    BY DEF ReadyInv
  <1>a. /\ NumPhases(cfg) \in Nat \ {0} /\ idx \in Int /\ goal \in Nat
        /\ st.FailedStatusCheck \in Nat /\ st.StartFailStep \in Int
    BY Indices
  <1>b. hist \in [Phases -> {"none", "ran", "seen"}] /\ N \in Nat \ {0}
    BY PhasesAssumption DEF TypeOK
  <1>. USE DEF ReadyInv, Restarting, ReadyBelow
  <1>1. CASE Launch
    <2>1. pc' = "idle" /\ idx' = 0 /\ st'.StartFailStep = -1
      BY <1>1, LaunchEffect DEF Launch
    <2>. QED
      BY <1>b, <2>1
  <1>2. CASE Status
    <2>1. /\ pc = "idle" /\ cfg' = cfg /\ hist' = hist /\ idx' = idx
          /\ st'.StartFailStep = st.StartFailStep
          /\ \/ st.StartFailStep = -1 /\ pc' = "status"
             \/ st'.FailedStatusCheck = st.StartFailStep /\ pc' = "handle"
      BY <1>2, StatusEffect DEF Status
    <2>. QED
      BY <1>a, <1>b, <2>1
  <1>3. CASE StatusPass
    <2>1. /\ pc = "status" /\ pc' = "status" /\ cfg' = cfg /\ idx' = idx + 1 /\ st' = st
          /\ hist' = Seen(idx)
      BY <1>3 DEF StatusPass
    <2>2. \A j \in Phases : j = idx \/ hist[j] # "none" => hist'[j] # "none"
      BY <1>b, <2>1 DEF Seen
    <2>. QED
      BY <1>a, <1>b, <2>1, <2>2
  <1>4. CASE StatusAllPassed
    <2>1. /\ pc = "status" /\ pc' = "handle" /\ cfg' = cfg
          /\ st'.FailedStatusCheck = 0 /\ st'.StartFailStep = st.StartFailStep
      BY <1>4, StatusAllPassedEffect DEF StatusAllPassed
    <2>. QED
      BY <1>a, <1>b, <2>1
  <1>5. CASE StatusFail
    <2>1. /\ pc = "status" /\ pc' = "handle" /\ cfg' = cfg
          /\ st'.FailedStatusCheck \in {0, idx} /\ st'.StartFailStep = st.StartFailStep
          /\ hist' = [hist EXCEPT ![idx] = "none"]
      BY <1>5, StatusFailEffect DEF StatusFail
    <2>. QED
      BY <1>a, <1>b, <2>1
  <1>6. CASE AlreadyRunning
    <2>1. pc' = "end" /\ cfg' = cfg /\ st'.StartFailStep = -1
      BY <1>6, AlreadyRunningEffect DEF AlreadyRunning
    <2>. QED
      BY <1>b, <2>1
  <1>7. CASE Restart
    <2>1. /\ pc = "handle" /\ pc' = "stop" /\ cfg' = cfg /\ hist' = hist
          /\ goal' = 0 \/ goal' = st.FailedStatusCheck
      BY <1>7, RestartEffect DEF Restart
    <2>. QED
      BY <1>a, <1>b, <2>1
  <1>8. CASE handleServiceStopState
    <2>1. /\ pc = "handle" /\ pc' \in {"stop", "end"} /\ cfg' = cfg /\ hist' = hist
          /\ st'.Operation = "stop" /\ st'.StartFailStep = st.StartFailStep
      BY <1>8, StopStateEffect DEF handleServiceStopState
    <2>. QED
      BY <1>a, <1>b, <2>1
  <1>9. CASE IgnoreState \/ StopSkipsGenCerts
    <2>1. /\ cfg' = cfg /\ hist' = hist /\ st' = st /\ goal' = goal
          /\ (pc = "handle" /\ pc' = "end") \/ (pc = "stop" /\ pc' = "stopped")
      BY <1>9 DEF IgnoreState, StopSkipsGenCerts
    <2>. QED
      BY <1>a, <1>b, <2>1
  <1>10. CASE StopPhase \/ StopPhaseFails
    <2>1. /\ pc = "stop" /\ cfg' = cfg /\ goal' = goal /\ idx >= goal
          /\ pc' \in {"stop", "stopped"} /\ st'.Operation = st.Operation
      BY <1>10, StopTailEffect DEF StopPhase, StopPhaseFails
    <2>2. hist' = [hist EXCEPT ![idx] = "none"]
      BY <1>10, <2>1 DEF StopPhase, StopPhaseFails, PhaseStopOk, PhaseStopFail
    <2>. QED
      BY <1>a, <1>b, <2>1, <2>2
  <1>11. CASE StopReturns
    <2>1. /\ pc = "stop" /\ pc' = "stopped" /\ cfg' = cfg /\ hist' = hist /\ goal' = goal
          /\ st'.Operation = st.Operation
      BY <1>11, StopTailEffect DEF StopReturns
    <2>. QED
      BY <1>b, <2>1
  <1>12. CASE ServiceStopped
    <2>1. pc' = "end" /\ cfg' = cfg /\ st'.StartFailStep = -1
      BY <1>12, ServiceStoppedEffect DEF ServiceStopped
    <2>. QED
      BY <1>b, <2>1
  <1>13. CASE BeginStart
    <2>1. Restarting /\ pc' = "start" /\ cfg' = cfg /\ hist' = hist /\ idx' = goal
      BY <1>13 DEF BeginStart
    <2>. QED
      BY <1>a, <1>b, <2>1
  <1>14. CASE StartPhase
    <2>1. /\ pc = "start" /\ pc' = "start" /\ cfg' = cfg /\ idx' = idx + 1
          /\ hist' = [hist EXCEPT ![idx] = "ran"]
      BY <1>14 DEF StartPhase, PhaseStartOk
    <2>. QED
      BY <1>a, <1>b, <2>1
  <1>15. CASE StartLastPhase
    <2>1. pc' = "end" /\ cfg' = cfg /\ st'.StartFailStep = -1
      BY <1>15, StartLastPhaseEffect DEF StartLastPhase
    <2>. QED
      BY <1>b, <2>1
  <1>16. CASE StartPhaseFails
    <2>1. /\ pc = "start" /\ pc' = "end" /\ cfg' = cfg /\ st'.StartFailStep = idx
          /\ hist' = [hist EXCEPT ![idx] = "none"]
      BY <1>16, StartPhaseFailsEffect DEF StartPhaseFails, PhaseStartFail
    <2>. QED
      BY <1>a, <1>b, <2>1
  <1>17. CASE ReconcileDone
    <2>1. /\ pc = "end" /\ pc' = "idle" /\ cfg' = cfg /\ hist' = hist /\ idx' = 0
          /\ st'.StartFailStep = st.StartFailStep
      BY <1>17, ReconcileDoneEffect DEF ReconcileDone
    <2>. QED
      BY <1>a, <1>b, <2>1
  <1>18. CASE Tick \/ PhaseDies \/ BecomeCalm \/ UNCHANGED vars
    BY <1>18 DEF Tick, PhaseDies, BecomeCalm, vars, proc
  <1>19. CASE Crash \/ CrashInWrite
    BY <1>19 DEF Crash, CrashInWrite
  <1>. QED
    BY <1>1, <1>2, <1>3, <1>4, <1>5, <1>6, <1>7, <1>8, <1>9, <1>10, <1>11, <1>12, <1>13, <1>14,
       <1>15, <1>16, <1>17, <1>18, <1>19 DEF Next, Reconcile

LEMMA HealthyKept ==
    ASSUME up' = up, certs' = certs, cfg' = cfg
    PROVE  Healthy' = Healthy
  BY DEF Healthy, Fit, Identity

LEMMA IntactStep ==
    TypeOK /\ IndicesInRange /\ ServesInv /\ IntactInv /\ [Next]_vars => IntactInv'
  <1>. SUFFICES ASSUME TypeOK, IndicesInRange, ServesInv, IntactInv, [Next]_vars
                PROVE  IntactInv'
    OBVIOUS
  <1>. USE DEF IntactInv, Restarting, Matches, Identity
  <1>1. CASE Launch
    <2>1. /\ pc = "off" /\ pc' = "idle" /\ up' = up /\ certs' = certs
      BY <1>1 DEF Launch, host
    <2>2. CASE intact'
      <3>1. intact /\ cfg' = cfg
        BY <1>1, <2>2, LaunchEffect
      <3>. QED
        BY <1>1, <2>1, <3>1, HealthyKept, LaunchEffect
    <2>. QED
      BY <2>1, <2>2
  <1>2. CASE Status
    <2>1. Healthy' = Healthy
      BY <1>2, HealthyKept DEF Status, host
    <2>. QED
      BY <1>2, <2>1, StatusEffect DEF Status
  <1>3. CASE StatusPass
    <2>1. Healthy' = Healthy
      BY <1>3, HealthyKept DEF StatusPass, host
    <2>. QED
      BY <1>3, <2>1 DEF StatusPass
  <1>4. CASE StatusAllPassed
    <2>1. Healthy' = Healthy
      BY <1>4, HealthyKept DEF StatusAllPassed, host
    <2>. QED
      BY <1>4, <2>1, StatusAllPassedEffect DEF StatusAllPassed
  <1>5. CASE StatusFail
    BY <1>5 DEF StatusFail
  <1>6. CASE AlreadyRunning
    <2>1. Healthy' = Healthy
      BY <1>6, HealthyKept DEF AlreadyRunning, host
    <2>. QED
      BY <1>6, <2>1, AlreadyRunningEffect DEF AlreadyRunning
  <1>7. CASE Restart
    BY <1>7 DEF Restart
  <1>8. CASE handleServiceStopState
    <2>1. ~intact /\ ~intact'
      BY <1>8 DEF handleServiceStopState
    <2>. QED
      BY <1>8, <2>1, StopStateEffect DEF handleServiceStopState
  <1>9. CASE IgnoreState
    BY <1>9 DEF IgnoreState
  <1>10. CASE StopSkipsGenCerts
    BY <1>10 DEF StopSkipsGenCerts
  <1>11. CASE StopPhase
    BY <1>11 DEF StopPhase
  <1>12. CASE StopPhaseFails \/ StopReturns
    <2>1. /\ pc = "stop" /\ pc' = "stopped" /\ cfg' = cfg
          /\ intact' = FALSE \/ intact' = intact
      BY <1>12 DEF StopPhaseFails, StopReturns
    <2>2. ~intact'
      BY <2>1
    <2>3. st'.Operation = st.Operation
      BY <1>12, StopTailEffect
    <2>. QED
      BY <2>1, <2>2, <2>3
  <1>13. CASE ServiceStopped
    BY <1>13 DEF ServiceStopped
  <1>14. CASE BeginStart
    BY <1>14 DEF BeginStart
  <1>15. CASE StartPhase
    BY <1>15 DEF StartPhase
  <1>16. CASE StartLastPhase
    <2>1. pc = "start" /\ pc' = "end" /\ cfg' = cfg /\ intact' = Healthy'
      BY <1>16 DEF StartLastPhase
    <2>. QED
      BY <1>16, <2>1, StartLastPhaseEffect DEF ServesInv
  <1>17. CASE StartPhaseFails
    BY <1>17 DEF StartPhaseFails
  <1>18. CASE ReconcileDone
    <2>1. Healthy' = Healthy
      BY <1>18, HealthyKept DEF ReconcileDone, host
    <2>. QED
      BY <1>18, <2>1, ReconcileDoneEffect DEF ReconcileDone
  <1>19. CASE PhaseDies
    BY <1>19 DEF PhaseDies, proc
  <1>20. CASE CrashInWrite
    BY <1>20 DEF CrashInWrite
  <1>21. CASE Tick \/ Crash \/ BecomeCalm \/ UNCHANGED vars
    <2>1. /\ up' = up /\ certs' = certs /\ cfg' = cfg /\ st' = st /\ file' = file
          /\ intact' = intact /\ (pc' = pc \/ pc' = "off")
      BY <1>21 DEF Tick, Crash, BecomeCalm, vars, proc, host
    <2>2. Healthy' = Healthy
      BY <2>1, HealthyKept
    <2>. QED
      BY <2>1, <2>2
  <1>. QED
    BY <1>1, <1>2, <1>3, <1>4, <1>5, <1>6, <1>7, <1>8, <1>9, <1>10, <1>11, <1>12, <1>13, <1>14,
       <1>15, <1>16, <1>17, <1>18, <1>19, <1>20, <1>21 DEF Next, Reconcile

-----------------------------------------------------------------------------
(* The theorems *)

LEMMA InvInit == Init => IInv
  <1>. SUFFICES ASSUME Init PROVE IInv
    OBVIOUS
  <1>1. TypeOK
    BY TypeInit
  <1>2. pc = "off" /\ intact = FALSE /\ file.ServiceState = FALSE
    BY DEF Init, NoFile
  <1>3. IndicesInRange /\ ReadyInv /\ StopsFromTheTop
    BY <1>2 DEF IndicesInRange, ReadyInv, Restarting, StopsFromTheTop
  <1>4. ServesInv /\ ReportInv /\ TolerateInv /\ IntactInv
    BY <1>2 DEF ServesInv, ServesItsCluster, ReportInv, ReportIsConsistent, TolerateInv,
       IntactInv, Restarting
  <1>. QED
    BY <1>1, <1>3, <1>4 DEF IInv

LEMMA InvStep == IInv /\ [Next]_vars => IInv'
  BY TypeStep, IndicesStep, ReadyStep, StopsStep, ServesStep, ReportStep, TolerateStep,
     IntactStep DEF IInv

LEMMA InvHolds == Spec => []IInv
  BY InvInit, InvStep, PTL DEF Spec

\* The state of the loop stays well typed.
THEOREM TypeCorrect == Spec => []TypeOK
  BY InvHolds, PTL DEF IInv

\* No index into the role's phase list is ever out of range, for any lists and any
\* sequence of role changes, crashes and failures.
THEOREM IndicesSafe == Spec => []IndicesInRange
  BY InvHolds, PTL DEF IInv

\* Start runs a phase only on top of phases that were started or seen in order.
THEOREM StartsAreSafe == Spec => []StartsOnReadyPhases
  <1>1. IInv => StartsOnReadyPhases
    <2>. SUFFICES ASSUME IInv, pc = "start", cfg.role # "none", NEW j \in 0 .. idx - 1
                  PROVE  hist[j] # "none"
      BY DEF StartsOnReadyPhases
    <2>1. idx \in Int /\ idx < NumPhases(cfg) /\ NumPhases(cfg) \in 1 .. N
      BY Indices, NumPhasesRange DEF IInv, IndicesInRange, TypeOK
    <2>2. j \in Phases /\ j < idx
      BY <2>1, PhasesAssumption
    <2>. QED
      BY <2>2 DEF IInv, ReadyInv, ReadyBelow
  <1>. QED
    BY <1>1, InvHolds, PTL

\* Stop takes phases down from the top of the stack.
THEOREM StopsAreSafe == Spec => []StopsFromTheTop
  BY InvHolds, PTL DEF IInv

\* A service reported as running serves the configured cluster.
THEOREM ServesCorrectly == Spec => []ServesItsCluster
  <1>1. IInv => ServesItsCluster
    BY DEF IInv, ServesInv
  <1>. QED
    BY <1>1, InvHolds, PTL

\* kube_status reports a running service only with every phase completed.
THEOREM ReportsCorrectly == Spec => []ReportIsConsistent
  <1>1. IInv => ReportIsConsistent
    BY DEF IInv, ReportInv
  <1>. QED
    BY <1>1, InvHolds, PTL

\* Nodelet never restarts a healthy stack it found running.
THEOREM HealthyIsSafe == Spec => []HealthyIsLeftAlone
  <1>1. IInv => HealthyIsLeftAlone
    BY DEF IInv, IntactInv, HealthyIsLeftAlone
  <1>. QED
    BY <1>1, InvHolds, PTL

\* Failing checks are tolerated for the whole threshold.
THEOREM ShortFailuresAreSafe == Spec => []ToleratesShortFailures
  <1>1. IInv => ToleratesShortFailures
    BY DEF IInv, TolerateInv, Restarting, ToleratesShortFailures
  <1>. QED
    BY <1>1, InvHolds, PTL
=============================================================================
