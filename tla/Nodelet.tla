------------------------------- MODULE Nodelet -------------------------------
(***************************************************************************)
(* The reconciliation loop of nodeletd (src/nodelet/pkg/nodelet).  Every    *)
(* loop checks the phases of the node's role in ascending order (Status)    *)
(* and then brings the Kubernetes stack of the host up or down by running   *)
(* the phases' start operations in ascending and their stop operations in   *)
(* descending order.  The process may die between any two operations; what  *)
(* it remembers across a restart is the extension file, kube_status.        *)
(*                                                                         *)
(* A phase is its index in the role's list.  Index 0 of a master or worker  *)
(* is gen_certs; the list of role "none" holds one clean-up phase.          *)
(***************************************************************************)
EXTENDS Integers

CONSTANTS
    N,                       \* phases of a master or worker
    Probed,                  \* phases whose Status looks at the host (others return ok)
    Daemons,                 \* phases whose processes the role-none status looks for
    ApiPhases,               \* phases the API server needs: none on a worker
    Ids,                     \* cluster ids, "" for no cluster
    Configs,                 \* configurations Sunpike or resmgr may give the node; "bad"
                             \* are the phases that cannot start with it
    FullRetryCount,
    NumRetriesForErrorState,
    Threshold                \* PF9StatusThresholdSeconds, in ticks of the clock

Phases == 0 .. N - 1
Roles == {"master", "worker", "none"}
NodeStates == {"ok", "converging", "retrying", "failed"}
NoCerts == <<"", "">>

ASSUME PhasesAssumption == N \in Nat \ {0} /\ Probed \subseteq Phases /\ 0 \in Probed
ASSUME DaemonsAssumption == /\ Daemons \subseteq Probed
                            /\ ApiPhases \subseteq Phases
ASSUME ConfigsAssumption ==
    /\ Configs \subseteq [svc : {"true", "false", "ignore"}, id : Ids, role : Roles,
                          bad : SUBSET Phases]
    /\ "" \in Ids /\ Ids \subseteq STRING
ASSUME RetryAssumption ==
    FullRetryCount \in Nat \ {0, 1} /\ NumRetriesForErrorState \in Nat \ {0}
ASSUME ThresholdAssumption == Threshold \in Nat

VARIABLES
    cfg,     \* the configuration the process was launched with
    pc,      \* where the process is: "off" when it is not running
    idx,     \* the phase the running Status, Stop or Start chain is at
    goal,    \* the failedCheck the chains work from
    st,      \* currentState, the ExtensionData in memory
    file,    \* kube_status on disk, or NoFile
    age,     \* time since LastSuccessfulStatus, up to Threshold
    up,      \* phases whose work is in place on the host
    certs,   \* cluster id and role recorded in the certificates' .done file
    hist,    \* what the host's nodelets know of each phase (history)
    intact,  \* nothing happened to the stack since it was last seen healthy (history)
    calm     \* from now on no fault, and no new configuration

host == <<up, certs>>
proc == <<cfg, pc, idx, goal, st, file, age>>
vars == <<cfg, pc, idx, goal, st, file, age, up, certs, hist, intact, calm>>

Identity(c) == <<c.id, c.role>>

\* The number of phases InitAndLoadRolePhases loads for the configured role.
NumPhases(c) == IF c.role = "none" THEN 1 ELSE N

(***************************************************************************)
(* The extension file                                                      *)
(***************************************************************************)
attemptsState(s) ==
    IF s.StartAttempts = 1 THEN "converging"
    ELSE IF s.StartAttempts > NumRetriesForErrorState THEN "failed"
    ELSE IF s.StartAttempts > 1 THEN "retrying"
    ELSE s.NodeState

\* The node state Write() derives before it marshals the data.
populateExtraFields(c, s) ==
    [s EXCEPT !.NodeState =
        IF s.ServiceState THEN "ok"
        ELSE IF c.svc = "ignore" THEN s.NodeState
        ELSE IF (c.svc = "true") = s.KubeRunning THEN "ok"
        ELSE attemptsState(s)]

\* The fields of ExtensionData that have a JSON name.
Stored(s) ==
    [ServiceState |-> s.ServiceState, NodeState |-> s.NodeState,
     StartAttempts |-> s.StartAttempts, ClusterID |-> s.ClusterID,
     ClusterRole |-> s.ClusterRole, CompletedPhases |-> s.CompletedPhases]

\* tryToPersistStatus with the extension file enabled: s becomes the current
\* state and is written out.
tryToPersistStatus(s) ==
    /\ st' = populateExtraFields(cfg, s)
    /\ file' = Stored(populateExtraFields(cfg, s))

\* A missing file, or one torn by a crash between the truncation and the end of
\* the write, does not unmarshal; Load then keeps what New() put in the struct.
NoFile ==
    [ServiceState |-> FALSE, NodeState |-> "converging", StartAttempts |-> 1,
     ClusterID |-> "", ClusterRole |-> "", CompletedPhases |-> 0]

\* Load with convertNodeState: a node that was ok converges again.
Load(f) ==
    IF f.NodeState = "ok"
    THEN [f EXCEPT !.NodeState = "converging", !.StartAttempts = 1]
    ELSE f

Mut_constructInitialCurrentState(f) ==
    [ServiceState |-> FALSE, NodeState |-> Load(f).NodeState,
     StartAttempts |-> Load(f).StartAttempts, ClusterID |-> "", ClusterRole |-> "",
     CompletedPhases |-> 0, Operation |-> "stop", KubeRunning |-> FALSE,
     FailedStatusCheck |-> 0, StartFailStep |-> -1]

\* What a new process knows: only the persisted fields survive, and of those the
\* service state and the completed phases are reset.
constructInitialCurrentState(f) ==
    [ServiceState |-> FALSE, NodeState |-> Load(f).NodeState,
     StartAttempts |-> Load(f).StartAttempts, ClusterID |-> Load(f).ClusterID,
     ClusterRole |-> Load(f).ClusterRole, CompletedPhases |-> 0,
     Operation |-> "stop", KubeRunning |-> FALSE, FailedStatusCheck |-> 0,
     StartFailStep |-> -1]

(***************************************************************************)
(* The phases, as the operations of the bash scripts and of the Go phases   *)
(* appear to the loop.                                                      *)
(***************************************************************************)
\* A phase is in order: its work is in place and, for gen_certs, belongs to the
\* configured cluster and role.
Fit(i) == i \in up /\ (i = 0 => certs = Identity(cfg))

\* Status of phase i.  Role "none" reports running when any daemon is up.
PhaseStatus(i) ==
    IF cfg.role = "none" THEN up \cap Daemons # {} ELSE i \in Probed => Fit(i)

Fails(i) == cfg.role # "none" /\ i \in cfg.bad

\* A successful start leaves the phase's work in place.  gen_certs keeps
\* certificates whose .done file exists, whatever cluster they are for.
PhaseStartOk(i) ==
    IF cfg.role = "none" THEN UNCHANGED <<up, certs, hist>>
    ELSE /\ up' = up \cup {i}
         /\ certs' = IF i = 0 /\ 0 \notin up THEN Identity(cfg) ELSE certs
         /\ hist' = [hist EXCEPT ![i] = "ran"]

\* A failed start leaves the phase as it was, or in place after all.
PhaseStartFail(i) ==
    IF cfg.role = "none" THEN UNCHANGED <<up, certs, hist>>
    ELSE /\ \/ UNCHANGED host
            \/ /\ up' = up \cup {i}
               /\ certs' = IF i = 0 /\ 0 \notin up THEN Identity(cfg) ELSE certs
         /\ hist' = [hist EXCEPT ![i] = "none"]

PhaseStopOk(i) ==
    IF cfg.role = "none"
    THEN up' = {} /\ certs' = NoCerts /\ hist' = [j \in Phases |-> "none"]
    ELSE /\ up' = up \ {i}
         /\ certs' = IF i = 0 THEN NoCerts ELSE certs
         /\ hist' = [hist EXCEPT ![i] = "none"]

\* A failed stop of one phase undoes nothing or all of its work.  The clean-up
\* of role "none" goes from the last daemon to the files and may fail half way.
PhaseStopFail(i) ==
    IF cfg.role = "none"
    THEN /\ \E k \in 0 .. N : up' = {j \in up : j < k}
         /\ certs' = IF 0 \in up' THEN certs ELSE NoCerts
         /\ hist' = [j \in Phases |-> "none"]
    ELSE /\ UNCHANGED host \/ (up' = up \ {i} /\ certs' = IF i = 0 THEN NoCerts ELSE certs)
         /\ hist' = [hist EXCEPT ![i] = "none"]

\* The last phase drains the node when it stops, which takes the API server.
DrainFails(i) == cfg.role # "none" /\ i = N - 1 /\ ~(ApiPhases \subseteq up)

\* What Nodelet sees of a phase whose Status passed.
Seen(i) ==
    IF cfg.role = "none" \/ hist[i] = "ran" THEN hist ELSE [hist EXCEPT ![i] = "seen"]

(***************************************************************************)
(* Init, faults and time                                                   *)
(***************************************************************************)
Init ==
    /\ cfg \in Configs
    /\ pc = "off" /\ idx = 0 /\ goal = 0 /\ age = Threshold
    /\ file = NoFile /\ st = constructInitialCurrentState(NoFile)
    /\ up = {} /\ certs = NoCerts /\ hist = [i \in Phases |-> "none"]
    /\ intact = FALSE /\ calm = FALSE

\* Time passes; LastSuccessfulStatus is only ever compared with Threshold.
Tick ==
    /\ age < Threshold
    /\ age' = age + 1
    /\ UNCHANGED <<cfg, pc, idx, goal, st, file, up, certs, hist, intact, calm>>

\* A phase's process dies, or its files are lost.
PhaseDies ==
    /\ ~calm
    /\ \E i \in up : /\ up' = up \ {i}
                    /\ certs' = IF i = 0 THEN NoCerts ELSE certs
    /\ intact' = FALSE
    /\ UNCHANGED <<proc, hist, calm>>

\* nodeletd is killed, or exits on a configuration update.
Crash ==
    /\ ~calm /\ pc # "off"
    /\ pc' = "off"
    /\ UNCHANGED <<cfg, idx, goal, st, file, age, host, hist, intact, calm>>

\* nodeletd is killed while it writes the extension file.
CrashInWrite ==
    /\ ~calm /\ pc \notin {"off", "idle"}
    /\ pc' = "off" /\ file' = NoFile /\ intact' = FALSE
    /\ UNCHANGED <<cfg, idx, goal, st, age, host, hist, calm>>

BecomeCalm ==
    /\ ~calm /\ calm' = TRUE
    /\ UNCHANGED <<proc, host, hist, intact>>

(***************************************************************************)
(* The process                                                             *)
(***************************************************************************)
\* CreateNodeletFromConfig and the head of Run.  A new configuration is only
\* ever picked up here.
Launch ==
    /\ pc = "off"
    /\ \E c \in Configs :
        LET s == populateExtraFields(c, constructInitialCurrentState(file)) IN
        /\ calm => c = cfg
        /\ cfg' = c
        /\ st' = IF c.id = "" THEN [s EXCEPT !.NodeState = "ok", !.StartAttempts = 0] ELSE s
        /\ file' = Stored(s)
        /\ intact' = (intact /\ c = cfg)
    /\ pc' = "idle" /\ idx' = 0 /\ goal' = 0 /\ age' = Threshold
    /\ UNCHANGED <<host, hist, calm>>

\* Reconcile starts with Status.  After an incomplete start no check is run: the
\* phase that failed to start is taken for the failed check.
Status ==
    LET s == [st EXCEPT !.Operation = "status", !.KubeRunning = FALSE] IN
    /\ pc = "idle"
    /\ IF st.StartFailStep # -1
       THEN /\ st' = [populateExtraFields(cfg, s) EXCEPT !.FailedStatusCheck = st.StartFailStep]
            /\ file' = Stored(populateExtraFields(cfg, s))
            /\ pc' = "handle"
       ELSE st' = s /\ pc' = "status" /\ UNCHANGED file
    /\ UNCHANGED <<cfg, idx, goal, age, host, hist, intact, calm>>

StatusPass ==
    /\ pc = "status" /\ idx < NumPhases(cfg) /\ PhaseStatus(idx)
    /\ idx' = idx + 1
    /\ hist' = Seen(idx)
    /\ UNCHANGED <<cfg, pc, goal, st, file, age, host, intact, calm>>

StatusAllPassed ==
    /\ pc = "status" /\ idx = NumPhases(cfg)
    /\ st' = [populateExtraFields(cfg, st) EXCEPT !.KubeRunning = TRUE, !.FailedStatusCheck = 0]
    /\ file' = Stored(populateExtraFields(cfg, st))
    /\ age' = 0 /\ pc' = "handle"
    /\ UNCHANGED <<cfg, idx, goal, host, hist, intact, calm>>

Mut_failedStatus(s, i) == [s EXCEPT !.FailedStatusCheck = IF s.ServiceState THEN i ELSE 0]

\* What a failed check of phase i does to the state: it is tolerated for Threshold
\* when the service runs, and expected when it does not.
failedStatus(s, i) ==
    IF s.ServiceState /\ age < Threshold
    THEN [s EXCEPT !.KubeRunning = TRUE, !.FailedStatusCheck = 0]
    ELSE [s EXCEPT !.FailedStatusCheck = IF s.ServiceState THEN i ELSE 0]

\* The first failing check ends the chain.  A check can also fail by itself.
StatusFail ==
    /\ pc = "status" /\ idx < NumPhases(cfg) /\ (PhaseStatus(idx) => ~calm)
    /\ st' = failedStatus(populateExtraFields(cfg, st), idx)
    /\ file' = Stored(populateExtraFields(cfg, st))
    /\ age' = IF st.ServiceState THEN age ELSE 0
    /\ pc' = "handle" /\ intact' = FALSE
    /\ hist' = IF cfg.role = "none" THEN hist ELSE [hist EXCEPT ![idx] = "none"]
    /\ UNCHANGED <<cfg, idx, goal, host, calm>>

Mut_Matches == TRUE

\* The cluster the running stack was started for is the configured one.
Matches ==
    \/ <<st.ClusterID, st.ClusterRole>> = Identity(cfg)
    \/ st.ClusterID = "" /\ st.ClusterRole = "none"

Healthy == cfg.role # "none" /\ \A i \in Probed : Fit(i)

\* handleServiceStartState when the stack already runs.
AlreadyRunning ==
    /\ pc = "handle" /\ cfg.svc = "true" /\ st.KubeRunning /\ Matches
    /\ tryToPersistStatus([st EXCEPT !.Operation = "start", !.StartAttempts = 0,
          !.ServiceState = TRUE, !.StartFailStep = -1, !.CompletedPhases = NumPhases(cfg)])
    /\ intact' = (intact \/ Healthy)
    /\ pc' = "end"
    /\ UNCHANGED <<cfg, idx, goal, age, host, hist, calm>>

\* A mutant: the attempts are not counted up.
Mut_NextAttempt(a) == 1

\* StartAttempts + 1, folded above NumRetriesForErrorState by a multiple of
\* FullRetryCount: the counter is only compared with 1 and with
\* NumRetriesForErrorState, and taken modulo FullRetryCount.
NextAttempt(a) ==
    IF a + 1 > NumRetriesForErrorState + FullRetryCount THEN a + 1 - FullRetryCount ELSE a + 1

Mut_failedCheck2(a) == IF a % FullRetryCount = 0 THEN 0 ELSE st.FailedStatusCheck + 1

\* Every FullRetryCount-th attempt restarts the whole chain.
failedCheck(a) == IF a % FullRetryCount = 0 THEN 0 ELSE st.FailedStatusCheck

Mut_Restart ==
    /\ pc = "handle" /\ cfg.svc = "true" /\ ~(st.KubeRunning /\ Matches)
    /\ st' = [st EXCEPT !.Operation = "start", !.StartAttempts = NextAttempt(@)]
    /\ goal' = failedCheck(NextAttempt(st.StartAttempts))
    /\ pc' = "stop" /\ idx' = NumPhases(cfg) - 2
    /\ UNCHANGED <<cfg, file, age, host, hist, intact, calm>>

\* handleServiceStartState when it does not: Stop, then Start.
Restart ==
    /\ pc = "handle" /\ cfg.svc = "true" /\ ~(st.KubeRunning /\ Matches)
    /\ st' = [st EXCEPT !.Operation = "start", !.StartAttempts = NextAttempt(@)]
    /\ goal' = failedCheck(NextAttempt(st.StartAttempts))
    /\ pc' = "stop" /\ idx' = NumPhases(cfg) - 1
    /\ UNCHANGED <<cfg, file, age, host, hist, intact, calm>>

Mut_handleServiceStopState ==
    /\ pc = "handle" /\ cfg.svc = "false"
    /\ st' = [st EXCEPT !.Operation = "stop"]
    /\ IF st.KubeRunning
       THEN pc' = "stop" /\ idx' = NumPhases(cfg) /\ goal' = 0
       ELSE pc' = "end" /\ UNCHANGED <<idx, goal>>
    /\ UNCHANGED <<cfg, file, age, host, hist, intact, calm>>

Mut_handleServiceStopState2 ==
    /\ pc = "handle" /\ cfg.svc = "false"
    /\ st' = [st EXCEPT !.Operation = "stop"]
    /\ IF st.ServiceState
       THEN pc' = "stop" /\ idx' = NumPhases(cfg) - 1 /\ goal' = 0
       ELSE pc' = "end" /\ UNCHANGED <<idx, goal>>
    /\ UNCHANGED <<cfg, file, age, host, hist, intact, calm>>

handleServiceStopState ==
    /\ pc = "handle" /\ cfg.svc = "false"
    /\ st' = [st EXCEPT !.Operation = "stop"]
    /\ IF st.KubeRunning
       THEN pc' = "stop" /\ idx' = NumPhases(cfg) - 1 /\ goal' = 0
       ELSE pc' = "end" /\ UNCHANGED <<idx, goal>>
    /\ UNCHANGED <<cfg, file, age, host, hist, intact, calm>>

\* KubeServiceState is neither true nor false.
IgnoreState ==
    /\ pc = "handle" /\ cfg.svc = "ignore"
    /\ pc' = "end"
    /\ UNCHANGED <<cfg, idx, goal, st, file, age, host, hist, intact, calm>>

(***************************************************************************)
(* The stop chain and the start chain                                      *)
(***************************************************************************)
\* Restarting: gen_certs is only torn down when it is the failed check.
SkipsGenCerts ==
    st.Operation = "start" /\ cfg.role # "none" /\ idx = 0 /\ st.FailedStatusCheck # 0

\* The early return leaves the state as it is.
StopSkipsGenCerts ==
    /\ pc = "stop" /\ idx >= goal /\ SkipsGenCerts
    /\ pc' = "stopped"
    /\ UNCHANGED <<cfg, idx, goal, st, file, age, host, hist, intact, calm>>

Mut_stopState(s) == [s EXCEPT !.CompletedPhases = goal]

\* The tail of Stop, reached at the end of the chain and when a phase failed.
stopState(s) ==
    IF goal = 0
    THEN [s EXCEPT !.ServiceState = FALSE, !.CompletedPhases = 0, !.StartAttempts = 0,
                   !.ClusterID = "", !.ClusterRole = ""]
    ELSE [s EXCEPT !.ServiceState = FALSE, !.CompletedPhases = goal]

StopPhase ==
    /\ pc = "stop" /\ idx >= goal /\ ~SkipsGenCerts /\ ~DrainFails(idx)
    /\ PhaseStopOk(idx)
    /\ idx' = idx - 1 /\ intact' = FALSE
    /\ UNCHANGED <<cfg, pc, goal, st, file, age, calm>>

StopPhaseFails ==
    /\ pc = "stop" /\ idx >= goal /\ ~SkipsGenCerts /\ (calm => DrainFails(idx))
    /\ PhaseStopFail(idx)
    /\ tryToPersistStatus(stopState(st))
    /\ pc' = "stopped" /\ intact' = FALSE
    /\ UNCHANGED <<cfg, idx, goal, age, calm>>

StopReturns ==
    /\ pc = "stop" /\ idx < goal
    /\ tryToPersistStatus(stopState(st))
    /\ pc' = "stopped"
    /\ UNCHANGED <<cfg, idx, goal, age, host, hist, intact, calm>>

\* The rest of handleServiceStopState.
ServiceStopped ==
    /\ pc = "stopped" /\ st.Operation = "stop"
    /\ st' = [st EXCEPT !.StartFailStep = -1]
    /\ pc' = "end"
    /\ UNCHANGED <<cfg, idx, goal, file, age, host, hist, intact, calm>>

\* handleServiceStartState goes on to Start whatever Stop returned.
BeginStart ==
    /\ pc = "stopped" /\ st.Operation = "start"
    /\ tryToPersistStatus([st EXCEPT !.ClusterID = cfg.id, !.ClusterRole = cfg.role,
                                     !.CompletedPhases = goal])
    /\ pc' = "start" /\ idx' = goal
    /\ UNCHANGED <<cfg, goal, age, host, hist, intact, calm>>

StartPhase ==
    /\ pc = "start" /\ ~Fails(idx) /\ idx + 1 < NumPhases(cfg)
    /\ PhaseStartOk(idx)
    /\ tryToPersistStatus([st EXCEPT !.CompletedPhases = idx + 1])
    /\ idx' = idx + 1
    /\ UNCHANGED <<cfg, pc, goal, age, intact, calm>>

\* The last phase is up: the service runs.
StartLastPhase ==
    /\ pc = "start" /\ ~Fails(idx) /\ idx + 1 = NumPhases(cfg)
    /\ PhaseStartOk(idx)
    /\ tryToPersistStatus([st EXCEPT !.CompletedPhases = idx + 1, !.StartAttempts = 0,
                                     !.ServiceState = TRUE, !.StartFailStep = -1])
    /\ UNCHANGED <<cfg, idx, goal, age, calm>>
    /\ pc' = "end" /\ intact' = Healthy'

\* A start fails when it is broken, when a phase before it is not in order, or by
\* itself.
StartPhaseFails ==
    /\ pc = "start"
    /\ calm => Fails(idx) \/ (cfg.role # "none" /\ \E j \in 0 .. idx - 1 : ~Fit(j))
    /\ PhaseStartFail(idx)
    /\ tryToPersistStatus([st EXCEPT !.ServiceState = FALSE, !.StartFailStep = idx])
    /\ pc' = "end"
    /\ UNCHANGED <<cfg, idx, goal, age, intact, calm>>

\* Reconcile ends with persistStatusAndUpdateConfigIfChanged; Run sleeps.
ReconcileDone ==
    /\ pc = "end"
    /\ tryToPersistStatus(st)
    /\ pc' = "idle" /\ idx' = 0 /\ goal' = 0
    /\ UNCHANGED <<cfg, age, host, hist, intact, calm>>

Reconcile ==
    \/ Status \/ StatusPass \/ StatusAllPassed \/ StatusFail
    \/ AlreadyRunning \/ Restart \/ handleServiceStopState \/ IgnoreState
    \/ StopSkipsGenCerts \/ StopPhase \/ StopPhaseFails \/ StopReturns \/ ServiceStopped
    \/ BeginStart \/ StartPhase \/ StartLastPhase \/ StartPhaseFails \/ ReconcileDone

Next == Launch \/ Reconcile \/ Tick \/ PhaseDies \/ Crash \/ CrashInWrite \/ BecomeCalm

Spec == Init /\ [][Next]_vars

\* systemd relaunches the process, the loop never waits for anything but its own
\* commands, and time passes.
FairSpec == Spec /\ WF_vars(Launch \/ Reconcile) /\ WF_vars(Tick)

(***************************************************************************)
(* Properties                                                              *)
(***************************************************************************)
States ==
    [ServiceState : BOOLEAN, NodeState : NodeStates, StartAttempts : Nat, ClusterID : Ids,
     ClusterRole : Roles \cup {""}, CompletedPhases : 0 .. N,
     Operation : {"start", "stop", "status"}, KubeRunning : BOOLEAN,
     FailedStatusCheck : Phases, StartFailStep : Phases \cup {-1}]

StoredStates ==
    [ServiceState : BOOLEAN, NodeState : NodeStates, StartAttempts : Nat, ClusterID : Ids,
     ClusterRole : Roles \cup {""}, CompletedPhases : 0 .. N]

TypeOK ==
    /\ cfg \in Configs
    /\ pc \in {"off", "idle", "status", "handle", "stop", "stopped", "start", "end"}
    /\ idx \in -1 .. N /\ (pc \in {"idle", "status", "start"} => idx >= 0)
    /\ goal \in Phases
    /\ st \in States /\ file \in StoredStates
    /\ age \in 0 .. Threshold
    /\ up \subseteq Phases /\ certs \in Ids \X (Roles \cup {""})
    /\ hist \in [Phases -> {"none", "ran", "seen"}]
    /\ intact \in BOOLEAN /\ calm \in BOOLEAN

\* Every index the process uses is one of its role's phase list, so that no access
\* of n.phases or of AllPhases[0:k] is out of range, also after a change of role.
IndicesInRange ==
    pc # "off" =>
        /\ goal < NumPhases(cfg)
        /\ st.FailedStatusCheck < NumPhases(cfg) /\ st.StartFailStep < NumPhases(cfg)
        /\ idx <= NumPhases(cfg) /\ (pc \in {"stop", "start"} => idx < NumPhases(cfg))

\* Start never runs a phase before every phase it builds on was started, or was
\* seen to pass its check, and was not stopped or seen failing since, through
\* partial restarts, broken stop chains and restarts of nodeletd.
StartsOnReadyPhases ==
    pc = "start" /\ cfg.role # "none" => \A j \in 0 .. idx - 1 : hist[j] # "none"

\* Stop takes a phase down only when no later phase, which depends on it, is up.
StopsFromTheTop ==
    pc = "stop" /\ cfg.role # "none" => \A j \in up : j <= idx

\* A process that reports the service as running has started it, or found it
\* running, for the configured cluster and role; or no cluster was recorded.
ServesItsCluster ==
    pc # "off" /\ st.ServiceState =>
        <<st.ClusterID, st.ClusterRole>> \in {Identity(cfg), <<"", "none">>}

\* kube_status never reports a running service together with phases that are not
\* completed, not even while the whole stack is being restarted.
ReportIsConsistent == file.ServiceState => file.CompletedPhases = NumPhases(cfg)

\* A stack that was healthy and lost nothing is never taken down to be started
\* again, whatever happens to nodeletd itself.
HealthyIsLeftAlone == pc = "stop" /\ st.Operation = "start" => ~intact

\* While the service is reported as running, failing checks lead to a restart only
\* after they failed for PF9StatusThresholdSeconds.
ToleratesShortFailures ==
    pc = "stop" /\ st.Operation = "start" /\ st.ServiceState => age >= Threshold

\* The loop, the faults and the restarts of nodeletd together implement the ordered
\* stack of phases: every step of theirs is one of its steps, or changes nothing.
Stack == INSTANCE PhaseStack WITH ready <- {i \in Phases : hist[i] # "none"}
IsPhaseStack == Stack!Spec

\* Once faults and new configurations cease, a node that shall run ends up with
\* every checked phase in order and reports it, and stays there.  A phase whose
\* lost prerequisite no check sees is repaired by the full restart.  The exception
\* are certificates left from another cluster: gen_certs keeps what exists.
Recovers ==
    <>[](calm /\ cfg.svc = "true" /\ cfg.role # "none" /\ cfg.bad = {}
            /\ certs \in {Identity(cfg), NoCerts} =>
            Healthy /\ (pc = "idle" => st.ServiceState /\ file.NodeState = "ok"))

\* A node without a role ends up with nothing running, however far the stack was
\* up or down when the role was taken away.
DetachedIsStopped ==
    <>[](calm /\ cfg.svc = "false" /\ cfg.role = "none" => up \cap Daemons = {})

(***************************************************************************)
(* The inductive invariant behind the safety properties                    *)
(***************************************************************************)
Restarting == pc \in {"stop", "stopped"} /\ st.Operation = "start"
ReadyBelow(k) == \A j \in Phases : j < k => hist[j] # "none"

\* The phase each chain, or the next one, starts from has ready phases below it.
ReadyInv ==
    cfg.role # "none" =>
        /\ pc = "start" => ReadyBelow(idx)
        /\ Restarting => ReadyBelow(goal)
        /\ pc = "handle" => /\ ReadyBelow(st.FailedStatusCheck)
                            /\ st.StartFailStep \in {-1, st.FailedStatusCheck}
        /\ pc = "status" => ReadyBelow(idx) /\ st.StartFailStep = -1
        /\ pc \in {"idle", "end"} => ReadyBelow(st.StartFailStep)
        /\ pc = "idle" => idx = 0

\* Start runs for the configured cluster, with the identity already recorded.
ServesInv ==
    /\ ServesItsCluster
    /\ pc = "start" => <<st.ClusterID, st.ClusterRole>> = Identity(cfg)

\* The service state is cleared by every stop before a start changes the completed
\* phases: the one return of Stop that keeps it needs a full retry, which the
\* first attempt after a running service never is.
ReportInv ==
    /\ pc # "off" /\ st.ServiceState =>
          /\ st.CompletedPhases = NumPhases(cfg) /\ st.StartFailStep = -1
          /\ pc \notin {"stopped", "start"}
          /\ pc \in {"idle", "status", "handle", "end"} => st.StartAttempts = 0
          /\ Restarting => goal = st.FailedStatusCheck
    /\ ReportIsConsistent

\* Failing checks of a running service reach the restart only past the threshold.
TolerateInv ==
    pc # "off" /\ st.ServiceState /\ (Restarting \/ (pc = "handle" /\ ~st.KubeRunning))
        => age >= Threshold

\* An intact stack is healthy, and both records of it match the configuration.
IntactInv ==
    /\ pc = "start" \/ Restarting => cfg.svc = "true"
    /\ intact =>
          /\ Healthy /\ cfg.svc = "true" /\ pc \notin {"stop", "stopped", "start"}
          /\ \/ <<file.ClusterID, file.ClusterRole>> = Identity(cfg)
             \/ file.ClusterID = "" /\ file.ClusterRole = "none"
          /\ pc # "off" => Matches /\ st.StartFailStep = -1
          /\ pc = "handle" => st.KubeRunning

IInv ==
    /\ TypeOK /\ IndicesInRange /\ ReadyInv /\ StopsFromTheTop
    /\ ServesInv /\ ReportInv /\ TolerateInv /\ IntactInv
=============================================================================
