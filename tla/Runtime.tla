------------------------------ MODULE Runtime ------------------------------
(***************************************************************************)
(* The phases of a node that nodeletd runs itself, not through a script:   *)
(* they configure containerd, run it, load the user's images into it and   *)
(* run the kubelet.  The loop of nodeletd drives them; the kubelet, the    *)
(* containers, uploads of images and crashes run beside it.                *)
(***************************************************************************)
EXTENDS Naturals, FiniteSets

CONSTANTS
    Containers,      \* containers of the namespace k8s.io
    NumFiles,        \* names of image files
    MaxUploads,      \* uploads of image files
    MaxSwitches,     \* changes of KUBE_SERVICE_STATE
    MaxFaults,       \* kinds of fault in one behaviour, each any number of times
    StdErrLines      \* lines that "sudo systemctl is-active" prints on stderr

ASSUME RuntimeAssumption ==
    /\ NumFiles \in Nat /\ MaxUploads \in Nat
    /\ MaxSwitches \in Nat /\ MaxFaults \in Nat
    /\ StdErrLines \subseteq Nat /\ StdErrLines # {}

VARIABLES
    mode,            \* what the loop runs: "idle", "status", "stop", "start"
    at,              \* the phase it is at; Rest stands for the later phases
    from,            \* the phase down to which it stops and from which it starts
    step,            \* where it is inside the phase
    serviceState,    \* currentState.ServiceState
    failStep,        \* currentState.StartFailStep, None for -1
    want,            \* config.KubeServiceState
    conf,            \* cgroup tables in containerd's configuration file
    containerd,      \* "inactive", or "active"
    launched,        \* cgroup tables containerd was launched with
    ctr,             \* containers and their tasks
    queue,           \* containers that Stop still has to destroy
    victim,          \* the one it is at
    dir,             \* UserImagesDir exists
    files,           \* version of every image file, 0 when it is absent
    sums,            \* lines of sha256sums.txt, Missing when there is no file
    hash,            \* lines computed by GenerateHashForDir
    todo,            \* files of the last ReadDir that are still to be read
    images,          \* image files imported into containerd
    kubelet,         \* pf9-kubelet for systemd
    switches,
    uploads,         \* uploads so far
    faults           \* the kinds of fault that happened

loop == <<mode, at, from, step, serviceState, failStep>>
store == <<dir, files, sums, hash, todo, images>>
tasks == <<ctr, queue, victim>>
service == <<conf, containerd, launched>>
bounds == <<want, switches, uploads, faults>>
vars == <<loop, store, tasks, service, kubelet, bounds>>

ConfigureContainerd == 1
RunContainerd == 2
LoadImages == 3
Kubelet == 4
Rest == 5
None == 0

Files == 1..NumFiles
Version == [Files -> 0..MaxUploads]
NoLines == [f \in Files |-> 0]
Missing == <<>>
NoVictim == "none"
Present == {f \in Files : files[f] > 0}
FirstOf(S) == CHOOSE f \in S : \A g \in S : f <= g

Kinds == {"other", "version", "containerd", "container", "images", "kubelet",
          "kill", "panic"}
Tasks == {"absent", "none", "created", "running", "paused", "stopped"}

TypeOK ==
    /\ mode \in {"idle", "status", "stop", "start"}
    /\ at \in 1..Rest /\ from \in 1..Rest /\ failStep \in None..Rest
    /\ step \in {"enter", "hash", "record", "load",
                 "destroy", "term", "wait", "kill", "remove", "setup", "start"}
    /\ serviceState \in BOOLEAN /\ want \in BOOLEAN
    /\ conf \in 0..1 /\ launched \in 0..1
    /\ containerd \in {"inactive", "active"}
    /\ ctr \in [Containers -> Tasks] /\ queue \subseteq Containers
    /\ victim \in Containers \cup {NoVictim}
    /\ dir \in BOOLEAN /\ files \in Version /\ hash \in Version
    /\ sums \in Version \cup {Missing}
    /\ todo \subseteq Files /\ images \subseteq Files \X (1..MaxUploads)
    /\ kubelet \in {"inactive", "active", "activating"}
    /\ switches \in 0..MaxSwitches /\ uploads \in 0..MaxUploads /\ faults \subseteq Kinds

\* A fresh host: the packages are installed, containerd may already run with
\* the configuration of its package, and images may already be uploaded.
Init ==
    /\ mode = "idle" /\ at = 1 /\ from = 1 /\ step = "enter"
    /\ serviceState = FALSE /\ failStep = None /\ want = TRUE
    /\ conf = 0 /\ launched = 0 /\ containerd \in {"inactive", "active"}
    /\ ctr = [c \in Containers |-> "absent"] /\ queue = {} /\ victim = NoVictim
    /\ dir = FALSE /\ files = NoLines /\ sums = Missing
    /\ hash = NoLines /\ todo = {} /\ images = {}
    /\ kubelet = "inactive"
    /\ switches = 0 /\ uploads = 0 /\ faults = {}

\* A call fails or something crashes for a reason outside of nodelet.
Fault(k) ==
    /\ faults' = faults \cup {k} /\ Cardinality(faults' \ {"panic"}) <= MaxFaults
    /\ UNCHANGED <<want, switches, uploads>>

----------------------------------------------------------------------------
(* The loop.                                                               *)

Go(m, p) == mode' = m /\ at' = p /\ step' = "enter"

\* The iteration ends.
Idle == Go("idle", 1) /\ from' = 1

\* Stop from the last phase down to p.
StopTo(p) == Go("stop", Rest) /\ from' = p

\* Reconcile: after a start that failed no phase is asked for its status.
\* Every tenth attempt starts from the first phase.
Reconcile ==
    /\ mode = "idle"
    /\ IF failStep = None
       THEN Go("status", 1) /\ UNCHANGED from
       ELSE IF want THEN \E p \in {1, failStep} : StopTo(p)
                    ELSE Idle
    /\ UNCHANGED <<serviceState, failStep, store, tasks, service, kubelet, bounds>>

\* Status succeeded for every phase.
Running ==
    /\ IF want
       THEN Idle /\ serviceState' = TRUE /\ failStep' = None
       ELSE StopTo(1) /\ UNCHANGED <<serviceState, failStep>>

\* The status of phase p failed.  A stack that was running may be tolerated for
\* a while; one that was not is started from the first phase.
StatusFailed(p) ==
    \/ /\ serviceState
       /\ Running
    \/ /\ want
       /\ \E q \in {1} \cup (IF serviceState THEN {p} ELSE {}) : StopTo(q)
       /\ UNCHANGED <<serviceState, failStep>>
    \/ /\ ~want
       /\ Idle /\ UNCHANGED <<serviceState, failStep>>

StatusPassed ==
    IF at < Rest
    THEN Go("status", at + 1) /\ UNCHANGED <<from, serviceState, failStep>>
    ELSE Running

\* The end of the chain of stops, at its first phase or at one that fails.
\* The error is not looked at: the start follows.
StopEnds ==
    /\ IF want THEN Go("start", from) /\ UNCHANGED <<from, failStep>>
               ELSE Idle /\ failStep' = None
    /\ serviceState' = FALSE

StopPassed ==
    IF at > from
    THEN Go("stop", at - 1) /\ UNCHANGED <<from, serviceState, failStep>>
    ELSE StopEnds

StartPassed ==
    IF at < Rest
    THEN Go("start", at + 1) /\ UNCHANGED <<from, serviceState, failStep>>
    ELSE Idle /\ serviceState' = TRUE /\ failStep' = None

StartFailed ==
    /\ Idle /\ serviceState' = FALSE /\ failStep' = at

Passed == \/ mode = "status" /\ StatusPassed
          \/ mode = "stop" /\ StopPassed
          \/ mode = "start" /\ StartPassed

Failed == \/ mode = "status" /\ StatusFailed(at)
          \/ mode = "stop" /\ StopEnds
          \/ mode = "start" /\ StartFailed

In(m, p) == mode = m /\ at = p /\ step = "enter"

\* The phases before, between and after the four pass, or fail.
RestOfPhases ==
    /\ mode # "idle" /\ at = Rest /\ step = "enter"
    /\ Passed /\ UNCHANGED <<store, tasks, service, kubelet, bounds>>

OtherPhaseFails ==
    /\ mode # "idle" /\ step = "enter"
    /\ Fault("other") /\ Failed /\ UNCHANGED <<store, tasks, service, kubelet>>

----------------------------------------------------------------------------
(* Configure containerd.                                                   *)

\* Its Stop does nothing and its Status always succeeds.
ConfigureContainerdPasses ==
    /\ mode \in {"status", "stop"} /\ In(mode, ConfigureContainerd)
    /\ Passed /\ UNCHANGED <<store, tasks, service, kubelet, bounds>>

\* A mutant: the table is appended every time.
Mut_ConfigureContainerdStart ==
    /\ In("start", ConfigureContainerd)
    /\ conf' = conf + 1
    /\ Passed /\ UNCHANGED <<containerd, launched, store, tasks, kubelet, bounds>>

\* The cgroup table is appended unless the file has one.
ConfigureContainerdStart ==
    /\ In("start", ConfigureContainerd)
    /\ conf' = IF conf = 0 THEN conf + 1 ELSE conf
    /\ Passed /\ UNCHANGED <<containerd, launched, store, tasks, kubelet, bounds>>

----------------------------------------------------------------------------
(* Run containerd.                                                         *)

\* systemctl start: nothing happens when the service runs already.
SystemctlStart ==
    IF containerd = "active"
    THEN UNCHANGED <<containerd, launched>>
    ELSE containerd' = "active" /\ launched' = conf

RunContainerdStart ==
    /\ In("start", RunContainerd)
    /\ SystemctlStart
    /\ Passed /\ UNCHANGED <<conf, store, tasks, kubelet, bounds>>

\* systemctl start, or the chown of the socket after it, fails.
RunContainerdStartFails ==
    /\ In("start", RunContainerd)
    /\ Fault("containerd")
    /\ SystemctlStart \/ UNCHANGED <<containerd, launched>>
    /\ Failed /\ UNCHANGED <<conf, store, tasks, kubelet>>

RunContainerdStatus ==
    /\ In("status", RunContainerd)
    /\ IF containerd = "active" THEN Passed ELSE Failed
    /\ UNCHANGED <<store, tasks, service, kubelet, bounds>>

\* DestroyContainersInNamespacesList returns after the first of its namespaces,
\* k8s.io and moby: only the containers of the first are listed.
ContainersInNamespacesList == {c \in Containers : ctr[c] # "absent"}

\* NewContainerUtil fails without containerd.
RunContainerdStop ==
    /\ In("stop", RunContainerd)
    /\ IF containerd = "active"
       THEN /\ queue' = ContainersInNamespacesList
            /\ step' = "destroy"
            /\ UNCHANGED <<mode, at, from, serviceState, failStep>>
       ELSE Failed /\ UNCHANGED queue
    /\ UNCHANGED <<ctr, victim, store, service, kubelet, bounds>>

\* "containerd --version" fails: the phase counts as stopped.
NoVersion ==
    /\ In("stop", RunContainerd)
    /\ Fault("version") /\ Passed /\ UNCHANGED <<store, tasks, service, kubelet>>

Inside(s) == mode = "stop" /\ at = RunContainerd /\ step = s
StepTo(s) == step' = s /\ UNCHANGED <<mode, at, from, serviceState, failStep>>

\* EnsureContainersDestroyed takes the next container; StopContainer looks at
\* its task.
DestroyNext ==
    /\ Inside("destroy") /\ queue # {}
    /\ \E c \in queue :
          /\ victim' = c /\ queue' = queue \ {c}
          /\ StepTo(IF ctr[c] \in {"running", "paused"} THEN "term" ELSE "remove")
    /\ UNCHANGED <<ctr, store, service, kubelet, bounds>>

\* A container that cannot be stopped or removed is skipped.
Skip == StepTo("destroy") /\ victim' = NoVictim

\* SIGTERM, and resume if it was paused.  A task that is gone is an error.
Terminate ==
    /\ Inside("term")
    /\ IF ctr[victim] \in {"running", "paused"}
       THEN /\ ctr' = [ctr EXCEPT ![victim] = "running"]
            /\ StepTo("wait") /\ UNCHANGED victim
       ELSE Skip /\ UNCHANGED ctr
    /\ UNCHANGED <<queue, store, service, kubelet, bounds>>

\* A mutant: the wait for SIGTERM has no time-out.
Mut_WaitContainerStop ==
    /\ Inside("wait") /\ ctr[victim] = "stopped"
    /\ StepTo("remove")
    /\ UNCHANGED <<tasks, store, service, kubelet, bounds>>

\* waitContainerStop: the task exits, or ten seconds pass.
WaitContainerStop ==
    /\ Inside("wait")
    /\ StepTo(IF ctr[victim] = "stopped" THEN "remove" ELSE "kill")
    /\ UNCHANGED <<tasks, store, service, kubelet, bounds>>

\* SIGKILL and the wait without a time-out; a task that is gone is an error.
Kill ==
    /\ Inside("kill")
    /\ IF ctr[victim] = "running"
       THEN /\ ctr' = [ctr EXCEPT ![victim] = "stopped"]
            /\ StepTo("remove") /\ UNCHANGED victim
       ELSE Skip /\ UNCHANGED ctr
    /\ UNCHANGED <<queue, store, service, kubelet, bounds>>

\* RemoveContainer with force: the task, whatever its state, and the container.
RemoveContainer ==
    /\ Inside("remove")
    /\ ctr' = [ctr EXCEPT ![victim] = "absent"]
    /\ Skip
    /\ UNCHANGED <<queue, store, service, kubelet, bounds>>

\* A call to containerd fails, for this container.
ContainerFails ==
    /\ step \in {"term", "wait", "kill", "remove"}
    /\ Fault("container") /\ Skip
    /\ UNCHANGED <<ctr, queue, store, service, kubelet>>

\* A mutant: containerd itself is left running.
Mut_StopService ==
    /\ Inside("destroy") /\ queue = {}
    /\ Passed /\ UNCHANGED <<service, store, tasks, kubelet, bounds>>

\* rm of nerdctl's directory, and systemctl stop.
StopService ==
    /\ Inside("destroy") /\ queue = {}
    /\ containerd' = "inactive"
    /\ Passed /\ UNCHANGED <<conf, launched, store, tasks, kubelet, bounds>>

StopServiceFails ==
    /\ Inside("destroy") /\ queue = {}
    /\ Fault("containerd") /\ Failed /\ UNCHANGED <<store, tasks, service, kubelet>>

----------------------------------------------------------------------------
(* Load images.                                                            *)

LoadImagesStop ==
    /\ In("stop", LoadImages)
    /\ Passed /\ UNCHANGED <<store, tasks, service, kubelet, bounds>>

\* Status: without a directory there is nothing to do, without a checksum file
\* VerifyChecksum fails.
LoadImagesStatus ==
    /\ In("status", LoadImages)
    /\ \/ ~dir /\ Passed /\ UNCHANGED <<hash, todo>>
       \/ dir /\ sums = Missing /\ Failed /\ UNCHANGED <<hash, todo>>
       \/ dir /\ sums # Missing /\ StepTo("hash") /\ todo' = Present /\ hash' = NoLines
    /\ UNCHANGED <<dir, files, sums, images, tasks, service, kubelet, bounds>>

\* Start: makes the directory; GenerateChecksum or VerifyChecksum hash its files.
LoadImagesStart ==
    /\ In("start", LoadImages)
    /\ dir' = TRUE
    /\ StepTo("hash") /\ todo' = Present /\ hash' = NoLines
    /\ UNCHANGED <<files, sums, images, tasks, service, kubelet, bounds>>

\* GenerateHashForDir, one file after the other.
GenerateHashForFile ==
    /\ step = "hash" /\ todo # {}
    /\ LET f == FirstOf(todo)
       IN  hash' = [hash EXCEPT ![f] = files[f]] /\ todo' = todo \ {f}
    /\ UNCHANGED <<loop, dir, files, sums, images, tasks, service, kubelet, bounds>>

\* A mutant: new lines are recorded and nothing is imported.
Mut_VerifyChecksum ==
    /\ step = "hash" /\ todo = {}
    /\ Passed
    /\ hash' = NoLines /\ sums' = hash
    /\ UNCHANGED <<dir, files, todo, images, tasks, service, kubelet, bounds>>

\* The lines are compared with the ones in the file.
VerifyChecksum ==
    /\ step = "hash" /\ todo = {}
    /\ IF sums = hash THEN Passed /\ hash' = NoLines
                      ELSE StepTo("record") /\ UNCHANGED hash
    /\ UNCHANGED <<dir, files, sums, todo, images, tasks, service, kubelet, bounds>>

\* WriteToFile; LoadImagesFromDir reads the directory again.
WriteChecksum ==
    /\ step = "record"
    /\ sums' = hash /\ todo' = Present /\ hash' = NoLines
    /\ StepTo("load")
    /\ UNCHANGED <<dir, files, images, tasks, service, kubelet, bounds>>

\* LoadImagesFromFile needs containerd; the first error ends the phase.
LoadImagesFromFile ==
    /\ step = "load" /\ todo # {}
    /\ LET f == FirstOf(todo)
       IN  IF containerd = "active"
           THEN /\ images' = images \cup {<<f, files[f]>>}
                /\ todo' = todo \ {f} /\ UNCHANGED loop
           ELSE Failed /\ todo' = {} /\ UNCHANGED images
    /\ UNCHANGED <<dir, files, sums, hash, tasks, service, kubelet, bounds>>

\* A mutant: the lines are written after the import.
Mut_LoadImagesDone ==
    /\ step = "load" /\ todo = {}
    /\ sums' = files
    /\ Passed /\ UNCHANGED <<dir, files, hash, todo, images, tasks, service, kubelet, bounds>>

LoadImagesDone ==
    /\ step = "load" /\ todo = {}
    /\ Passed /\ UNCHANGED <<store, tasks, service, kubelet, bounds>>

\* A file cannot be read, the checksum not written or an import fails.
LoadImagesFails ==
    /\ step \in {"hash", "record", "load"}
    /\ Fault("images") /\ Failed
    /\ hash' = NoLines /\ todo' = {}
    /\ UNCHANGED <<dir, files, sums, images, tasks, service, kubelet>>

----------------------------------------------------------------------------
(* The kubelet.                                                            *)

\* systemctl is-active prints the state on stdout.  When it is "inactive" the
\* first line of stderr is used without asking whether there is one.
Panics == kubelet = "inactive" /\ 0 \in StdErrLines
Answers == kubelet # "inactive" \/ StdErrLines # {0}

\* A mutant: only a unit that is "active" runs.
Mut_IsKubeletRunning == kubelet = "active"

IsKubeletRunning == kubelet # "inactive"

KubeletStatus ==
    /\ In("status", Kubelet) /\ Answers
    /\ IF IsKubeletRunning THEN Passed ELSE Failed
    /\ UNCHANGED <<store, tasks, service, kubelet, bounds>>

\* EnsureKubeletRunning: nothing to do, or its configuration is written.
PrepareKubeletBootstrapConfig ==
    /\ In("start", Kubelet) /\ Answers
    /\ IF IsKubeletRunning THEN Passed ELSE StepTo("setup")
    /\ UNCHANGED <<store, tasks, service, kubelet, bounds>>

\* The runtime unit and its environment are written, and daemon-reload.
KubeletSetup ==
    /\ step = "setup"
    /\ StepTo("start") /\ UNCHANGED <<store, tasks, service, kubelet, bounds>>

KubeletStart ==
    /\ step = "start"
    /\ kubelet' = "active"
    /\ Passed /\ UNCHANGED <<store, tasks, service, bounds>>

\* One of the files or commands fails; when it is the last one the kubelet may
\* run all the same.
KubeletStartFails ==
    /\ step \in {"setup", "start"}
    /\ kubelet' \in (IF step = "start" THEN {kubelet, "active"} ELSE {kubelet})
    /\ Fault("kubelet") /\ Failed /\ UNCHANGED <<store, tasks, service>>

\* EnsureKubeletStopped.
KubeletStop ==
    /\ In("stop", Kubelet) /\ Answers
    /\ kubelet' = IF IsKubeletRunning THEN "inactive" ELSE kubelet
    /\ Passed /\ UNCHANGED <<store, tasks, service, bounds>>

KubeletStopFails ==
    /\ In("stop", Kubelet) /\ Answers /\ IsKubeletRunning
    /\ Fault("kubelet") /\ Failed /\ UNCHANGED <<store, tasks, service, kubelet>>

\* A new nodeletd: it knows nothing of a start that failed, and takes the
\* stack for stopped until its phases say otherwise.
Restarted ==
    /\ Idle /\ serviceState' = FALSE /\ failStep' = None
    /\ queue' = {} /\ victim' = NoVictim /\ hash' = NoLines /\ todo' = {}

Panic ==
    /\ mode # "idle" /\ at = Kubelet /\ step = "enter" /\ Panics
    /\ faults' = faults \cup {"panic"}
    /\ Restarted
    /\ UNCHANGED <<ctr, dir, files, sums, images, service, kubelet, want, switches, uploads>>

----------------------------------------------------------------------------
(* What happens beside the loop.                                           *)

\* WriteToFile truncates the file and writes line by line.
FirstLines(n) == [f \in Files |-> IF f <= n THEN hash[f] ELSE 0]

\* nodeletd is killed; a file that was being written ends after any line.
Killed ==
    /\ Fault("kill") /\ Restarted
    /\ IF step = "record"
       THEN \E n \in 0..NumFiles : sums' = FirstLines(n)
       ELSE UNCHANGED sums
    /\ UNCHANGED <<ctr, dir, files, images, service, kubelet>>

\* The host restarts: the runtime unit of the kubelet and all tasks are gone.
Reboot ==
    /\ Fault("kill") /\ Restarted
    /\ kubelet' = "inactive"
    /\ containerd' \in {"inactive", "active"} /\ launched' = conf
    /\ ctr' = [c \in Containers |-> IF ctr[c] = "absent" THEN "absent" ELSE "none"]
    /\ UNCHANGED <<conf, dir, files, sums, images>>

\* A new version of an image file is moved into the directory.
Upload(f) ==
    /\ uploads < MaxUploads /\ uploads' = uploads + 1
    /\ files' = [files EXCEPT ![f] = @ + 1] /\ dir' = TRUE
    /\ UNCHANGED <<loop, sums, hash, todo, images, tasks, service, kubelet>>
    /\ UNCHANGED <<want, switches, faults>>

\* The kubelet creates and starts containers.
CreateContainer(c) ==
    /\ kubelet = "active" /\ containerd = "active"
    /\ \/ ctr[c] \in {"absent", "none"} /\ ctr' = [ctr EXCEPT ![c] = "created"]
       \/ ctr[c] = "created" /\ ctr' = [ctr EXCEPT ![c] = "running"]
    /\ UNCHANGED <<loop, queue, victim, store, service, kubelet, bounds>>

\* Tasks exit, and are paused, by themselves.
TaskChanges(c) ==
    /\ \/ ctr[c] = "running" /\ ctr' = [ctr EXCEPT ![c] = "stopped"]
       \/ ctr[c] = "running" /\ containerd = "active" /\ victim # c
          /\ ctr' = [ctr EXCEPT ![c] = "paused"]
    /\ UNCHANGED <<loop, queue, victim, store, service, kubelet, bounds>>

\* The kubelet exits and systemd starts it again.
KubeletExits ==
    /\ kubelet = "active" /\ Fault("kubelet") /\ kubelet' = "activating"
    /\ UNCHANGED <<loop, store, tasks, service>>

KubeletReturns ==
    /\ kubelet = "activating" /\ kubelet' = "active"
    /\ UNCHANGED <<loop, store, tasks, service, bounds>>

ContainerdExits ==
    /\ containerd = "active" /\ Fault("containerd") /\ containerd' = "inactive"
    /\ UNCHANGED <<loop, store, tasks, conf, launched, kubelet>>

\* KUBE_SERVICE_STATE changes, and nodeletd runs with the new configuration.
Switch ==
    /\ mode = "idle" /\ switches < MaxSwitches
    /\ want' = ~want /\ switches' = switches + 1
    /\ UNCHANGED <<loop, store, tasks, service, kubelet, uploads, faults>>

----------------------------------------------------------------------------
Destroy ==
    \/ DestroyNext \/ Terminate \/ WaitContainerStop \/ Kill \/ RemoveContainer
    \/ StopService

Loop ==
    \/ Reconcile \/ RestOfPhases
    \/ ConfigureContainerdPasses \/ ConfigureContainerdStart
    \/ RunContainerdStart \/ RunContainerdStatus \/ RunContainerdStop \/ Destroy
    \/ LoadImagesStop \/ LoadImagesStatus \/ LoadImagesStart
    \/ GenerateHashForFile \/ VerifyChecksum \/ WriteChecksum
    \/ LoadImagesFromFile \/ LoadImagesDone
    \/ KubeletStatus \/ PrepareKubeletBootstrapConfig \/ KubeletSetup \/ KubeletStart
    \/ KubeletStop \/ Panic

Faults ==
    \/ OtherPhaseFails \/ RunContainerdStartFails \/ NoVersion \/ ContainerFails
    \/ StopServiceFails \/ LoadImagesFails \/ KubeletStartFails \/ KubeletStopFails
    \/ Killed \/ Reboot \/ KubeletExits \/ ContainerdExits

Beside ==
    \/ \E f \in Files : Upload(f)
    \/ \E c \in Containers : CreateContainer(c) \/ TaskChanges(c)
    \/ KubeletReturns \/ Switch

Next == Loop \/ Faults \/ Beside

Spec == Init /\ [][Next]_vars

\* The loop runs for as long as nodeletd does, and systemd restarts nodeletd
\* and the kubelet; nothing else has to happen.
FairSpec == Spec /\ WF_vars(Loop) /\ WF_vars(KubeletReturns)

----------------------------------------------------------------------------
(* Properties.                                                             *)

Without(kinds) == faults \cap kinds = {}

Loaded == \A f \in Present : <<f, files[f]>> \in images

\* Whenever containerd is stopped no container of k8s.io is left running,
\* although tasks exit while they are signalled, ignore SIGTERM or are paused,
\* and although nodeletd dies and begins again: the kubelet, which makes them,
\* is stopped before they are listed.
NothingLeftRunning ==
    Without({"containerd", "container"}) /\ containerd = "inactive"
        => \A c \in Containers : ctr[c] \notin {"running", "paused"}

\* A stack that counts as started runs on a containerd that was launched with
\* one cgroup table, although systemctl start leaves a running containerd alone.
ConfigInEffect ==
    Without({"other", "version", "containerd", "kubelet"}) /\ mode = "idle" /\ serviceState
        => conf = 1 /\ launched = 1

\* The lines of sha256sums.txt are only those of the directory when its files
\* were imported: a file that is replaced while it is hashed or imported makes
\* the next status load it again.
RecordedIsLoaded ==
    Without({"kill", "images", "containerd"}) /\ step # "load" /\ sums = files => Loaded

\* A phase that could not import the images fails until it has: a stack that
\* counts as started has the images of the directory it recorded.
RunningMeansLoaded ==
    mode = "idle" /\ serviceState /\ sums = files => Loaded

\* Stop returns: a task that ignores SIGTERM is killed.
StopReturns == mode = "stop" ~> mode # "stop"

\* An image that is uploaded is imported, without a restart of the stack.
NewImagesAreLoaded ==
    \A f \in Files, v \in 1..MaxUploads :
        files[f] = v /\ want
            ~> <<f, v>> \in images \/ files[f] # v \/ ~want \/ faults # {}

\* Where nothing else fails the stack comes up: to stop a kubelet that does not
\* run is no error.
ComesUp == want ~> serviceState \/ ~want
=============================================================================
